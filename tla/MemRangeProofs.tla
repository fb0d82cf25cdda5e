--------------------------- MODULE MemRangeProofs ---------------------------
(***************************************************************************)
(* Proofs about RangeList and MemRange, for every page size, every size of *)
(* the address space and every set of tags, and, behind them, about the    *)
(* boot memory map that SelfBoot builds with RangeList and about the       *)
(* payload loader that works with that map.                                *)
(***************************************************************************)
EXTENDS MemRange, SelfBoot, WellFoundedInduction, SequenceTheorems, TLAPS

-----------------------------------------------------------------------------
(* Recursion *)

LEMMA SmallestNat ==
    ASSUME NEW T, T \subseteq Nat, T # {}
    PROVE  \E x \in T : \A y \in T : x <= y
<1>1. PICK x \in T : \A y \in T : <<y, x>> \notin OpToRel(<, Nat)
  BY WFMin, NatLessThanWellFounded
<1>2. ASSUME NEW y \in T, y < x PROVE FALSE
  <2>1. <<y, x>> \in Nat \X Nat /\ <<y, x>>[1] < <<y, x>>[2]
    BY <1>2
  <2>2. <<y, x>> \in OpToRel(<, Nat)
    BY <2>1, Zenon DEF OpToRel
  <2> QED BY <1>1, <2>2
<1> QED BY <1>2

\* G says what the value at x is, from the values where the measure m is
\* smaller than at x.
Recursive(S, V, m, G) ==
    /\ m \in [S -> Nat] /\ G \in [[S -> V] \X S -> V] /\ V # {}
    /\ \A g, h \in [S -> V] : \A x \in S :
          (\A y \in S : m[y] < m[x] => g[y] = h[y]) => G[<<g, x>>] = G[<<h, x>>]

\* g is right where the measure is below n.
RightBelow(S, V, m, G, n, g) ==
    g \in [S -> V] /\ \A x \in S : m[x] < n => g[x] = G[<<g, x>>]

LEMMA OneBelow ==
    ASSUME NEW S, NEW V, NEW m, NEW G, Recursive(S, V, m, G), NEW n \in Nat, NEW g, NEW h,
           RightBelow(S, V, m, G, n, g), RightBelow(S, V, m, G, n, h)
    PROVE  \A x \in S : m[x] < n => g[x] = h[x]
<1> DEFINE T == {m[x] : x \in {y \in S : m[y] < n /\ g[y] # h[y]}}
<1> SUFFICES ASSUME T # {} PROVE FALSE
  OBVIOUS
<1>1. T \subseteq Nat
  BY DEF Recursive
<1>2. PICK k \in T : \A j \in T : k <= j
  BY <1>1, SmallestNat
<1>3. PICK x \in S : m[x] = k /\ m[x] < n /\ g[x] # h[x]
  OBVIOUS
<1>4. ASSUME NEW y \in S, m[y] < m[x] PROVE g[y] = h[y]
  <2>1. m[y] \in Nat /\ m[x] \in Nat
    BY DEF Recursive
  <2>2. m[y] < n
    BY <1>3, <1>4, <2>1
  <2>3. ~(k <= m[y])
    BY <1>3, <1>4, <2>1
  <2> QED BY <1>2, <2>2, <2>3
<1>5. g \in [S -> V] /\ h \in [S -> V]
  BY DEF RightBelow
<1>6. G[<<g, x>>] = G[<<h, x>>]
  BY <1>4, <1>5 DEF Recursive
<1> QED BY <1>3, <1>6 DEF RightBelow

LEMMA SomeBelow ==
    ASSUME NEW S, NEW V, NEW m, NEW G, Recursive(S, V, m, G), NEW n \in Nat
    PROVE  \E g : RightBelow(S, V, m, G, n, g)
<1> DEFINE T == {k \in Nat : ~\E g : RightBelow(S, V, m, G, k, g)}
<1> SUFFICES ASSUME T # {} PROVE FALSE
  OBVIOUS
<1>1. PICK k \in T : \A j \in T : k <= j
  BY SmallestNat
<1>2. k # 0
  <2>1. PICK v : v \in V
    BY DEF Recursive
  <2>2. ASSUME NEW x \in S PROVE ~(m[x] < 0)
    BY DEF Recursive
  <2>3. RightBelow(S, V, m, G, 0, [x \in S |-> v])
    BY <2>1, <2>2 DEF RightBelow
  <2> QED BY <2>3
<1>3. k - 1 \in Nat /\ k - 1 \notin T
  BY <1>1, <1>2
<1>4. PICK g : RightBelow(S, V, m, G, k - 1, g)
  BY <1>3
<1> DEFINE h == [x \in S |-> IF m[x] < k - 1 THEN g[x] ELSE G[<<g, x>>]]
<1>5. g \in [S -> V]
  BY <1>4 DEF RightBelow
<1>6. h \in [S -> V]
  <2>1. ASSUME NEW x \in S PROVE g[x] \in V /\ G[<<g, x>>] \in V
    BY <1>5 DEF Recursive
  <2> QED BY <2>1
<1>7. ASSUME NEW x \in S, m[x] < k PROVE h[x] = G[<<h, x>>]
  <2>1. m[x] \in Nat /\ \A y \in S : m[y] \in Nat
    BY DEF Recursive
  <2>2. ASSUME NEW y \in S, m[y] < m[x] PROVE g[y] = h[y]
    BY <1>7, <2>1, <2>2
  <2>3. G[<<g, x>>] = G[<<h, x>>]
    <3> HIDE DEF h
    <3> QED BY <1>5, <1>6, <2>2 DEF Recursive
  <2>4. h[x] = G[<<g, x>>]
    BY <1>4 DEF RightBelow
  <2> QED BY <2>3, <2>4
<1>8. RightBelow(S, V, m, G, k, h)
  <2> HIDE DEF h
  <2> QED BY <1>6, <1>7 DEF RightBelow
<1> QED BY <1>8

\* There is a function that is its own definition.
LEMMA Recursion ==
    ASSUME NEW S, NEW V, NEW m, NEW G, Recursive(S, V, m, G)
    PROVE  \E f \in [S -> V] : \A x \in S : f[x] = G[<<f, x>>]
<1> DEFINE Some(n) == CHOOSE g : RightBelow(S, V, m, G, n, g)
           f == [x \in S |-> Some(m[x] + 1)[x]]
<1>1. ASSUME NEW n \in Nat PROVE RightBelow(S, V, m, G, n, Some(n))
  BY SomeBelow
<1>2. ASSUME NEW x \in S PROVE m[x] \in Nat /\ m[x] + 1 \in Nat /\ Some(m[x] + 1) \in [S -> V]
  <2>1. m[x] \in Nat /\ m[x] + 1 \in Nat
    BY DEF Recursive
  <2> HIDE DEF Some
  <2> QED BY <1>1, <2>1 DEF RightBelow
<1> HIDE DEF Some
<1>3. f \in [S -> V]
  BY <1>2
<1>4. ASSUME NEW x \in S PROVE f[x] = G[<<f, x>>]
  <2> DEFINE g == Some(m[x] + 1)
  <2>1. RightBelow(S, V, m, G, m[x] + 1, g) /\ g \in [S -> V]
    BY <1>1, <1>2
  <2> HIDE DEF g
  <2>2. ASSUME NEW y \in S, m[y] < m[x] PROVE g[y] = f[y]
    <3>1. RightBelow(S, V, m, G, m[y] + 1, Some(m[y] + 1))
      BY <1>1, <1>2
    <3>2. m[y] \in Nat /\ m[x] \in Nat
      BY <1>2
    <3>3. RightBelow(S, V, m, G, m[y] + 1, g)
      <4>1. ASSUME NEW z \in S, m[z] < m[y] + 1 PROVE m[z] < m[x] + 1
        <5>1. m[z] \in Nat
          BY <1>2
        <5> QED BY <2>2, <3>2, <4>1, <5>1
      <4> QED BY <2>1, <4>1 DEF RightBelow
    <3>4. m[y] < m[y] + 1 /\ m[y] + 1 \in Nat
      BY <3>2
    <3>5. g[y] = Some(m[y] + 1)[y]
      BY <3>1, <3>3, <3>4, OneBelow
    <3> QED BY <3>5
  <2>3. G[<<g, x>>] = G[<<f, x>>]
    <3> HIDE DEF f
    <3> QED BY <1>3, <2>1, <2>2 DEF Recursive
  <2>4. g[x] = G[<<g, x>>]
    <3>1. m[x] < m[x] + 1
      BY <1>2
    <3> QED BY <2>1, <3>1 DEF RightBelow
  <2>5. f[x] = g[x]
    BY DEF g
  <2> QED BY <2>3, <2>4, <2>5
<1> HIDE DEF f
<1> QED BY <1>3, <1>4

-----------------------------------------------------------------------------
(* Lists *)

\* What holds for a list when it holds for all shorter ones holds for all.
LEMMA ListInduction ==
    ASSUME NEW T,
           \A l \in List : (\A k \in List : Len(k) < Len(l) => k \in T) => l \in T
    PROVE  List \subseteq T
<1> DEFINE N == {Len(l) : l \in List \ T}
<1> SUFFICES ASSUME NEW l \in List, l \notin T PROVE FALSE
  OBVIOUS
<1>1. ASSUME NEW k \in List PROVE Len(k) \in Nat
  BY DEF List
<1>2. N \subseteq Nat /\ Len(l) \in N
  BY <1>1
<1>3. PICK n \in N : \A k \in N : n <= k
  BY <1>2, SmallestNat
<1>4. PICK j \in List : j \notin T /\ n = Len(j)
  OBVIOUS
<1>5. ASSUME NEW k \in List, Len(k) < Len(j) PROVE k \in T
  <2> SUFFICES ASSUME k \notin T PROVE FALSE
    OBVIOUS
  <2>1. ~(Len(j) <= Len(k))
    BY <1>1, <1>5
  <2>2. Len(k) \in N
    OBVIOUS
  <2> HIDE DEF N
  <2> QED BY <1>3, <1>4, <2>1, <2>2
<1> QED BY <1>4, <1>5

LEMMA Decompose ==
    ASSUME NEW l \in List, l # <<>>
    PROVE  /\ l[1] \in Entry /\ Tail(l) \in List
           /\ Len(l) \in Nat /\ Len(Tail(l)) = Len(l) - 1 /\ Len(Tail(l)) < Len(l)
           /\ l = <<l[1]>> \o Tail(l)
           /\ \A i \in 1 .. Len(l) - 1 : Tail(l)[i] = l[i + 1]
BY DEF List

LEMMA Compose ==
    ASSUME NEW x \in Entry, NEW r \in List
    PROVE  /\ <<x>> \o r \in List /\ <<x>> \o r # <<>>
           /\ Len(<<x>> \o r) = Len(r) + 1 /\ Len(r) \in Nat
           /\ (<<x>> \o r)[1] = x /\ Tail(<<x>> \o r) = r
           /\ \A i \in 1 .. Len(r) : (<<x>> \o r)[i + 1] = r[i]
BY DEF List

LEMMA EmptyList == <<>> \in List /\ Len(<<>>) = 0 /\ \A l \in List : Len(l) = 0 <=> l = <<>>
BY DEF List

LEMMA EntryFact ==
    ASSUME NEW x \in Entry
    PROVE  x.begin \in Int /\ x.end \in Int /\ x.tag \in Tags
BY DEF Entry

-----------------------------------------------------------------------------
(* What a list stands for *)

In(x, a, t) == x.begin <= a /\ a <= x.end /\ x.tag = t

\* The list gives address a the tag t.
Gives(l, a, t) == \E i \in 1 .. Len(l) : In(l[i], a, t)

\* An entry of whole pages.
Good(x) == x.begin <= x.end /\ x.begin % PAGE = 0 /\ (x.end + 1) % PAGE = 0

Sorted(l) ==
    /\ \A i \in 1 .. Len(l) : Good(l[i])
    /\ \A i, j \in 1 .. Len(l) : i < j => l[i].end < l[j].begin

\* No entry could go on.
Ended(l) == \A i \in 1 .. Len(l) : ~Gives(l, l[i].end + 1, l[i].tag)

\* All that r gives lies behind x.
Apart(x, r) == \A a \in Int, t \in Tags : Gives(r, a, t) => x.end < a

Same(l, k) == \A a \in Int, t \in Tags : Gives(l, a, t) <=> Gives(k, a, t)

LEMMA EmptyGives ==
    /\ \A a, t : ~Gives(<<>>, a, t)
    /\ Sorted(<<>>) /\ Ended(<<>>)
BY DEF Gives, Sorted, Ended

LEMMA GivesCompose ==
    ASSUME NEW x \in Entry, NEW r \in List, NEW a, NEW t
    PROVE  Gives(<<x>> \o r, a, t) <=> In(x, a, t) \/ Gives(r, a, t)
<1> DEFINE l == <<x>> \o r
           n == Len(r)
<1>1. Len(l) = n + 1 /\ l[1] = x /\ n \in Nat /\ \A i \in 1 .. n : l[i + 1] = r[i]
  BY Compose
<1> HIDE DEF l
<1>2. ASSUME Gives(l, a, t) PROVE In(x, a, t) \/ Gives(r, a, t)
  <2>1. PICK i \in 1 .. n + 1 : In(l[i], a, t)
    BY <1>1, <1>2 DEF Gives
  <2>2. CASE i = 1
    BY <1>1, <2>1, <2>2
  <2>3. CASE i # 1
    <3>1. i - 1 \in 1 .. n /\ (i - 1) + 1 = i
      BY <1>1, <2>3
    <3>2. l[i] = r[i - 1]
      BY <1>1, <3>1
    <3> QED BY <2>1, <3>1, <3>2 DEF Gives
  <2> QED BY <2>2, <2>3
<1>3. ASSUME In(x, a, t) PROVE Gives(l, a, t)
  <2>1. 1 \in 1 .. n + 1
    BY <1>1
  <2> QED BY <1>1, <1>3, <2>1 DEF Gives
<1>4. ASSUME Gives(r, a, t) PROVE Gives(l, a, t)
  <2>1. PICK i \in 1 .. n : In(r[i], a, t)
    BY <1>4 DEF Gives
  <2>2. i + 1 \in 1 .. n + 1 /\ l[i + 1] = r[i]
    BY <1>1
  <2> QED BY <1>1, <2>1, <2>2 DEF Gives
<1> QED BY <1>2, <1>3, <1>4 DEF l

\* The first and the last address of an entry are given.
LEMMA BoundsGiven ==
    ASSUME NEW r \in List, Sorted(r), NEW i \in 1 .. Len(r)
    PROVE  /\ r[i] \in Entry /\ Good(r[i])
           /\ Gives(r, r[i].begin, r[i].tag) /\ Gives(r, r[i].end, r[i].tag)
<1>1. r[i] \in Entry
  BY DEF List
<1>2. r[i].begin \in Int /\ r[i].end \in Int /\ Good(r[i])
  BY <1>1, EntryFact DEF Sorted
<1>3. In(r[i], r[i].begin, r[i].tag) /\ In(r[i], r[i].end, r[i].tag)
  BY <1>2 DEF In, Good
<1> QED BY <1>1, <1>2, <1>3 DEF Gives

LEMMA SortedCompose ==
    ASSUME NEW x \in Entry, NEW r \in List, Good(x), Sorted(r), Apart(x, r)
    PROVE  Sorted(<<x>> \o r)
<1> DEFINE l == <<x>> \o r
           n == Len(r)
<1>1. Len(l) = n + 1 /\ l[1] = x /\ n \in Nat /\ \A i \in 1 .. n : l[i + 1] = r[i]
  BY Compose
<1> HIDE DEF l
<1>2. ASSUME NEW i \in 1 .. n PROVE x.end < r[i].begin
  <2>1. r[i] \in Entry /\ Gives(r, r[i].begin, r[i].tag)
    BY BoundsGiven
  <2>2. r[i].begin \in Int /\ r[i].tag \in Tags
    BY <2>1, EntryFact
  <2> QED BY <2>1, <2>2 DEF Apart
<1>3. ASSUME NEW i \in 1 .. n + 1 PROVE i = 1 \/ (i - 1 \in 1 .. n /\ l[i] = r[i - 1])
  <2> SUFFICES ASSUME i # 1 PROVE i - 1 \in 1 .. n /\ l[i] = r[i - 1]
    OBVIOUS
  <2>1. i - 1 \in 1 .. n /\ (i - 1) + 1 = i
    BY <1>1
  <2> QED BY <1>1, <2>1
<1>4. ASSUME NEW i \in 1 .. n + 1 PROVE Good(l[i])
  BY <1>1, <1>3 DEF Sorted
<1>5. ASSUME NEW i \in 1 .. n + 1, NEW j \in 1 .. n + 1, i < j PROVE l[i].end < l[j].begin
  <2>1. j - 1 \in 1 .. n /\ l[j] = r[j - 1]
    BY <1>1, <1>3, <1>5
  <2>2. CASE i = 1
    BY <1>1, <1>2, <2>1, <2>2
  <2>3. CASE i # 1
    <3>1. i - 1 \in 1 .. n /\ l[i] = r[i - 1] /\ i - 1 < j - 1
      BY <1>1, <1>3, <1>5, <2>3
    <3> QED BY <2>1, <3>1 DEF Sorted
  <2> QED BY <2>2, <2>3
<1> QED BY <1>1, <1>4, <1>5 DEF Sorted, l

LEMMA SortedDecompose ==
    ASSUME NEW x \in Entry, NEW r \in List, Sorted(<<x>> \o r)
    PROVE  Good(x) /\ Sorted(r) /\ Apart(x, r)
<1> DEFINE l == <<x>> \o r
           n == Len(r)
<1>1. Len(l) = n + 1 /\ l[1] = x /\ n \in Nat /\ \A i \in 1 .. n : l[i + 1] = r[i]
  BY Compose
<1>2. Sorted(l)
  OBVIOUS
<1> HIDE DEF l
<1>3. Good(x)
  <2>1. 1 \in 1 .. n + 1
    BY <1>1
  <2> QED BY <1>1, <1>2, <2>1 DEF Sorted
<1>4. ASSUME NEW i \in 1 .. n
      PROVE  i + 1 \in 1 .. Len(l) /\ 1 < i + 1 /\ 1 \in 1 .. Len(l) /\ l[i + 1] = r[i]
  BY <1>1
<1>5. Sorted(r)
  <2>1. ASSUME NEW i \in 1 .. n PROVE Good(r[i])
    BY <1>2, <1>4 DEF Sorted
  <2>2. ASSUME NEW i \in 1 .. n, NEW j \in 1 .. n, i < j PROVE r[i].end < r[j].begin
    <3>1. i + 1 < j + 1
      BY <1>1, <2>2
    <3> QED BY <1>2, <1>4, <3>1 DEF Sorted
  <2> QED BY <2>1, <2>2 DEF Sorted
<1>6. Apart(x, r)
  <2> SUFFICES ASSUME NEW a \in Int, NEW t \in Tags, Gives(r, a, t) PROVE x.end < a
    BY DEF Apart
  <2>1. PICK i \in 1 .. n : In(r[i], a, t)
    BY DEF Gives
  <2>2. x.end < r[i].begin
    BY <1>1, <1>2, <1>4 DEF Sorted
  <2>3. r[i] \in Entry
    BY DEF List
  <2>4. x.end \in Int /\ r[i].begin \in Int
    BY <2>3, EntryFact
  <2> QED BY <2>1, <2>2, <2>4 DEF In
<1> QED BY <1>3, <1>5, <1>6

LEMMA EndedCompose ==
    ASSUME NEW x \in Entry, NEW r \in List, Sorted(r), Apart(x, r), Ended(r),
           ~Gives(r, x.end + 1, x.tag)
    PROVE  Ended(<<x>> \o r)
<1> DEFINE l == <<x>> \o r
           n == Len(r)
<1>1. Len(l) = n + 1 /\ l[1] = x /\ n \in Nat /\ \A i \in 1 .. n : l[i + 1] = r[i]
  BY Compose
<1>2. \A a, t : Gives(l, a, t) <=> In(x, a, t) \/ Gives(r, a, t)
  BY GivesCompose
<1> HIDE DEF l
<1>3. x.end \in Int
  BY EntryFact
<1>4. ASSUME NEW i \in 1 .. n + 1 PROVE ~Gives(l, l[i].end + 1, l[i].tag)
  <2>1. CASE i = 1
    <3>1. ~In(x, x.end + 1, x.tag)
      BY <1>3 DEF In
    <3> QED BY <1>1, <1>2, <2>1, <3>1
  <2>2. CASE i # 1
    <3>1. i - 1 \in 1 .. n /\ (i - 1) + 1 = i
      BY <1>1, <2>2
    <3>2. l[i] = r[i - 1]
      BY <1>1, <3>1
    <3> DEFINE e == r[i - 1]
    <3>3. e \in Entry /\ Gives(r, e.end, e.tag)
      BY <3>1, BoundsGiven
    <3>4. ~Gives(r, e.end + 1, e.tag)
      BY <3>1 DEF Ended
    <3> HIDE DEF e
    <3>5. e.end \in Int /\ e.tag \in Tags
      BY <3>3, EntryFact
    <3>6. x.end < e.end
      BY <3>3, <3>5 DEF Apart
    <3>7. ~In(x, e.end + 1, e.tag)
      BY <1>3, <3>5, <3>6 DEF In
    <3> QED BY <1>2, <3>2, <3>4, <3>7 DEF e
  <2> QED BY <2>1, <2>2
<1> QED BY <1>1, <1>4 DEF Ended, l

LEMMA EndedDecompose ==
    ASSUME NEW x \in Entry, NEW r \in List, Ended(<<x>> \o r)
    PROVE  Ended(r) /\ ~Gives(r, x.end + 1, x.tag)
<1> DEFINE l == <<x>> \o r
           n == Len(r)
<1>1. Len(l) = n + 1 /\ l[1] = x /\ n \in Nat /\ \A i \in 1 .. n : l[i + 1] = r[i]
  BY Compose
<1>2. \A a, t : Gives(l, a, t) <=> In(x, a, t) \/ Gives(r, a, t)
  BY GivesCompose
<1>3. Ended(l)
  OBVIOUS
<1> HIDE DEF l
<1>4. 1 \in 1 .. Len(l) /\ \A i \in 1 .. n : i + 1 \in 1 .. Len(l)
  BY <1>1
<1>5. ~Gives(r, x.end + 1, x.tag)
  BY <1>1, <1>2, <1>3, <1>4 DEF Ended
<1>6. ASSUME NEW i \in 1 .. n PROVE ~Gives(r, r[i].end + 1, r[i].tag)
  <2>1. ~Gives(l, l[i + 1].end + 1, l[i + 1].tag)
    BY <1>3, <1>4 DEF Ended
  <2> QED BY <1>1, <1>2, <2>1
<1> QED BY <1>5, <1>6 DEF Ended

-----------------------------------------------------------------------------
(* merge_neighbor_entries *)

Joined(list) == <<[list[1] EXCEPT !.end = list[2].end]>> \o SubSeq(list, 3, Len(list))
MergeBody(g, list) ==
    IF Len(list) < 2 THEN list
    ELSE IF Mergeable(list[1], list[2]) THEN g[Joined(list)]
    ELSE <<list[1]>> \o g[Tail(list)]

LEMMA JoinedFact ==
    ASSUME NEW l \in List, ~(Len(l) < 2)
    PROVE  /\ l # <<>> /\ l[1] \in Entry /\ Tail(l) \in List /\ Tail(l) # <<>>
           /\ l[2] = Tail(l)[1] /\ l[2] \in Entry
           /\ Joined(l) = <<[l[1] EXCEPT !.end = l[2].end]>> \o Tail(Tail(l))
           /\ [l[1] EXCEPT !.end = l[2].end] \in Entry /\ Tail(Tail(l)) \in List
           /\ Joined(l) \in List /\ Len(Joined(l)) < Len(l) /\ Len(Tail(l)) < Len(l)
<1>1. l # <<>> /\ Len(l) \in Nat
  BY DEF List
<1>2. l[1] \in Entry /\ Tail(l) \in List /\ Len(Tail(l)) = Len(l) - 1 /\ Len(Tail(l)) < Len(l)
      /\ \A i \in 1 .. Len(l) - 1 : Tail(l)[i] = l[i + 1]
  BY <1>1, Decompose
<1>3. PICK n \in Nat : n = Len(l) /\ n >= 2
  BY <1>1
<1>4. /\ Tail(l) # <<>> /\ Tail(l)[1] \in Entry /\ Tail(Tail(l)) \in List
      /\ Len(Tail(Tail(l))) = n - 2
  <2>1. Len(Tail(l)) = n - 1 /\ n - 1 # 0
    BY <1>2, <1>3
  <2>2. Tail(l) # <<>>
    BY <2>1, <1>2, EmptyList
  <2>3. /\ Tail(l)[1] \in Entry /\ Tail(Tail(l)) \in List
        /\ Len(Tail(Tail(l))) = Len(Tail(l)) - 1
    BY <1>2, <2>2, Decompose
  <2>4. (n - 1) - 1 = n - 2
    BY <1>3
  <2> QED BY <2>1, <2>2, <2>3, <2>4
<1>5. l[2] = Tail(l)[1]
  BY <1>1, <1>2
<1>6. SubSeq(l, 3, Len(l)) = Tail(Tail(l))
  BY <1>1 DEF List
<1>7. [l[1] EXCEPT !.end = l[2].end] \in Entry
  BY <1>2, <1>4, <1>5 DEF Entry
<1>8. Joined(l) = <<[l[1] EXCEPT !.end = l[2].end]>> \o Tail(Tail(l))
  BY <1>6 DEF Joined
<1>9. Joined(l) \in List /\ Len(Joined(l)) < Len(l)
  <2>1. Joined(l) \in List /\ Len(Joined(l)) = Len(Tail(Tail(l))) + 1
    <3> DEFINE z == [l[1] EXCEPT !.end = l[2].end]
               w == Tail(Tail(l))
    <3>1. z \in Entry /\ w \in List /\ Joined(l) = <<z>> \o w
      BY <1>4, <1>7, <1>8
    <3> HIDE DEF z, w
    <3>2. <<z>> \o w \in List /\ Len(<<z>> \o w) = Len(w) + 1
      BY <3>1, Compose
    <3> QED BY <3>1, <3>2, Zenon DEF w
  <2> DEFINE j == Len(Joined(l))
             q == Len(Tail(Tail(l)))
  <2>2. j = q + 1 /\ q = n - 2
    BY <1>4, <2>1
  <2> HIDE DEF j, q
  <2>3. j < n
    BY <1>3, <2>2
  <2> QED BY <1>3, <2>1, <2>3 DEF j
<1> QED BY <1>1, <1>2, <1>3, <1>4, <1>5, <1>7, <1>8, <1>9

\* The loop over the list is well defined.
LEMMA MergeFact ==
    \E f \in [List -> List] :
        /\ \A l \in List : merge_neighbor_entries(l) = f[l]
        /\ \A l \in List : f[l] = MergeBody(f, l)
<1> DEFINE F == CHOOSE g : g = [list \in List |-> MergeBody(g, list)]
           m == [l \in List |-> Len(l)]
           G == [p \in [List -> List] \X List |-> MergeBody(p[1], p[2])]
<1>1. ASSUME NEW l \in List PROVE merge_neighbor_entries(l) = F[l]
  BY DEF merge_neighbor_entries, MergeBody, Joined
<1>2. ASSUME NEW g \in [List -> List], NEW l \in List PROVE MergeBody(g, l) \in List
  BY JoinedFact, Compose DEF MergeBody
<1>3. Recursive(List, List, m, G)
  <2>1. m \in [List -> Nat]
    BY DEF List
  <2>2. G \in [[List -> List] \X List -> List]
    BY <1>2
  <2>3. ASSUME NEW g \in [List -> List], NEW h \in [List -> List], NEW l \in List,
               \A k \in List : m[k] < m[l] => g[k] = h[k]
        PROVE  G[<<g, l>>] = G[<<h, l>>]
    <3>1. \A k \in List : Len(k) < Len(l) => g[k] = h[k]
      BY <2>3
    <3>2. MergeBody(g, l) = MergeBody(h, l)
      BY <3>1, JoinedFact DEF MergeBody
    <3> QED BY <3>2
  <2> HIDE DEF m, G
  <2> QED BY <2>1, <2>2, <2>3, EmptyList DEF Recursive
<1>4. PICK f \in [List -> List] : \A l \in List : f[l] = G[<<f, l>>]
  <2> HIDE DEF m, G
  <2> QED BY <1>3, Recursion
<1>5. f = [l \in List |-> MergeBody(f, l)]
  BY <1>4
<1>6. F = [l \in List |-> MergeBody(F, l)]
  BY <1>5
<1> HIDE DEF F
<1>7. List \subseteq {l \in List : F[l] \in List}
  <2> DEFINE T == {l \in List : F[l] \in List}
  <2>1. ASSUME NEW l \in List, \A k \in List : Len(k) < Len(l) => k \in T
        PROVE  l \in T
    <3>1. F[l] = MergeBody(F, l)
      BY <1>6
    <3>2. ~(Len(l) < 2) => F[Joined(l)] \in List /\ F[Tail(l)] \in List
      BY <2>1, JoinedFact
    <3>3. MergeBody(F, l) \in List
      BY <3>2, JoinedFact, Compose DEF MergeBody
    <3> QED BY <3>1, <3>3
  <2> HIDE DEF T
  <2>2. List \subseteq T
    BY <2>1, ListInduction
  <2> QED BY <2>2 DEF T
<1>8. F \in [List -> List]
  BY <1>6, <1>7
<1>9. \A l \in List : F[l] = MergeBody(F, l)
  BY <1>6
<1> QED BY <1>1, <1>8, <1>9

\* Merging keeps what the list gives, and leaves no entry that could go on.
LEMMA MergeSound ==
    ASSUME NEW l \in List, Sorted(l)
    PROVE  /\ merge_neighbor_entries(l) \in List /\ Sorted(merge_neighbor_entries(l))
           /\ Ended(merge_neighbor_entries(l)) /\ Same(merge_neighbor_entries(l), l)
<1>1. PICK f \in [List -> List] :
        /\ \A k \in List : merge_neighbor_entries(k) = f[k]
        /\ \A k \in List : f[k] = MergeBody(f, k)
  BY MergeFact
<1> DEFINE Fine(k) == Sorted(f[k]) /\ Ended(f[k]) /\ Same(f[k], k)
           T == {k \in List : Sorted(k) => Fine(k)}
<1>2. ASSUME NEW k \in List, \A j \in List : Len(j) < Len(k) => j \in T, Sorted(k)
      PROVE  Fine(k)
  <2>1. CASE Len(k) < 2
    <3>1. f[k] = k
      BY <1>1, <2>1 DEF MergeBody
    <3>2. Ended(k)
      <4>1. ASSUME NEW i \in 1 .. Len(k), NEW j \in 1 .. Len(k)
            PROVE  ~In(k[j], k[i].end + 1, k[i].tag)
        <5>1. Len(k) \in Nat /\ k[i] \in Entry
          BY DEF List
        <5>2. i = 1 /\ j = 1
          BY <2>1, <5>1
        <5>3. k[i].end \in Int
          BY <5>1, EntryFact
        <5> QED BY <5>2, <5>3 DEF In
      <4> QED BY <4>1 DEF Ended, Gives
    <3> QED BY <1>2, <3>1, <3>2 DEF Same
  <2>2. CASE ~(Len(k) < 2)
    <3> DEFINE x == k[1]
               r == Tail(k)
               y == r[1]
               q == Tail(r)
               z == [x EXCEPT !.end = y.end]
    <3>1. /\ x \in Entry /\ r \in List /\ r # <<>> /\ y \in Entry /\ k[2] = y
          /\ z \in Entry /\ q \in List /\ Joined(k) = <<z>> \o q
          /\ Joined(k) \in List /\ Len(Joined(k)) < Len(k) /\ Len(r) < Len(k) /\ k # <<>>
      BY <2>2, JoinedFact
    <3>2. k = <<x>> \o r /\ r = <<y>> \o q
      BY <3>1, Decompose
    <3>3. /\ x.begin \in Int /\ x.end \in Int /\ x.tag \in Tags
          /\ y.begin \in Int /\ y.end \in Int /\ y.tag \in Tags
          /\ z.begin = x.begin /\ z.end = y.end /\ z.tag = x.tag
      BY <3>1, EntryFact DEF Entry
    <3>4. f[k] = IF Mergeable(x, y) THEN f[<<z>> \o q] ELSE <<x>> \o f[r]
      BY <1>1, <2>2, <3>1 DEF MergeBody
    <3> HIDE DEF x, r, y, q, z
    <3>5. /\ Good(x) /\ Sorted(r) /\ Apart(x, r) /\ Good(y) /\ Sorted(q) /\ Apart(y, q)
      BY <1>2, <3>1, <3>2, SortedDecompose
    <3>6. /\ \A a, t : Gives(k, a, t) <=> In(x, a, t) \/ Gives(r, a, t)
          /\ \A a, t : Gives(r, a, t) <=> In(y, a, t) \/ Gives(q, a, t)
          /\ \A a, t : Gives(<<z>> \o q, a, t) <=> In(z, a, t) \/ Gives(q, a, t)
      BY <3>1, <3>2, GivesCompose
    <3>7. x.end < y.begin /\ y.begin <= y.end
      <4>1. y.begin <= y.end
        BY <3>5 DEF Good
      <4>2. In(y, y.begin, y.tag)
        BY <3>3, <4>1 DEF In
      <4> QED BY <3>3, <3>5, <3>6, <4>1, <4>2 DEF Apart
    <3>8. CASE Mergeable(x, y)
      <4>1. y.begin = x.end + 1 /\ x.tag = y.tag
        BY <3>3, <3>7, <3>8 DEF Mergeable
      <4>2. \A a \in Int, t \in Tags : In(z, a, t) <=> In(x, a, t) \/ In(y, a, t)
        <5>1. x.begin <= x.end
          BY <3>5 DEF Good
        <5> QED BY <3>3, <3>7, <4>1, <5>1 DEF In
      <4>3. Same(<<z>> \o q, k)
        BY <3>6, <4>2 DEF Same
      <4>4. Good(z)
        BY <3>3, <3>5, <3>7 DEF Good
      <4>5. Apart(z, q)
        BY <3>3, <3>5 DEF Apart
      <4>6. Sorted(<<z>> \o q)
        BY <3>1, <3>5, <4>4, <4>5, SortedCompose
      <4>7. Fine(<<z>> \o q)
        BY <1>2, <3>1, <4>6
      <4>8. f[k] = f[<<z>> \o q]
        BY <3>4, <3>8
      <4> QED BY <4>3, <4>7, <4>8 DEF Same
    <3>9. CASE ~Mergeable(x, y)
      <4>1. Fine(r) /\ f[r] \in List /\ f[k] = <<x>> \o f[r]
        BY <1>2, <3>1, <3>4, <3>5, <3>9
      <4>2. \A a, t : Gives(<<x>> \o f[r], a, t) <=> In(x, a, t) \/ Gives(f[r], a, t)
        BY <3>1, <4>1, GivesCompose
      <4>3. Same(f[k], k)
        BY <3>6, <4>1, <4>2 DEF Same
      <4>4. Apart(x, f[r])
        BY <3>5, <4>1 DEF Apart, Same
      <4>5. Sorted(f[k])
        BY <3>1, <3>5, <4>1, <4>4, SortedCompose
      <4>6. ~Gives(f[r], x.end + 1, x.tag)
        <5> SUFFICES ASSUME Gives(r, x.end + 1, x.tag) PROVE FALSE
          BY <3>3, <4>1 DEF Same
        <5>1. ~Gives(q, x.end + 1, x.tag)
          BY <3>3, <3>5, <3>7 DEF Apart
        <5>2. In(y, x.end + 1, x.tag)
          BY <3>6, <5>1
        <5> QED BY <3>3, <3>9, <5>2 DEF In, Mergeable
      <4>7. Ended(f[k])
        BY <3>1, <4>1, <4>4, <4>6, EndedCompose
      <4> QED BY <4>3, <4>5, <4>7
    <3> QED BY <3>8, <3>9
  <2> QED BY <2>1, <2>2
<1>3. \A k \in List : (\A j \in List : Len(j) < Len(k) => j \in T) => k \in T
  BY <1>2
<1> HIDE DEF T
<1>4. List \subseteq T
  BY <1>3, ListInduction
<1>5. Fine(l)
  BY <1>4 DEF T
<1> QED BY <1>1, <1>5

-----------------------------------------------------------------------------
(* remove_memranges *)

Start(x, b) == IF b <= x.begin THEN x.begin ELSE b
Full(x, b, end) == Start(x, b) = x.begin /\ end >= x.end
RemoveStep(g, list, b, end) ==
    IF list = <<>> \/ end < list[1].begin THEN list
    ELSE IF b > list[1].end THEN <<list[1]>> \o g[Tail(list)][b]
    ELSE IF b > list[1].begin /\ end < list[1].end
    THEN Remains(list[1], b, end) \o Tail(list)
    ELSE Remains(list[1], Start(list[1], b), end)
            \o g[Tail(list)][IF Full(list[1], b, end) THEN list[1].end + 1
                             ELSE Start(list[1], b)]
RemoveBody(g, list, end) == [b \in Int |-> RemoveStep(g, list, b, end)]

LowPart(x, b) == [x EXCEPT !.end = b - 1]
HighPart(x, end) == [x EXCEPT !.begin = end + 1]

LEMMA PartFact ==
    ASSUME NEW x \in Entry, NEW b \in Int, NEW end \in Int
    PROVE  /\ LowPart(x, b) \in Entry /\ HighPart(x, end) \in Entry
           /\ LowPart(x, b).begin = x.begin /\ LowPart(x, b).end = b - 1
           /\ LowPart(x, b).tag = x.tag
           /\ HighPart(x, end).begin = end + 1 /\ HighPart(x, end).end = x.end
           /\ HighPart(x, end).tag = x.tag
BY DEF Entry, LowPart, HighPart

LEMMA ConcatFact ==
    ASSUME NEW x \in Entry, NEW y \in Entry, NEW r \in List
    PROVE  <<>> \o r = r /\ <<x, y>> \o r = <<x>> \o (<<y>> \o r)
<1>1. <<>> \o r = r
  BY DEF List
<1>2. <<x, y>> \o r = <<x>> \o (<<y>> \o r)
  <2>1. <<x>> \in Seq(Entry) /\ <<y>> \in Seq(Entry)
    OBVIOUS
  <2>3. <<x, y>> = <<x>> \o <<y>>
    <3> DEFINE u == <<x, y>>
               v == <<x>> \o <<y>>
    <3>1. u \in Seq(Entry) /\ Len(u) = 2 /\ u[1] = x /\ u[2] = y
      OBVIOUS
    <3>2. v \in Seq(Entry) /\ Len(v) = 2 /\ v[1] = x /\ v[2] = y
      OBVIOUS
    <3> HIDE DEF u, v
    <3>3. \A i \in 1 .. 2 : u[i] = v[i]
      BY <3>1, <3>2
    <3>4. u = v
      BY <3>1, <3>2, <3>3, SeqEqual
    <3> QED BY <3>4 DEF u, v
  <2>2. (<<x>> \o <<y>>) \o r = <<x>> \o (<<y>> \o r)
    BY <2>1, ConcatAssociative DEF List
  <2> QED BY <2>2, <2>3
<1> QED BY <1>1, <1>2

\* The ways a step can go, for an entry x in front of r.
StepCase(res, g, x, r, b, end) ==
    \/ end < x.begin /\ res = <<x>> \o r
    \/ x.begin <= end /\ x.end < b /\ res = <<x>> \o g[r][b]
    \/ /\ x.begin < b /\ b <= x.end /\ end < x.end /\ x.begin <= end
       /\ res = <<LowPart(x, b)>> \o (<<HighPart(x, end)>> \o r)
    \/ /\ b <= x.begin /\ b <= x.end /\ x.begin <= end /\ end < x.end
       /\ res = <<HighPart(x, end)>> \o g[r][x.begin]
    \/ /\ x.begin < b /\ b <= x.end /\ x.end <= end
       /\ res = <<LowPart(x, b)>> \o g[r][b]
    \/ /\ b <= x.begin /\ b <= x.end /\ x.begin <= end /\ x.end <= end
       /\ res = g[r][x.end + 1]

LEMMA StepCases ==
    ASSUME NEW x \in Entry, NEW r \in List, NEW b \in Int, NEW end \in Int, NEW g,
           \A c \in Int : g[r][c] \in List
    PROVE  StepCase(RemoveStep(g, <<x>> \o r, b, end), g, x, r, b, end)
<1> DEFINE l == <<x>> \o r
           res == RemoveStep(g, l, b, end)
<1>1. l # <<>> /\ l[1] = x /\ Tail(l) = r
  BY Compose
<1> HIDE DEF l
<1>2. x.begin \in Int /\ x.end \in Int
  BY EntryFact
<1>3. res = IF end < x.begin THEN l
            ELSE IF b > x.end THEN <<x>> \o g[r][b]
            ELSE IF b > x.begin /\ end < x.end THEN Remains(x, b, end) \o r
            ELSE Remains(x, Start(x, b), end)
                    \o g[r][IF Full(x, b, end) THEN x.end + 1 ELSE Start(x, b)]
  BY <1>1 DEF RemoveStep
<1> HIDE DEF res
<1> SUFFICES StepCase(res, g, x, r, b, end)
  BY DEF res, l
<1> DEFINE lo == LowPart(x, b)
           hi == HighPart(x, end)
<1>4. lo \in Entry /\ hi \in Entry
  BY PartFact
<1>5. CASE end < x.begin
  BY <1>3, <1>5 DEF StepCase, l
<1>6. CASE ~(end < x.begin) /\ b > x.end
  <2>1. res = <<x>> \o g[r][b]
    BY <1>3, <1>6
  <2> QED BY <1>2, <1>6, <2>1 DEF StepCase, l
<1>7. CASE ~(end < x.begin) /\ ~(b > x.end) /\ b > x.begin /\ end < x.end
  <2>1. res = Remains(x, b, end) \o r
    BY <1>3, <1>7
  <2>2. Remains(x, b, end) = <<lo, hi>>
    BY <1>2, <1>7 DEF Remains, LowPart, HighPart
  <2>3. res = <<lo>> \o (<<hi>> \o r)
    <3> HIDE DEF lo, hi
    <3> QED BY <1>4, <2>1, <2>2, ConcatFact
  <2> QED BY <1>2, <1>7, <2>3 DEF StepCase, l
<1>8. CASE ~(end < x.begin) /\ ~(b > x.end) /\ ~(b > x.begin) /\ end < x.end
  <2>1. Start(x, b) = x.begin /\ ~Full(x, b, end)
    BY <1>2, <1>8 DEF Start, Full
  <2>2. res = Remains(x, x.begin, end) \o g[r][x.begin]
    BY <1>3, <1>8, <2>1
  <2>3. Remains(x, x.begin, end) = <<hi>>
    BY <1>2, <1>8 DEF Remains, LowPart, HighPart
  <2> QED BY <1>2, <1>8, <2>2, <2>3 DEF StepCase, l
<1>9. CASE ~(end < x.begin) /\ ~(b > x.end) /\ b > x.begin /\ ~(end < x.end)
  <2>1. Start(x, b) = b /\ ~Full(x, b, end)
    BY <1>2, <1>9 DEF Start, Full
  <2>2. res = Remains(x, b, end) \o g[r][b]
    BY <1>3, <1>9, <2>1
  <2>3. Remains(x, b, end) = <<lo>>
    BY <1>2, <1>9 DEF Remains, LowPart, HighPart
  <2> QED BY <1>2, <1>9, <2>2, <2>3 DEF StepCase, l
<1>10. CASE ~(end < x.begin) /\ ~(b > x.end) /\ ~(b > x.begin) /\ ~(end < x.end)
  <2>1. Start(x, b) = x.begin /\ Full(x, b, end)
    BY <1>2, <1>10 DEF Start, Full
  <2>2. res = Remains(x, x.begin, end) \o g[r][x.end + 1]
    BY <1>3, <1>10, <2>1
  <2>3. Remains(x, x.begin, end) = <<>>
    BY <1>2, <1>10 DEF Remains, LowPart, HighPart
  <2>4. g[r][x.end + 1] \in List
    BY <1>2
  <2>5. res = g[r][x.end + 1]
    BY <1>4, <2>2, <2>3, <2>4, ConcatFact
  <2> QED BY <1>2, <1>10, <2>5 DEF StepCase, l
<1> QED BY <1>5, <1>6, <1>7, <1>8, <1>9, <1>10

LEMMA StepType ==
    ASSUME NEW l \in List, NEW b \in Int, NEW end \in Int, NEW g,
           l # <<>> => \A c \in Int : g[Tail(l)][c] \in List
    PROVE  RemoveStep(g, l, b, end) \in List
<1>1. CASE l = <<>>
  BY <1>1 DEF RemoveStep
<1>2. CASE l # <<>>
  <2> DEFINE x == l[1]
             r == Tail(l)
             lo == LowPart(x, b)
             hi == HighPart(x, end)
  <2>1. x \in Entry /\ r \in List /\ l = <<x>> \o r /\ \A c \in Int : g[r][c] \in List
    BY <1>2, Decompose
  <2> HIDE DEF x, r
  <2>2. x.begin \in Int /\ x.end + 1 \in Int
    BY <2>1, EntryFact
  <2>3. lo \in Entry /\ hi \in Entry
    BY <2>1, PartFact
  <2> DEFINE res == RemoveStep(g, <<x>> \o r, b, end)
  <2>4. \/ res = <<x>> \o r \/ res = <<x>> \o g[r][b] \/ res = <<lo>> \o (<<hi>> \o r)
        \/ res = <<hi>> \o g[r][x.begin] \/ res = <<lo>> \o g[r][b] \/ res = g[r][x.end + 1]
    <3>1. StepCase(res, g, x, r, b, end)
      BY <2>1, StepCases
    <3> HIDE DEF res
    <3> QED BY <3>1 DEF StepCase
  <2> HIDE DEF lo, hi, res
  <2>5. res \in List
    <3>1. \A y \in Entry, k \in List : <<y>> \o k \in List
      BY Compose
    <3> QED BY <2>1, <2>2, <2>3, <2>4, <3>1
  <2> QED BY <2>1, <2>5 DEF res
<1> QED BY <1>1, <1>2

\* f is the loop of remove_memranges.
Removing(f, end) ==
    \A l \in List, b \in Int :
        /\ f[l][b] \in List /\ f[l][b] = RemoveStep(f, l, b, end)
        /\ remove_memranges(l, b, end) = f[l][b]

LEMMA RemoveFact ==
    ASSUME NEW end \in Int
    PROVE  \E f : Removing(f, end)
<1> DEFINE V == [Int -> List]
           F == CHOOSE g : g = [list \in List |-> RemoveBody(g, list, end)]
           m == [l \in List |-> Len(l)]
           G == [p \in [List -> V] \X List |-> RemoveBody(p[1], p[2], end)]
<1>1. ASSUME NEW l \in List, NEW b \in Int PROVE remove_memranges(l, b, end) = F[l][b]
  BY DEF remove_memranges, RemoveBody, RemoveStep, Start, Full
<1>2. ASSUME NEW g \in [List -> V], NEW l \in List PROVE RemoveBody(g, l, end) \in V
  <2>1. ASSUME NEW b \in Int PROVE RemoveStep(g, l, b, end) \in List
    <3>1. l # <<>> => Tail(l) \in List
      BY Decompose
    <3>2. l # <<>> => \A c \in Int : g[Tail(l)][c] \in List
      BY <3>1
    <3> QED BY <3>2, StepType
  <2> QED BY <2>1 DEF RemoveBody
<1>3. Recursive(List, V, m, G)
  <2>1. m \in [List -> Nat]
    BY DEF List
  <2>2. G \in [[List -> V] \X List -> V]
    <3> HIDE DEF V
    <3> QED BY <1>2
  <2>3. ASSUME NEW g \in [List -> V], NEW h \in [List -> V], NEW l \in List,
               \A k \in List : m[k] < m[l] => g[k] = h[k]
        PROVE  G[<<g, l>>] = G[<<h, l>>]
    <3>1. \A k \in List : Len(k) < Len(l) => g[k] = h[k]
      BY <2>3
    <3>2. l # <<>> => g[Tail(l)] = h[Tail(l)]
      BY <3>1, Decompose
    <3>3. ASSUME NEW b \in Int PROVE RemoveStep(g, l, b, end) = RemoveStep(h, l, b, end)
      BY <3>2 DEF RemoveStep
    <3>4. RemoveBody(g, l, end) = RemoveBody(h, l, end)
      BY <3>3 DEF RemoveBody
    <3> QED BY <3>4
  <2>4. V # {}
    <3>1. [b \in Int |-> <<>>] \in V
      BY EmptyList
    <3> QED BY <3>1
  <2> HIDE DEF m, G, V
  <2> QED BY <2>1, <2>2, <2>3, <2>4 DEF Recursive
<1>4. PICK f \in [List -> V] : \A l \in List : f[l] = G[<<f, l>>]
  <2> HIDE DEF m, G, V
  <2> QED BY <1>3, Recursion
<1>5. f = [l \in List |-> RemoveBody(f, l, end)]
  <2> HIDE DEF V
  <2> QED BY <1>4
<1>6. F = [l \in List |-> RemoveBody(F, l, end)]
  BY <1>5
<1> HIDE DEF F
<1>7. List \subseteq {l \in List : F[l] \in V}
  <2> DEFINE T == {l \in List : F[l] \in V}
  <2>1. ASSUME NEW l \in List, \A k \in List : Len(k) < Len(l) => k \in T
        PROVE  l \in T
    <3>1. F[l] = RemoveBody(F, l, end)
      BY <1>6
    <3>2. l # <<>> => Tail(l) \in T
      BY <2>1, Decompose
    <3>3. l # <<>> => \A c \in Int : F[Tail(l)][c] \in List
      BY <3>2
    <3>4. \A b \in Int : RemoveStep(F, l, b, end) \in List
      BY <3>3, StepType
    <3> QED BY <3>1, <3>4 DEF RemoveBody
  <2> HIDE DEF T
  <2>2. List \subseteq T
    BY <2>1, ListInduction
  <2> QED BY <2>2 DEF T
<1>8. F \in [List -> V]
  <2>1. \A l \in List : F[l] \in V
    BY <1>7
  <2> HIDE DEF V
  <2> QED BY <1>6, <2>1
<1>9. \A l \in List, b \in Int : F[l][b] = RemoveStep(F, l, b, end)
  <2>1. ASSUME NEW l \in List, NEW b \in Int PROVE F[l][b] = RemoveStep(F, l, b, end)
    <3>1. F[l] = RemoveBody(F, l, end)
      BY <1>6
    <3> QED BY <3>1 DEF RemoveBody
  <2> QED BY <2>1
<1>10. \A l \in List, b \in Int : F[l][b] \in List
  BY <1>8
<1> QED BY <1>1, <1>9, <1>10 DEF Removing

\* res is what is left of l without the addresses b .. end.
Left(res, l, b, end) ==
    /\ Sorted(res) /\ (Ended(l) => Ended(res))
    /\ \A a \in Int, t \in Tags :
          Gives(res, a, t) <=> Gives(l, a, t) /\ ~(b <= a /\ a <= end)

\* The range is not empty, or behind it there is nothing that it could
\* come into the way of.
Ready(l, b, end) ==
    /\ b % PAGE = 0 /\ (end + 1) % PAGE = 0
    /\ b <= end \/ \A a \in Int, t \in Tags : Gives(l, a, t) => b <= a

LEMMA NothingLeft ==
    ASSUME NEW l \in List, NEW b \in Int, NEW end \in Int, Sorted(l),
           \A a \in Int, t \in Tags : Gives(l, a, t) => ~(b <= a /\ a <= end)
    PROVE  Left(l, l, b, end)
BY DEF Left

\* One entry x in front, of which p is left.
LEMMA LeftInFront ==
    ASSUME NEW x \in Entry, NEW r \in List, NEW p \in Entry, NEW k \in List,
           NEW b \in Int, NEW c \in Int, NEW end \in Int,
           Sorted(<<x>> \o r), Left(k, r, c, end), Good(p),
           p.end <= x.end, p.tag = x.tag,
           \A a \in Int, t \in Tags : In(p, a, t) <=> In(x, a, t) /\ ~(b <= a /\ a <= end),
           \A a \in Int : x.end < a => ((b <= a /\ a <= end) <=> (c <= a /\ a <= end)),
           p.end = x.end \/ (b <= p.end + 1 /\ p.end + 1 <= end)
    PROVE  Left(<<p>> \o k, <<x>> \o r, b, end)
<1> DEFINE l == <<x>> \o r
           res == <<p>> \o k
           Out(a) == ~(b <= a /\ a <= end)
<1>1. x.end \in Int /\ x.tag \in Tags /\ p.end \in Int
  BY EntryFact
<1>2. Sorted(r) /\ Apart(x, r) /\ Sorted(k)
  BY SortedDecompose DEF Left
<1>3. \A a, t : Gives(l, a, t) <=> In(x, a, t) \/ Gives(r, a, t)
  BY GivesCompose
<1>4. \A a, t : Gives(res, a, t) <=> In(p, a, t) \/ Gives(k, a, t)
  BY GivesCompose
<1>5. \A a \in Int, t \in Tags : Gives(r, a, t) => x.end < a
  BY <1>2 DEF Apart
<1>6. \A a \in Int, t \in Tags : Gives(k, a, t) <=> Gives(r, a, t) /\ Out(a)
  <2>1. \A a \in Int, t \in Tags : Gives(k, a, t) <=> Gives(r, a, t) /\ ~(c <= a /\ a <= end)
    BY DEF Left
  <2> QED BY <1>5, <2>1
<1>7. \A a \in Int, t \in Tags : Gives(res, a, t) <=> Gives(l, a, t) /\ Out(a)
  <2> HIDE DEF l, res
  <2> QED BY <1>3, <1>4, <1>6
<1>8. Apart(p, k)
  BY <1>1, <1>5, <1>6 DEF Apart
<1>9. Sorted(res)
  BY <1>2, <1>8, SortedCompose
<1>10. ASSUME Ended(l) PROVE Ended(res)
  <2>1. Ended(r) /\ ~Gives(r, x.end + 1, x.tag)
    BY <1>10, EndedDecompose
  <2>2. Ended(k)
    BY <2>1 DEF Left
  <2>3. p.end + 1 \in Int
    BY <1>1
  <2>4. ~Gives(k, p.end + 1, p.tag)
    BY <1>1, <1>6, <2>1, <2>3
  <2> QED BY <1>2, <1>8, <2>2, <2>4, EndedCompose
<1> QED BY <1>7, <1>9, <1>10 DEF Left

\* What memranges_create_hole leaves of a list.
LEMMA RemoveSound ==
    ASSUME NEW l \in List, NEW b \in Int, NEW end \in Int, Sorted(l), Ready(l, b, end)
    PROVE  /\ remove_memranges(l, b, end) \in List
           /\ Left(remove_memranges(l, b, end), l, b, end)
<1>1. PICK f : Removing(f, end)
  BY RemoveFact
<1> DEFINE T == {k \in List : Sorted(k) =>
                     \A c \in Int : Ready(k, c, end) => Left(f[k][c], k, c, end)}
<1>2. ASSUME NEW k \in List, \A j \in List : Len(j) < Len(k) => j \in T, Sorted(k),
             NEW c \in Int, Ready(k, c, end)
      PROVE  Left(f[k][c], k, c, end)
  <2>1. CASE k = <<>>
    <3>1. f[k][c] = k
      BY <1>1, <2>1 DEF RemoveStep, Removing
    <3>2. \A a \in Int, t \in Tags : ~Gives(k, a, t)
      BY <2>1, EmptyGives
    <3> QED BY <1>2, <3>1, <3>2, NothingLeft
  <2>2. CASE k # <<>>
    <3> DEFINE x == k[1]
               r == Tail(k)
               lo == LowPart(x, c)
               hi == HighPart(x, end)
               res == f[k][c]
    <3>1. x \in Entry /\ r \in List /\ k = <<x>> \o r /\ Len(r) < Len(k)
      BY <2>2, Decompose
    <3>2. r \in T
      BY <1>2, <3>1
    <3> HIDE DEF x, r
    <3>3. \A d \in Int : f[r][d] \in List
      BY <1>1, <3>1 DEF Removing
    <3>4. StepCase(res, f, x, r, c, end)
      <4>1. res = RemoveStep(f, <<x>> \o r, c, end)
        BY <1>1, <3>1 DEF Removing
      <4> HIDE DEF res
      <4> QED BY <3>1, <3>3, <4>1, StepCases
    <3>5. x.begin \in Int /\ x.end \in Int /\ x.tag \in Tags
      BY <3>1, EntryFact
    <3>6. Good(x) /\ Sorted(r) /\ Apart(x, r) /\ Sorted(<<x>> \o r)
      BY <1>2, <3>1, SortedDecompose
    <3>7. x.begin <= x.end
      BY <3>6 DEF Good
    <3>20. x.begin % PAGE = 0 /\ (x.end + 1) % PAGE = 0
      BY <3>6 DEF Good
    <3>8. \A a \in Int, t \in Tags : Gives(k, a, t) <=> In(x, a, t) \/ Gives(r, a, t)
      BY <3>1, GivesCompose
    <3>9. \A a \in Int, t \in Tags : Gives(r, a, t) => x.end < a
      BY <3>6 DEF Apart
    <3>10. c % PAGE = 0 /\ (end + 1) % PAGE = 0
      BY <1>2 DEF Ready
    <3>11. c <= end \/ c <= x.begin
      <4>1. In(x, x.begin, x.tag)
        BY <3>5, <3>7 DEF In
      <4>2. Gives(k, x.begin, x.tag)
        BY <3>5, <3>8, <4>1
      <4> QED BY <1>2, <3>5, <4>2 DEF Ready
    <3>12. \A d \in Int : Ready(r, d, end) => Left(f[r][d], r, d, end)
      BY <3>2, <3>6
    <3>13. /\ lo \in Entry /\ lo.begin = x.begin /\ lo.end = c - 1 /\ lo.tag = x.tag
           /\ hi \in Entry /\ hi.begin = end + 1 /\ hi.end = x.end /\ hi.tag = x.tag
      BY <3>1, PartFact
    <3> SUFFICES Left(res, k, c, end)
      OBVIOUS
    <3> HIDE DEF T, lo, hi, res
    <3>14. CASE end < x.begin /\ res = <<x>> \o r
      <4>0. end < x.begin
        BY <3>14
      <4>1. \A a \in Int, t \in Tags : Gives(k, a, t) => ~(c <= a /\ a <= end)
        <5>1. \A a \in Int, t \in Tags : In(x, a, t) => end < a
          BY <3>5, <4>0 DEF In
        <5>2. \A a \in Int, t \in Tags : Gives(r, a, t) => end < a
          BY <3>5, <3>7, <3>9, <4>0
        <5>3. \A a \in Int, t \in Tags : Gives(k, a, t) => end < a
          BY <3>8, <5>1, <5>2
        <5> QED BY <5>3
      <4> QED BY <1>2, <3>1, <3>14, <4>1, NothingLeft
    <3>15. CASE x.begin <= end /\ x.end < c /\ res = <<x>> \o f[r][c]
      <4>0. x.begin <= end /\ x.end < c
        BY <3>15
      <4>1. Ready(r, c, end)
        BY <3>5, <3>7, <3>10, <3>11, <4>0 DEF Ready
      <4>2. Left(f[r][c], r, c, end)
        BY <3>12, <4>1
      <4>3. \A a \in Int, t \in Tags : In(x, a, t) <=> In(x, a, t) /\ ~(c <= a /\ a <= end)
        BY <3>5, <4>0 DEF In
      <4>4. Left(<<x>> \o f[r][c], <<x>> \o r, c, end)
        BY <3>1, <3>3, <3>5, <3>6, <4>2, <4>3, LeftInFront
      <4> QED BY <3>1, <3>15, <4>4
    <3>16. CASE /\ x.begin < c /\ c <= x.end /\ end < x.end /\ x.begin <= end
                /\ res = <<lo>> \o (<<hi>> \o r)
      <4>0. x.begin < c /\ c <= x.end /\ end < x.end /\ x.begin <= end
        BY <3>16
      <4>1. c <= end
        BY <3>5, <3>11, <4>0
      <4>2. Good(hi)
        BY <3>5, <3>20, <3>10, <3>13, <4>0 DEF Good
      <4>3. Apart(hi, r)
        BY <3>6, <3>13 DEF Apart
      <4> DEFINE j == <<hi>> \o r
      <4>4. Sorted(j) /\ j \in List
        BY <3>1, <3>6, <3>13, <4>2, <4>3, SortedCompose, Compose
      <4>5. \A a \in Int, t \in Tags : Gives(j, a, t) <=> In(hi, a, t) \/ Gives(r, a, t)
        BY <3>1, <3>13, GivesCompose
      <4>6. Good(lo)
        <5>1. (c - 1) + 1 = c /\ x.begin <= c - 1
          BY <3>5, <4>0
        <5> QED BY <3>20, <3>10, <3>13, <5>1 DEF Good
      <4>7. Apart(lo, j)
        <5>1. \A a \in Int, t \in Tags : In(hi, a, t) => lo.end < a
          BY <3>13, <4>1 DEF In
        <5>2. \A a \in Int, t \in Tags : Gives(r, a, t) => lo.end < a
          BY <3>5, <3>9, <3>13, <4>0
        <5> HIDE DEF j
        <5> QED BY <4>5, <5>1, <5>2 DEF Apart
      <4>8. Sorted(<<lo>> \o j)
        <5> HIDE DEF j
        <5> QED BY <3>13, <4>4, <4>6, <4>7, SortedCompose
      <4>9. \A a \in Int, t \in Tags :
                Gives(<<lo>> \o j, a, t) <=> In(lo, a, t) \/ Gives(j, a, t)
        <5> HIDE DEF j
        <5> QED BY <3>13, <4>4, GivesCompose
      <4>10. \A a \in Int, t \in Tags :
                In(lo, a, t) \/ In(hi, a, t) <=> In(x, a, t) /\ ~(c <= a /\ a <= end)
        BY <3>5, <3>13, <4>0, <4>1 DEF In
      <4>11. \A a \in Int, t \in Tags : Gives(r, a, t) => ~(c <= a /\ a <= end)
        BY <3>5, <3>9, <4>0
      <4>12. \A a \in Int, t \in Tags :
                Gives(<<lo>> \o j, a, t) <=> Gives(k, a, t) /\ ~(c <= a /\ a <= end)
        <5> HIDE DEF j
        <5> QED BY <3>8, <4>5, <4>9, <4>10, <4>11
      <4>13. ASSUME Ended(k) PROVE Ended(<<lo>> \o j)
        <5>1. Ended(r) /\ ~Gives(r, x.end + 1, x.tag)
          BY <3>1, <4>13, EndedDecompose
        <5>2. Ended(j)
          BY <3>1, <3>6, <3>13, <4>3, <5>1, EndedCompose
        <5>3. lo.end + 1 = c /\ c \in Int /\ lo.tag \in Tags
          BY <3>5, <3>13
        <5>4. ~In(hi, c, lo.tag)
          BY <3>13, <4>1 DEF In
        <5>5. ~Gives(j, lo.end + 1, lo.tag)
          <6> HIDE DEF j
          <6> QED BY <4>1, <4>5, <4>11, <5>3, <5>4
        <5> HIDE DEF j
        <5> QED BY <3>13, <4>4, <4>7, <5>2, <5>5, EndedCompose
      <4> QED BY <3>16, <4>8, <4>12, <4>13 DEF Left
    <3>17. CASE /\ c <= x.begin /\ c <= x.end /\ x.begin <= end /\ end < x.end
                /\ res = <<hi>> \o f[r][x.begin]
      <4>0. c <= x.begin /\ c <= x.end /\ x.begin <= end /\ end < x.end
        BY <3>17
      <4>1. Ready(r, x.begin, end)
        BY <3>20, <3>10, <4>0 DEF Ready
      <4>2. Left(f[r][x.begin], r, x.begin, end) /\ f[r][x.begin] \in List
        BY <3>3, <3>5, <3>12, <4>1
      <4>3. \A a \in Int, t \in Tags : In(hi, a, t) <=> In(x, a, t) /\ ~(c <= a /\ a <= end)
        BY <3>5, <3>13, <4>0 DEF In
      <4>4. Good(hi)
        BY <3>5, <3>20, <3>10, <3>13, <4>0 DEF Good
      <4>5. \A a \in Int : x.end < a =>
                ((c <= a /\ a <= end) <=> (x.begin <= a /\ a <= end))
        BY <3>5, <4>0
      <4>6. Left(<<hi>> \o f[r][x.begin], <<x>> \o r, c, end)
        <5>1. hi.end <= x.end
          BY <3>5, <3>13
        <5> QED BY <3>1, <3>5, <3>6, <3>13, <4>2, <4>3, <4>4, <4>5, <5>1, LeftInFront
      <4> QED BY <3>1, <3>17, <4>6
    <3>18. CASE /\ x.begin < c /\ c <= x.end /\ x.end <= end
                /\ res = <<lo>> \o f[r][c]
      <4>0. x.begin < c /\ c <= x.end /\ x.end <= end
        BY <3>18
      <4>1. Ready(r, c, end)
        BY <3>5, <3>10, <3>11, <4>0 DEF Ready
      <4>2. Left(f[r][c], r, c, end) /\ f[r][c] \in List
        BY <3>3, <3>12, <4>1
      <4>3. \A a \in Int, t \in Tags : In(lo, a, t) <=> In(x, a, t) /\ ~(c <= a /\ a <= end)
        BY <3>5, <3>13, <4>0 DEF In
      <4>4. Good(lo)
        <5>1. (c - 1) + 1 = c /\ x.begin <= c - 1
          BY <3>5, <4>0
        <5> QED BY <3>20, <3>10, <3>13, <5>1 DEF Good
      <4>5. lo.end <= x.end /\ c <= lo.end + 1 /\ lo.end + 1 <= end
        BY <3>5, <3>13, <4>0
      <4>6. Left(<<lo>> \o f[r][c], <<x>> \o r, c, end)
        BY <3>1, <3>6, <3>13, <4>2, <4>3, <4>4, <4>5, LeftInFront
      <4> QED BY <3>1, <3>18, <4>6
    <3>19. CASE /\ c <= x.begin /\ c <= x.end /\ x.begin <= end /\ x.end <= end
                /\ res = f[r][x.end + 1]
      <4>0. c <= x.begin /\ c <= x.end /\ x.begin <= end /\ x.end <= end
        BY <3>19
      <4>1. Ready(r, x.end + 1, end)
        BY <3>5, <3>20, <3>9, <3>10 DEF Ready
      <4>2. x.end + 1 \in Int
        BY <3>5
      <4>3. Left(res, r, x.end + 1, end)
        BY <3>12, <3>19, <4>1, <4>2
      <4>4. \A a \in Int, t \in Tags : In(x, a, t) => c <= a /\ a <= end
        BY <3>5, <4>0 DEF In
      <4>5. \A a \in Int : x.end < a =>
                ((c <= a /\ a <= end) <=> (x.end + 1 <= a /\ a <= end))
        BY <3>5, <4>0
      <4>6. \A a \in Int, t \in Tags :
                Gives(res, a, t) <=> Gives(k, a, t) /\ ~(c <= a /\ a <= end)
        BY <3>8, <3>9, <4>3, <4>4, <4>5 DEF Left
      <4>7. ASSUME Ended(k) PROVE Ended(res)
        <5>1. Ended(r)
          BY <3>1, <4>7, EndedDecompose
        <5> QED BY <4>3, <5>1 DEF Left
      <4>8. Sorted(res)
        BY <4>3 DEF Left
      <4> QED BY <4>6, <4>7, <4>8 DEF Left
    <3> QED BY <3>4, <3>14, <3>15, <3>16, <3>17, <3>18, <3>19 DEF StepCase, lo, hi, res
  <2> QED BY <2>1, <2>2
<1>3. \A k \in List : (\A j \in List : Len(j) < Len(k) => j \in T) => k \in T
  BY <1>2
<1> HIDE DEF T
<1>4. List \subseteq T
  BY <1>3, ListInduction
<1>5. Left(f[l][b], l, b, end)
  BY <1>4 DEF T
<1> QED BY <1>1, <1>5 DEF Removing

-----------------------------------------------------------------------------
(* range_list_add and merge_add_memranges *)

PlaceBody(g, list, x) ==
    IF list = <<>> \/ x.end < list[1].begin THEN <<x>> \o list
    ELSE <<list[1]>> \o g[Tail(list)]

\* f is the loop that looks for the place of x.
Placing(f, x) ==
    \A l \in List : /\ f[l] \in List /\ f[l] = PlaceBody(f, l, x)
                    /\ Placed(l, x) = f[l]

LEMMA PlaceFact ==
    ASSUME NEW x \in Entry
    PROVE  \E f : Placing(f, x)
<1> DEFINE F == CHOOSE g : g = [list \in List |-> PlaceBody(g, list, x)]
           m == [l \in List |-> Len(l)]
           G == [p \in [List -> List] \X List |-> PlaceBody(p[1], p[2], x)]
<1>1. ASSUME NEW l \in List PROVE Placed(l, x) = F[l]
  BY DEF Placed, PlaceBody
<1>2. ASSUME NEW g \in [List -> List], NEW l \in List PROVE PlaceBody(g, l, x) \in List
  BY Decompose, Compose DEF PlaceBody
<1>3. Recursive(List, List, m, G)
  <2>1. m \in [List -> Nat]
    BY DEF List
  <2>2. G \in [[List -> List] \X List -> List]
    BY <1>2
  <2>3. ASSUME NEW g \in [List -> List], NEW h \in [List -> List], NEW l \in List,
               \A k \in List : m[k] < m[l] => g[k] = h[k]
        PROVE  G[<<g, l>>] = G[<<h, l>>]
    <3>1. \A k \in List : Len(k) < Len(l) => g[k] = h[k]
      BY <2>3
    <3>2. PlaceBody(g, l, x) = PlaceBody(h, l, x)
      BY <3>1, Decompose DEF PlaceBody
    <3> QED BY <3>2
  <2> HIDE DEF m, G
  <2> QED BY <2>1, <2>2, <2>3, EmptyList DEF Recursive
<1>4. PICK f \in [List -> List] : \A l \in List : f[l] = G[<<f, l>>]
  <2> HIDE DEF m, G
  <2> QED BY <1>3, Recursion
<1>5. f = [l \in List |-> PlaceBody(f, l, x)]
  BY <1>4
<1>6. F = [l \in List |-> PlaceBody(F, l, x)]
  BY <1>5
<1> HIDE DEF F
<1>7. List \subseteq {l \in List : F[l] \in List}
  <2> DEFINE T == {l \in List : F[l] \in List}
  <2>1. ASSUME NEW l \in List, \A k \in List : Len(k) < Len(l) => k \in T
        PROVE  l \in T
    <3>1. F[l] = PlaceBody(F, l, x)
      BY <1>6
    <3>2. l # <<>> => F[Tail(l)] \in List
      BY <2>1, Decompose
    <3>3. PlaceBody(F, l, x) \in List
      BY <3>2, Decompose, Compose DEF PlaceBody
    <3> QED BY <3>1, <3>3
  <2> HIDE DEF T
  <2>2. List \subseteq T
    BY <2>1, ListInduction
  <2> QED BY <2>2 DEF T
<1>8. \A l \in List : F[l] \in List
  BY <1>7
<1>9. \A l \in List : F[l] = PlaceBody(F, l, x)
  BY <1>6
<1> QED BY <1>1, <1>8, <1>9 DEF Placing

\* No address of x is given by l.
Free(l, x) ==
    \A a \in Int, t \in Tags : Gives(l, a, t) => ~(x.begin <= a /\ a <= x.end)

LEMMA PlaceSound ==
    ASSUME NEW l \in List, NEW x \in Entry, Sorted(l), Good(x), Free(l, x)
    PROVE  /\ Placed(l, x) \in List /\ Sorted(Placed(l, x))
           /\ \A a \in Int, t \in Tags : Gives(Placed(l, x), a, t) <=> In(x, a, t) \/ Gives(l, a, t)
<1>1. PICK f : Placing(f, x)
  BY PlaceFact
<1>0. x.begin \in Int /\ x.end \in Int /\ x.begin <= x.end
  BY EntryFact DEF Good
<1> DEFINE Fine(k) ==
             /\ Sorted(f[k])
             /\ \A a \in Int, t \in Tags : Gives(f[k], a, t) <=> In(x, a, t) \/ Gives(k, a, t)
           T == {k \in List : Sorted(k) /\ Free(k, x) => Fine(k)}
<1>2. ASSUME NEW k \in List, \A j \in List : Len(j) < Len(k) => j \in T, Sorted(k), Free(k, x)
      PROVE  Fine(k)
  <2>0. \A a \in Int, t \in Tags : Gives(<<x>> \o k, a, t) <=> In(x, a, t) \/ Gives(k, a, t)
    BY GivesCompose
  <2>1. CASE k = <<>>
    <3>1. f[k] = <<x>> \o k
      BY <1>1, <2>1 DEF PlaceBody, Placing
    <3>2. Apart(x, k)
      BY <2>1, EmptyGives DEF Apart
    <3>3. Sorted(<<x>> \o k)
      BY <1>2, <3>2, SortedCompose
    <3> QED BY <2>0, <3>1, <3>3
  <2>2. CASE k # <<>>
    <3> DEFINE y == k[1]
               r == Tail(k)
    <3>1. y \in Entry /\ r \in List /\ k = <<y>> \o r /\ Len(r) < Len(k)
      BY <2>2, Decompose
    <3>2. f[k] = IF x.end < y.begin THEN <<x>> \o k ELSE <<y>> \o f[r]
      BY <1>1, <2>2 DEF PlaceBody, Placing
    <3>3. r \in T
      BY <1>2, <3>1
    <3> HIDE DEF y, r
    <3>4. Good(y) /\ Sorted(r) /\ Apart(y, r)
      BY <1>2, <3>1, SortedDecompose
    <3>5. y.begin \in Int /\ y.end \in Int /\ y.begin <= y.end /\ y.tag \in Tags
      BY <3>1, <3>4, EntryFact DEF Good
    <3>6. \A a \in Int, t \in Tags : Gives(k, a, t) <=> In(y, a, t) \/ Gives(r, a, t)
      BY <3>1, GivesCompose
    <3>7. \A a \in Int, t \in Tags : Gives(r, a, t) => y.end < a
      BY <3>4 DEF Apart
    <3>8. CASE x.end < y.begin
      <4>1. \A a \in Int, t \in Tags : In(y, a, t) => x.end < a
        BY <1>0, <3>5, <3>8 DEF In
      <4>2. \A a \in Int, t \in Tags : Gives(r, a, t) => x.end < a
        BY <1>0, <3>5, <3>7, <3>8
      <4>3. Apart(x, k)
        BY <3>6, <4>1, <4>2 DEF Apart
      <4>4. Sorted(<<x>> \o k)
        BY <1>2, <4>3, SortedCompose
      <4>5. f[k] = <<x>> \o k
        BY <3>2, <3>8
      <4> QED BY <2>0, <4>4, <4>5
    <3>9. CASE ~(x.end < y.begin)
      <4>1. Free(r, x)
        BY <1>2, <3>6 DEF Free
      <4>2. Fine(r) /\ f[r] \in List
        BY <1>1, <3>1, <3>3, <3>4, <4>1 DEF Placing
      <4>3. y.end < x.begin
        <5>1. In(y, y.end, y.tag)
          BY <3>5 DEF In
        <5>2. ~(x.begin <= y.end /\ y.end <= x.end)
          BY <1>2, <3>5, <3>6, <5>1 DEF Free
        <5>3. ~(x.begin <= y.begin /\ y.begin <= x.end)
          <6>1. In(y, y.begin, y.tag)
            BY <3>5 DEF In
          <6> QED BY <1>2, <3>5, <3>6, <6>1 DEF Free
        <5>4. ~(y.begin <= x.begin /\ x.begin <= y.end)
          <6> SUFFICES ASSUME y.begin <= x.begin, x.begin <= y.end PROVE FALSE
            OBVIOUS
          <6>1. In(y, x.begin, y.tag)
            BY DEF In
          <6> QED BY <1>0, <1>2, <3>5, <3>6, <6>1 DEF Free
        <5> QED BY <1>0, <3>5, <3>9, <5>2, <5>3, <5>4
      <4>4. \A a \in Int, t \in Tags : In(x, a, t) => y.end < a
        BY <1>0, <3>5, <4>3 DEF In
      <4>5. Apart(y, f[r])
        BY <3>7, <4>2, <4>4 DEF Apart
      <4>6. Sorted(<<y>> \o f[r])
        BY <3>1, <3>4, <4>2, <4>5, SortedCompose
      <4>7. \A a \in Int, t \in Tags :
                Gives(<<y>> \o f[r], a, t) <=> In(y, a, t) \/ Gives(f[r], a, t)
        BY <3>1, <4>2, GivesCompose
      <4>8. f[k] = <<y>> \o f[r]
        BY <3>2, <3>9
      <4> QED BY <3>6, <4>2, <4>6, <4>7, <4>8
    <3> QED BY <3>8, <3>9
  <2> QED BY <2>1, <2>2
<1>3. \A k \in List : (\A j \in List : Len(j) < Len(k) => j \in T) => k \in T
  BY <1>2
<1> HIDE DEF T
<1>4. List \subseteq T
  BY <1>3, ListInduction
<1>5. Fine(l)
  BY <1>4 DEF T
<1> QED BY <1>1, <1>5 DEF Placing

\* What memranges_insert makes of a list, for a range of whole pages.
LEMMA InsertSound ==
    ASSUME NEW l \in List, NEW b \in Int, NEW end \in Int, NEW tag \in Tags,
           Sorted(l), b % PAGE = 0, (end + 1) % PAGE = 0, b <= end
    PROVE  /\ merge_add_memranges(l, b, end, tag) \in List
           /\ Sorted(merge_add_memranges(l, b, end, tag))
           /\ Ended(merge_add_memranges(l, b, end, tag))
           /\ \A a \in Int, t \in Tags :
                Gives(merge_add_memranges(l, b, end, tag), a, t)
                  <=> IF b <= a /\ a <= end THEN t = tag ELSE Gives(l, a, t)
<1> DEFINE k == remove_memranges(l, b, end)
           x == range_entry(b, end, tag)
           p == Placed(k, x)
           res == merge_add_memranges(l, b, end, tag)
<1>1. k \in List /\ Left(k, l, b, end)
  BY RemoveSound DEF Ready
<1>2. x \in Entry /\ x.begin = b /\ x.end = end /\ x.tag = tag
  BY DEF range_entry, Entry
<1>3. res = merge_neighbor_entries(p)
  BY DEF merge_add_memranges
<1> HIDE DEF k, x, res
<1>4. Sorted(k)
  BY <1>1 DEF Left
<1>5. Good(x)
  BY <1>2 DEF Good
<1>6. Free(k, x)
  BY <1>1, <1>2 DEF Free, Left
<1>7. /\ p \in List /\ Sorted(p)
      /\ \A a \in Int, t \in Tags : Gives(p, a, t) <=> In(x, a, t) \/ Gives(k, a, t)
  BY <1>1, <1>2, <1>4, <1>5, <1>6, PlaceSound
<1> HIDE DEF p
<1>8. res \in List /\ Sorted(res) /\ Ended(res) /\ Same(res, p)
  BY <1>3, <1>7, MergeSound
<1>9. ASSUME NEW a \in Int, NEW t \in Tags
      PROVE  Gives(res, a, t) <=> IF b <= a /\ a <= end THEN t = tag ELSE Gives(l, a, t)
  <2>1. Gives(res, a, t) <=> In(x, a, t) \/ Gives(k, a, t)
    BY <1>7, <1>8 DEF Same
  <2>2. Gives(k, a, t) <=> Gives(l, a, t) /\ ~(b <= a /\ a <= end)
    BY <1>1 DEF Left
  <2>3. In(x, a, t) <=> b <= a /\ a <= end /\ t = tag
    BY <1>2 DEF In
  <2> QED BY <2>1, <2>2, <2>3
<1> QED BY <1>8, <1>9 DEF res

-----------------------------------------------------------------------------
(* memranges_update_tag *)

Retagged(l, old, new) ==
    [i \in DOMAIN l |-> IF l[i].tag = old THEN [l[i] EXCEPT !.tag = new] ELSE l[i]]

LEMMA UpdateSound ==
    ASSUME NEW l \in List, NEW old \in Tags, NEW new \in Tags, Sorted(l)
    PROVE  /\ memranges_update_tag(l, old, new) \in List
           /\ Sorted(memranges_update_tag(l, old, new))
           /\ Ended(memranges_update_tag(l, old, new))
           /\ \A a \in Int, t \in Tags :
                Gives(memranges_update_tag(l, old, new), a, t)
                  <=> \/ t = new /\ Gives(l, a, old)
                      \/ t # old /\ Gives(l, a, t)
<1> DEFINE k == Retagged(l, old, new)
           res == memranges_update_tag(l, old, new)
           n == Len(l)
<1>1. n \in Nat /\ DOMAIN l = 1 .. n /\ \A i \in 1 .. n : l[i] \in Entry
  BY DEF List
<1>2. \A i \in 1 .. n : k[i] = IF l[i].tag = old THEN [l[i] EXCEPT !.tag = new] ELSE l[i]
  BY <1>1 DEF Retagged
<1>3. ASSUME NEW i \in 1 .. n
      PROVE  /\ k[i] \in Entry /\ k[i].begin = l[i].begin /\ k[i].end = l[i].end
             /\ k[i].tag = IF l[i].tag = old THEN new ELSE l[i].tag
  BY <1>1, <1>2 DEF Entry
<1>4. k \in List /\ Len(k) = n
  <2>1. k \in [1 .. n -> Entry]
    BY <1>1, <1>3 DEF Retagged
  <2> HIDE DEF k
  <2> QED BY <1>1, <2>1 DEF List
<1>5. res = merge_neighbor_entries(k)
  BY DEF memranges_update_tag, Retagged
<1> HIDE DEF k, res
<1>6. Sorted(k)
  BY <1>3, <1>4 DEF Sorted, Good
<1>7. ASSUME NEW a \in Int, NEW t \in Tags
      PROVE  Gives(k, a, t) <=> (t = new /\ Gives(l, a, old)) \/ (t # old /\ Gives(l, a, t))
  <2>1. ASSUME NEW i \in 1 .. n
        PROVE  In(k[i], a, t) <=> (t = new /\ In(l[i], a, old)) \/ (t # old /\ In(l[i], a, t))
    BY <1>3 DEF In
  <2> QED BY <1>4, <2>1 DEF Gives
<1>8. res \in List /\ Sorted(res) /\ Ended(res) /\ Same(res, k)
  BY <1>4, <1>5, <1>6, MergeSound
<1>9. \A a \in Int, t \in Tags :
        Gives(res, a, t) <=> (t = new /\ Gives(l, a, old)) \/ (t # old /\ Gives(l, a, t))
  BY <1>7, <1>8 DEF Same
<1> QED BY <1>8, <1>9 DEF res

-----------------------------------------------------------------------------
(* memranges_fill_holes_up_to *)

FillEnd(cur, limit) == IF cur.begin - 1 >= limit THEN limit - 1 ELSE cur.begin - 1
FillHole(prev, cur, limit, tag) ==
    IF range_entry_end(prev) = cur.begin THEN <<>>
    ELSE <<range_entry(range_entry_end(prev), FillEnd(cur, limit), tag)>>
FillBody(g, list, limit, tag) ==
    IF Len(list) = 1 THEN list \o Behind(list[1], limit, tag)
    ELSE <<list[1]>> \o FillHole(list[1], list[2], limit, tag) \o
            (IF list[2].begin >= limit
             THEN <<list[2]>> \o Behind(list[2], limit, tag) \o SubSeq(list, 3, Len(list))
             ELSE g[Tail(list)])
NonEmpty == List \ {<<>>}

LEMMA FillTypes ==
    ASSUME NEW x \in Entry, NEW y \in Entry, NEW limit \in Int, NEW tag \in Tags
    PROVE  Behind(x, limit, tag) \in List /\ FillHole(x, y, limit, tag) \in List
<1>1. \A b, e \in Int : range_entry(b, e, tag) \in Entry
  BY DEF range_entry, Entry
<1>2. \A z \in Entry : <<z>> \in List
  BY DEF List
<1>3. range_entry_end(x) \in Int /\ FillEnd(y, limit) \in Int /\ limit - 1 \in Int
  BY EntryFact DEF range_entry_end, FillEnd
<1>4. Behind(x, limit, tag) \in List
  BY <1>1, <1>2, <1>3, EmptyList DEF Behind
<1>5. FillHole(x, y, limit, tag) \in List
  BY <1>1, <1>2, <1>3, EmptyList DEF FillHole
<1> QED BY <1>4, <1>5

LEMMA ConcatList ==
    ASSUME NEW k \in List, NEW r \in List
    PROVE  k \o r \in List
BY DEF List

LEMMA TwoFact ==
    ASSUME NEW l \in NonEmpty, Len(l) # 1
    PROVE  /\ Tail(l) \in NonEmpty /\ Len(Tail(l)) < Len(l) /\ l[2] = Tail(l)[1]
           /\ l[1] \in Entry /\ l[2] \in Entry /\ SubSeq(l, 3, Len(l)) = Tail(Tail(l))
           /\ Tail(Tail(l)) \in List
<1>1. Len(l) \in Nat /\ ~(Len(l) < 2) /\ l \in List
  <2>1. l \in List /\ l # <<>>
    BY DEF NonEmpty
  <2>2. PICK n \in Nat : n = Len(l)
    BY <2>1 DEF List
  <2>3. n # 0 /\ n # 1
    BY <2>1, <2>2, EmptyList
  <2>4. ~(n < 2)
    BY <2>3
  <2> QED BY <2>1, <2>2, <2>4
<1>2. SubSeq(l, 3, Len(l)) = Tail(Tail(l))
  BY <1>1 DEF List
<1> QED BY <1>1, <1>2, JoinedFact DEF NonEmpty

LEMMA FillBodyType ==
    ASSUME NEW l \in NonEmpty, NEW limit \in Int, NEW tag \in Tags, NEW g,
           Len(l) # 1 => g[Tail(l)] \in List
    PROVE  FillBody(g, l, limit, tag) \in List
<1>1. l \in List /\ l[1] \in Entry
  BY Decompose DEF NonEmpty
<1>2. CASE Len(l) = 1
  <2>1. Behind(l[1], limit, tag) \in List
    BY <1>1, FillTypes
  <2> QED BY <1>1, <1>2, <2>1, ConcatList DEF FillBody
<1>3. CASE Len(l) # 1
  <2> DEFINE x == l[1]
             y == l[2]
             h == FillHole(x, y, limit, tag)
             q == SubSeq(l, 3, Len(l))
             rest == IF y.begin >= limit THEN <<y>> \o Behind(y, limit, tag) \o q
                     ELSE g[Tail(l)]
  <2>1. x \in Entry /\ y \in Entry /\ q \in List
    BY <1>3, TwoFact
  <2>2. Behind(y, limit, tag) \in List /\ h \in List
    BY <2>1, FillTypes
  <2>3. FillBody(g, l, limit, tag) = <<x>> \o h \o rest
    BY <1>3 DEF FillBody
  <2> HIDE DEF x, y, q, h
  <2>4. <<x>> \in List /\ <<y>> \in List
    BY <2>1 DEF List
  <2>5. rest \in List
    <3>1. <<y>> \o Behind(y, limit, tag) \o q \in List
      BY <2>1, <2>2, <2>4, ConcatList
    <3> QED BY <1>3, <3>1
  <2> HIDE DEF rest
  <2> QED BY <2>2, <2>3, <2>4, <2>5, ConcatList
<1> QED BY <1>2, <1>3

\* f is the loop of memranges_fill_holes_up_to.
Filling(f, limit, tag) ==
    \A l \in NonEmpty :
        /\ f[l] \in List /\ f[l] = FillBody(f, l, limit, tag)
        /\ memranges_fill_holes_up_to(l, limit, tag) = merge_neighbor_entries(f[l])

LEMMA FillFact ==
    ASSUME NEW limit \in Int, NEW tag \in Tags
    PROVE  \E f : Filling(f, limit, tag)
<1> DEFINE F == CHOOSE g : g = [list \in NonEmpty |-> FillBody(g, list, limit, tag)]
           m == [l \in NonEmpty |-> Len(l)]
           G == [p \in [NonEmpty -> List] \X NonEmpty |-> FillBody(p[1], p[2], limit, tag)]
<1>1. ASSUME NEW l \in NonEmpty
      PROVE  memranges_fill_holes_up_to(l, limit, tag) = merge_neighbor_entries(F[l])
  BY DEF memranges_fill_holes_up_to, FillBody, FillHole, FillEnd, NonEmpty
<1>2. ASSUME NEW g \in [NonEmpty -> List], NEW l \in NonEmpty
      PROVE  FillBody(g, l, limit, tag) \in List
  BY TwoFact, FillBodyType
<1>3. Recursive(NonEmpty, List, m, G)
  <2>1. m \in [NonEmpty -> Nat]
    BY DEF List, NonEmpty
  <2>2. G \in [[NonEmpty -> List] \X NonEmpty -> List]
    BY <1>2
  <2>3. ASSUME NEW g \in [NonEmpty -> List], NEW h \in [NonEmpty -> List], NEW l \in NonEmpty,
               \A k \in NonEmpty : m[k] < m[l] => g[k] = h[k]
        PROVE  G[<<g, l>>] = G[<<h, l>>]
    <3>1. \A k \in NonEmpty : Len(k) < Len(l) => g[k] = h[k]
      BY <2>3
    <3>2. Len(l) # 1 => g[Tail(l)] = h[Tail(l)]
      BY <3>1, TwoFact
    <3>3. FillBody(g, l, limit, tag) = FillBody(h, l, limit, tag)
      BY <3>2 DEF FillBody
    <3> QED BY <3>3
  <2> HIDE DEF m, G
  <2> QED BY <2>1, <2>2, <2>3, EmptyList DEF Recursive
<1>4. PICK f \in [NonEmpty -> List] : \A l \in NonEmpty : f[l] = G[<<f, l>>]
  <2> HIDE DEF m, G
  <2> QED BY <1>3, Recursion
<1>5. f = [l \in NonEmpty |-> FillBody(f, l, limit, tag)]
  BY <1>4
<1>6. F = [l \in NonEmpty |-> FillBody(F, l, limit, tag)]
  BY <1>5
<1> HIDE DEF F
<1>7. ASSUME NEW l \in NonEmpty PROVE F[l] \in List
  <2> DEFINE T == {k \in List : k # <<>> => F[k] \in List}
  <2>1. ASSUME NEW k \in List, \A j \in List : Len(j) < Len(k) => j \in T
        PROVE  k \in T
    <3> SUFFICES ASSUME k # <<>> PROVE F[k] \in List
      OBVIOUS
    <3>0. k \in NonEmpty
      BY DEF NonEmpty
    <3>1. F[k] = FillBody(F, k, limit, tag)
      BY <1>6, <3>0
    <3>2. Len(k) # 1 => F[Tail(k)] \in List
      BY <2>1, <3>0, TwoFact DEF NonEmpty
    <3>3. FillBody(F, k, limit, tag) \in List
      BY <3>0, <3>2, FillBodyType
    <3> QED BY <3>1, <3>3
  <2> HIDE DEF T
  <2>2. List \subseteq T
    BY <2>1, ListInduction
  <2> QED BY <2>2 DEF T, NonEmpty
<1>8. \A l \in NonEmpty : F[l] = FillBody(F, l, limit, tag)
  BY <1>6
<1> QED BY <1>1, <1>7, <1>8 DEF Filling

\* The caller's side: no hole begins at the limit or just above it.
Neighbours(l, limit) ==
    \A i \in 1 .. Len(l) - 1 :
        l[i].begin < limit /\ l[i].end + 1 >= limit => l[i].end + 1 = l[i + 1].begin

LEMMA NeighboursDecompose ==
    ASSUME NEW x \in Entry, NEW r \in List, NEW limit, Neighbours(<<x>> \o r, limit)
    PROVE  /\ Neighbours(r, limit)
           /\ r # <<>> /\ x.begin < limit /\ x.end + 1 >= limit => x.end + 1 = r[1].begin
<1> DEFINE l == <<x>> \o r
           n == Len(r)
<1>1. Len(l) = n + 1 /\ l[1] = x /\ n \in Nat /\ \A i \in 1 .. n : l[i + 1] = r[i]
  BY Compose
<1>2. Neighbours(l, limit)
  OBVIOUS
<1> HIDE DEF l
<1>3. \A i \in 1 .. n :
        l[i].begin < limit /\ l[i].end + 1 >= limit => l[i].end + 1 = l[i + 1].begin
  <2>1. Len(l) - 1 = n
    BY <1>1
  <2> QED BY <1>2, <2>1 DEF Neighbours
<1>4. r # <<>> => 1 \in 1 .. n /\ l[1 + 1] = r[1]
  <2>1. r # <<>> => n # 0
    BY EmptyList
  <2> QED BY <1>1, <2>1
<1>5. r # <<>> /\ x.begin < limit /\ x.end + 1 >= limit => x.end + 1 = r[1].begin
  BY <1>1, <1>3, <1>4
<1>6. ASSUME NEW i \in 1 .. n - 1, r[i].begin < limit, r[i].end + 1 >= limit
      PROVE  r[i].end + 1 = r[i + 1].begin
  <2>1. i \in 1 .. n /\ i + 1 \in 1 .. n
    BY <1>1
  <2>2. r[i] = l[i + 1] /\ r[i + 1] = l[(i + 1) + 1]
    BY <1>1, <2>1
  <2> QED BY <1>3, <1>6, <2>1, <2>2
<1> QED BY <1>5, <1>6 DEF Neighbours

\* The ways a round of the loop can go, for an entry x in front of r.
FillCase(res, g, x, r, limit, tag) ==
    \/ /\ r = <<>> \/ limit <= r[1].begin
       /\ limit <= x.end + 1
       /\ res = <<x>> \o r
    \/ /\ r = <<>> \/ limit <= r[1].begin
       /\ x.end + 1 < limit
       /\ res = <<x>> \o (<<range_entry(x.end + 1, limit - 1, tag)>> \o r)
    \/ /\ r # <<>> /\ r[1].begin < limit /\ x.end + 1 = r[1].begin
       /\ res = <<x>> \o g[r]
    \/ /\ r # <<>> /\ r[1].begin < limit /\ x.end + 1 # r[1].begin
       /\ res = <<x>> \o (<<range_entry(x.end + 1, r[1].begin - 1, tag)>> \o g[r])

LEMMA ThreeParts ==
    ASSUME NEW x \in Entry, NEW y \in Entry, NEW k \in List
    PROVE  <<x>> \o <<>> \o k = <<x>> \o k /\ <<x>> \o <<y>> \o k = <<x>> \o (<<y>> \o k)
<1>1. <<x>> \in Seq(Entry) /\ <<y>> \in Seq(Entry) /\ k \in Seq(Entry)
  BY DEF List
<1>2. <<x>> \o <<>> = <<x>>
  BY <1>1, ConcatEmptySeq
<1>3. (<<x>> \o <<y>>) \o k = <<x>> \o (<<y>> \o k)
  BY <1>1, ConcatAssociative
<1> QED BY <1>2, <1>3

LEMMA FillCases ==
    ASSUME NEW x \in Entry, NEW r \in List, NEW limit \in Int, NEW tag \in Tags, NEW g,
           r # <<>> => g[r] \in List, Sorted(<<x>> \o r),
           Neighbours(<<x>> \o r, limit), x.begin < limit
    PROVE  FillCase(FillBody(g, <<x>> \o r, limit, tag), g, x, r, limit, tag)
<1> DEFINE l == <<x>> \o r
           res == FillBody(g, l, limit, tag)
<1>1. l \in NonEmpty /\ l[1] = x /\ Tail(l) = r /\ Len(l) = Len(r) + 1 /\ Len(r) \in Nat
  BY Compose DEF NonEmpty
<1>2. x.begin \in Int /\ x.end \in Int /\ range_entry_end(x) = x.end + 1
  BY EntryFact DEF range_entry_end
<1>3. \A b, e \in Int : range_entry(b, e, tag) \in Entry
  BY DEF range_entry, Entry
<1>4. CASE r = <<>>
  <2> DEFINE h == range_entry(x.end + 1, limit - 1, tag)
  <2>1. Len(l) = 1 /\ l = <<x>>
    <3>1. Len(r) = 0
      BY <1>4, EmptyList
    <3>2. <<x>> \o <<>> = <<x>>
      OBVIOUS
    <3> QED BY <1>1, <1>4, <3>1, <3>2
  <2>2. res = <<x>> \o Behind(x, limit, tag)
    BY <1>1, <2>1 DEF FillBody
  <2> HIDE DEF l, res
  <2>3. CASE x.end + 1 < limit
    <3>1. Behind(x, limit, tag) = <<h>>
      BY <1>2, <2>3 DEF Behind
    <3>2. h \in Entry
      BY <1>2, <1>3
    <3> HIDE DEF h
    <3>3. <<h>> \o <<>> = <<h>>
      OBVIOUS
    <3>4. res = <<x>> \o (<<h>> \o r)
      BY <1>4, <2>2, <3>1, <3>3
    <3> QED BY <1>4, <2>3, <3>4 DEF FillCase, h, res, l
  <2>4. CASE ~(x.end + 1 < limit)
    <3>1. Behind(x, limit, tag) = <<>>
      BY <1>2, <2>4 DEF Behind
    <3>2. res = <<x>> \o r
      BY <1>4, <2>2, <3>1
    <3>3. limit <= x.end + 1
      BY <1>2, <2>4
    <3> QED BY <1>4, <3>2, <3>3 DEF FillCase, res, l
  <2> QED BY <2>3, <2>4
<1>5. CASE r # <<>>
  <2> DEFINE y == r[1]
             q == Tail(r)
             hole == FillHole(x, y, limit, tag)
             h == range_entry(x.end + 1, FillEnd(y, limit), tag)
             rest == IF y.begin >= limit THEN <<y>> \o Behind(y, limit, tag) \o q ELSE g[r]
  <2>1. Len(l) # 1
    <3>1. Len(r) # 0
      BY <1>5, EmptyList
    <3> DEFINE u == Len(r)
               w == Len(l)
    <3>2. w = u + 1 /\ u \in Nat /\ u # 0
      BY <1>1, <3>1
    <3> HIDE DEF u, w
    <3>3. w # 1
      BY <3>2
    <3> QED BY <3>3 DEF w
  <2>2. l[2] = y /\ SubSeq(l, 3, Len(l)) = q
    BY <1>1, <2>1, TwoFact
  <2>3. res = <<x>> \o hole \o rest
    BY <1>1, <2>1, <2>2 DEF FillBody
  <2>4. y \in Entry /\ q \in List /\ r = <<y>> \o q
    BY <1>5, Decompose
  <2>5. /\ Sorted(r) /\ Apart(x, r)
        /\ x.begin < limit /\ x.end + 1 >= limit => x.end + 1 = y.begin
    BY <1>5, SortedDecompose, NeighboursDecompose
  <2>6. r \in List /\ g[r] \in List
    BY <1>5
  <2> HIDE DEF l, res, y, q
  <2>7. Good(y)
    BY <2>4, <2>5, SortedDecompose
  <2>8. y.begin \in Int /\ y.end \in Int /\ y.tag \in Tags /\ y.begin <= y.end
    BY <2>4, <2>7, EntryFact DEF Good
  <2>9. x.end < y.begin
    <3>1. In(y, y.begin, y.tag)
      BY <2>8 DEF In
    <3>2. Gives(r, y.begin, y.tag)
      BY <2>4, <3>1, GivesCompose
    <3> QED BY <2>5, <2>8, <3>2 DEF Apart
  <2>10. h \in Entry
    <3>1. FillEnd(y, limit) \in Int
      BY <2>8 DEF FillEnd
    <3> QED BY <1>2, <1>3, <3>1
  <2>11. limit <= y.begin => rest = r
    <3>1. ASSUME limit <= y.begin PROVE Behind(y, limit, tag) = <<>>
      BY <2>8, <3>1 DEF Behind, range_entry_end
    <3>2. <<y>> \o <<>> \o q = r
      BY <2>4, ThreeParts
    <3> QED BY <2>8, <3>1, <3>2
  <2>12. ~(limit <= y.begin) => rest = g[r]
    BY <2>8
  <2>13. hole = IF x.end + 1 = y.begin THEN <<>> ELSE <<h>>
    BY <1>2 DEF FillHole
  <2> HIDE DEF h, rest, hole
  <2>14. CASE limit <= y.begin /\ limit <= x.end + 1
    <3>1. x.end + 1 = y.begin
      BY <1>2, <2>5, <2>14
    <3>2. hole = <<>> /\ rest = r
      BY <2>11, <2>13, <2>14, <3>1
    <3>3. res = <<x>> \o r
      BY <2>3, <2>4, <2>6, <3>2, ThreeParts
    <3>4. FillCase(res, g, x, r, limit, tag)
      BY <2>14, <3>3 DEF FillCase, y
    <3> QED BY <3>4 DEF res, l
  <2>15. CASE limit <= y.begin /\ ~(limit <= x.end + 1)
    <3>1. x.end + 1 # y.begin /\ FillEnd(y, limit) = limit - 1 /\ x.end + 1 < limit
      BY <1>2, <2>8, <2>15 DEF FillEnd
    <3>2. hole = <<h>> /\ rest = r /\ h = range_entry(x.end + 1, limit - 1, tag)
      BY <2>11, <2>13, <2>15, <3>1 DEF h
    <3>3. res = <<x>> \o (<<h>> \o r)
      BY <2>3, <2>6, <2>10, <3>2, ThreeParts
    <3>4. FillCase(res, g, x, r, limit, tag)
      BY <2>15, <3>1, <3>2, <3>3 DEF FillCase, y
    <3> QED BY <3>4 DEF res, l
  <2>16. CASE ~(limit <= y.begin)
    <3>1. y.begin < limit /\ FillEnd(y, limit) = y.begin - 1
      BY <2>8, <2>16 DEF FillEnd
    <3>2. rest = g[r]
      BY <2>12, <2>16
    <3>3. CASE x.end + 1 = y.begin
      <4>1. res = <<x>> \o g[r]
        BY <2>3, <2>4, <2>6, <2>13, <3>2, <3>3, ThreeParts
      <4>2. FillCase(res, g, x, r, limit, tag)
        BY <1>5, <3>1, <3>3, <4>1 DEF FillCase, y
      <4> QED BY <4>2 DEF res, l
    <3>4. CASE x.end + 1 # y.begin
      <4>1. res = <<x>> \o (<<h>> \o g[r])
        BY <2>3, <2>6, <2>10, <2>13, <3>2, <3>4, ThreeParts
      <4>2. h = range_entry(x.end + 1, y.begin - 1, tag)
        BY <3>1 DEF h
      <4>3. FillCase(res, g, x, r, limit, tag)
        BY <1>5, <3>1, <3>4, <4>1, <4>2 DEF FillCase, y
      <4> QED BY <4>3 DEF res, l
    <3> QED BY <3>3, <3>4
  <2> QED BY <2>14, <2>15, <2>16
<1> QED BY <1>4, <1>5

\* Address a is not given by l.
Unused(l, a) == \A u \in Tags : ~Gives(l, a, u)

\* res is l with all that was unused from the first entry up to limit
\* given tag.
Filled(res, l, limit, tag) ==
    /\ Sorted(res)
    /\ \A a \in Int, t \in Tags :
          Gives(res, a, t) <=> \/ Gives(l, a, t)
                               \/ t = tag /\ l[1].begin <= a /\ a < limit /\ Unused(l, a)

LEMMA EntryMade ==
    ASSUME NEW b \in Int, NEW e \in Int, NEW tag \in Tags
    PROVE  /\ range_entry(b, e, tag) \in Entry /\ range_entry(b, e, tag).begin = b
           /\ range_entry(b, e, tag).end = e /\ range_entry(b, e, tag).tag = tag
BY DEF range_entry, Entry

\* An entry x, possibly a new one h behind it, and a list k that starts
\* behind both.
LEMMA HoleInFront ==
    ASSUME NEW x \in Entry, NEW h \in Entry, NEW k \in List, Good(x), Good(h), Sorted(k),
           x.end < h.begin, Apart(h, k)
    PROVE  /\ Sorted(<<x>> \o (<<h>> \o k))
           /\ \A a \in Int, t \in Tags :
                Gives(<<x>> \o (<<h>> \o k), a, t)
                  <=> In(x, a, t) \/ In(h, a, t) \/ Gives(k, a, t)
<1> DEFINE j == <<h>> \o k
<1>1. j \in List /\ Sorted(j)
  BY Compose, SortedCompose
<1>2. \A a \in Int, t \in Tags : Gives(j, a, t) <=> In(h, a, t) \/ Gives(k, a, t)
  BY GivesCompose
<1> HIDE DEF j
<1>3. x.end \in Int /\ h.begin \in Int /\ h.end \in Int /\ h.begin <= h.end
  BY EntryFact DEF Good
<1>4. Apart(x, j)
  <2>1. \A a \in Int, t \in Tags : In(h, a, t) => x.end < a
    BY <1>3 DEF In
  <2>2. \A a \in Int, t \in Tags : Gives(k, a, t) => x.end < a
    BY <1>3 DEF Apart
  <2> QED BY <1>2, <2>1, <2>2 DEF Apart
<1>5. Sorted(<<x>> \o j)
  BY <1>1, <1>4, SortedCompose
<1>6. \A a \in Int, t \in Tags : Gives(<<x>> \o j, a, t) <=> In(x, a, t) \/ Gives(j, a, t)
  BY <1>1, GivesCompose
<1> QED BY <1>2, <1>5, <1>6 DEF j

LEMMA FillSound ==
    ASSUME NEW l \in NonEmpty, NEW limit \in Int, NEW tag \in Tags, Sorted(l),
           limit % PAGE = 0, l[1].begin < limit, Neighbours(l, limit)
    PROVE  /\ memranges_fill_holes_up_to(l, limit, tag) \in List
           /\ Ended(memranges_fill_holes_up_to(l, limit, tag))
           /\ Filled(memranges_fill_holes_up_to(l, limit, tag), l, limit, tag)
<1>1. PICK f : Filling(f, limit, tag)
  BY FillFact
<1> DEFINE Asked(k) == k # <<>> /\ Sorted(k) /\ k[1].begin < limit /\ Neighbours(k, limit)
           T == {k \in List : Asked(k) => Filled(f[k], k, limit, tag)}
<1>2. ASSUME NEW k \in List, \A j \in List : Len(j) < Len(k) => j \in T, Asked(k)
      PROVE  Filled(f[k], k, limit, tag)
  <2> DEFINE x == k[1]
             r == Tail(k)
             res == f[k]
             New(a) == x.begin <= a /\ a < limit /\ Unused(k, a)
  <2>1. x \in Entry /\ r \in List /\ k = <<x>> \o r /\ Len(r) < Len(k) /\ x.begin < limit
    BY <1>2, Decompose
  <2>2. r \in T
    BY <1>2, <2>1
  <2>3. r # <<>> => f[r] \in List
    BY <1>1, <2>1 DEF Filling, NonEmpty
  <2>4. FillCase(res, f, x, r, limit, tag)
    <3>1. res = FillBody(f, k, limit, tag)
      BY <1>1, <1>2 DEF Filling, NonEmpty
    <3> HIDE DEF res, x, r
    <3>2. res = FillBody(f, <<x>> \o r, limit, tag)
      BY <2>1, <3>1
    <3>3. Sorted(<<x>> \o r) /\ Neighbours(<<x>> \o r, limit)
      BY <1>2, <2>1
    <3> QED BY <2>1, <2>3, <3>2, <3>3, FillCases
  <2>5. SUFFICES /\ Sorted(res)
                 /\ \A a \in Int, t \in Tags :
                       Gives(res, a, t) <=> Gives(k, a, t) \/ (t = tag /\ New(a))
    BY DEF Filled
  <2> HIDE DEF res, x, r
  <2>6. x.begin \in Int /\ x.end \in Int /\ x.tag \in Tags
    BY <2>1, EntryFact
  <2>7. Good(x) /\ Sorted(r) /\ Apart(x, r) /\ Neighbours(r, limit)
    BY <1>2, <2>1, SortedDecompose, NeighboursDecompose
  <2>8. x.begin <= x.end
    BY <2>7 DEF Good
  <2>9. (x.end + 1) % PAGE = 0
    BY <2>7 DEF Good
  <2>10. \A a \in Int, t \in Tags : Gives(k, a, t) <=> In(x, a, t) \/ Gives(r, a, t)
    BY <2>1, GivesCompose
  <2>11. \A a \in Int, t \in Tags : Gives(r, a, t) => x.end < a
    BY <2>7 DEF Apart
  <2>12. \A a \in Int : Unused(k, a) <=> ~(x.begin <= a /\ a <= x.end) /\ Unused(r, a)
    <3>1. ASSUME NEW a \in Int
          PROVE  Unused(k, a) <=> (\A u \in Tags : ~In(x, a, u)) /\ Unused(r, a)
      BY <2>10 DEF Unused
    <3>2. ASSUME NEW a \in Int
          PROVE  (\A u \in Tags : ~In(x, a, u)) <=> ~(x.begin <= a /\ a <= x.end)
      BY <2>6 DEF In
    <3> QED BY <3>1, <3>2
  <2>13. r # <<>> =>
            /\ r[1] \in Entry /\ r[1].begin \in Int /\ r[1].begin % PAGE = 0
            /\ x.end < r[1].begin
            /\ \A a \in Int, t \in Tags : Gives(r, a, t) => r[1].begin <= a
    <3> SUFFICES ASSUME r # <<>>
                 PROVE  /\ r[1] \in Entry /\ r[1].begin \in Int /\ r[1].begin % PAGE = 0
                        /\ x.end < r[1].begin
                        /\ \A a \in Int, t \in Tags : Gives(r, a, t) => r[1].begin <= a
      OBVIOUS
    <3> DEFINE y == r[1]
               q == Tail(r)
    <3>1. y \in Entry /\ q \in List /\ r = <<y>> \o q
      BY <2>1, Decompose
    <3> HIDE DEF y, q
    <3>2. Good(y) /\ Apart(y, q)
      BY <2>7, <3>1, SortedDecompose
    <3>3. y.begin \in Int /\ y.end \in Int /\ y.tag \in Tags /\ y.begin <= y.end
      BY <3>1, <3>2, EntryFact DEF Good
    <3>4. \A a \in Int, t \in Tags : Gives(r, a, t) <=> In(y, a, t) \/ Gives(q, a, t)
      BY <3>1, GivesCompose
    <3>5. In(y, y.begin, y.tag)
      BY <3>3 DEF In
    <3>6. x.end < y.begin
      BY <2>11, <3>3, <3>4, <3>5
    <3>7. \A a \in Int, t \in Tags : In(y, a, t) => y.begin <= a
      BY DEF In
    <3>8. \A a \in Int, t \in Tags : Gives(q, a, t) => y.begin <= a
      BY <3>2, <3>3 DEF Apart
    <3>9. y.begin % PAGE = 0
      BY <3>2 DEF Good
    <3> QED BY <3>1, <3>3, <3>4, <3>6, <3>7, <3>8, <3>9 DEF y
  <2>14. \A a \in Int : r = <<>> => Unused(r, a)
    BY EmptyGives DEF Unused
  <2>15. (r = <<>> \/ limit <= r[1].begin) =>
            \A a \in Int, t \in Tags : Gives(r, a, t) => limit <= a
    <3>1. r = <<>> => \A a \in Int, t \in Tags : ~Gives(r, a, t)
      BY EmptyGives
    <3>2. ASSUME r # <<>>, limit <= r[1].begin, NEW a \in Int, NEW t \in Tags, Gives(r, a, t)
          PROVE  limit <= a
      <4>1. r[1].begin \in Int /\ r[1].begin <= a
        BY <2>13, <3>2
      <4> QED BY <3>2, <4>1
    <3> QED BY <3>1, <3>2
  <2>16. CASE (r = <<>> \/ limit <= r[1].begin) /\ limit <= x.end + 1 /\ res = <<x>> \o r
    <3>0. limit <= x.end + 1
      BY <2>16
    <3>1. \A a \in Int : ~New(a)
      BY <2>6, <2>12, <3>0
    <3> HIDE DEF New
    <3>2. res = k
      BY <2>1, <2>16
    <3> QED BY <1>2, <3>1, <3>2
  <2>17. CASE /\ r = <<>> \/ limit <= r[1].begin
              /\ x.end + 1 < limit
              /\ res = <<x>> \o (<<range_entry(x.end + 1, limit - 1, tag)>> \o r)
    <3> DEFINE h == range_entry(x.end + 1, limit - 1, tag)
    <3>0. x.end + 1 < limit /\ \A a \in Int, t \in Tags : Gives(r, a, t) => limit <= a
      BY <2>15, <2>17
    <3>1. h \in Entry /\ h.begin = x.end + 1 /\ h.end = limit - 1 /\ h.tag = tag
      BY <2>6, EntryMade
    <3>2. res = <<x>> \o (<<h>> \o r)
      BY <2>17
    <3> HIDE DEF h
    <3>3. Good(h)
      <4>1. (limit - 1) + 1 = limit /\ x.end + 1 <= limit - 1
        BY <2>6, <3>0
      <4> QED BY <2>9, <3>1, <4>1 DEF Good
    <3>4. Apart(h, r)
      BY <3>0, <3>1 DEF Apart
    <3>5. x.end < h.begin
      BY <2>6, <3>1
    <3>6. /\ Sorted(res)
          /\ \A a \in Int, t \in Tags :
                Gives(res, a, t) <=> In(x, a, t) \/ In(h, a, t) \/ Gives(r, a, t)
      BY <2>1, <2>7, <3>1, <3>2, <3>3, <3>4, <3>5, HoleInFront
    <3>7. \A a \in Int : a < limit => Unused(r, a)
      BY <3>0 DEF Unused
    <3>8. \A a \in Int : New(a) <=> x.end + 1 <= a /\ a < limit
      BY <2>6, <2>8, <2>12, <3>7
    <3> HIDE DEF New
    <3>9. \A a \in Int, t \in Tags : In(h, a, t) <=> t = tag /\ New(a)
      BY <2>6, <3>1, <3>8 DEF In
    <3> QED BY <2>10, <3>6, <3>9
  <2>18. CASE r # <<>> /\ r[1].begin < limit
    <3> DEFINE y == r[1]
               s == f[r]
    <3>1. /\ y \in Entry /\ y.begin \in Int /\ y.begin % PAGE = 0 /\ x.end < y.begin
          /\ \A a \in Int, t \in Tags : Gives(r, a, t) => y.begin <= a
          /\ y.begin < limit
      BY <2>13, <2>18
    <3>2. s \in List /\ Filled(s, r, limit, tag)
      BY <2>2, <2>3, <2>7, <2>18
    <3>3. \A a \in Int, t \in Tags :
            Gives(s, a, t) <=> Gives(r, a, t) \/ (t = tag /\ y.begin <= a /\ a < limit /\ Unused(r, a))
      BY <3>2 DEF Filled
    <3>4. Sorted(s)
      BY <3>2 DEF Filled
    <3>5. res = IF x.end + 1 = y.begin THEN <<x>> \o s
                ELSE <<x>> \o (<<range_entry(x.end + 1, y.begin - 1, tag)>> \o s)
      <4>1. ~(limit <= y.begin)
        BY <3>1
      <4> QED BY <2>4, <2>18, <4>1 DEF FillCase
    <3> HIDE DEF y, s
    <3>6. \A a \in Int, t \in Tags : Gives(s, a, t) => y.begin <= a
      BY <3>1, <3>3
    <3>7. \A a \in Int : a < y.begin => Unused(r, a)
      BY <3>1 DEF Unused
    <3>8. \A a \in Int : New(a) <=> \/ x.end + 1 <= a /\ a < y.begin
                                    \/ y.begin <= a /\ a < limit /\ Unused(r, a)
      BY <2>6, <2>8, <2>12, <3>1, <3>7
    <3> HIDE DEF New
    <3>9. CASE x.end + 1 = y.begin
      <4>1. res = <<x>> \o s
        BY <3>5, <3>9
      <4>2. Apart(x, s)
        BY <2>6, <3>1, <3>6 DEF Apart
      <4>3. Sorted(res)
        BY <2>1, <2>7, <3>2, <3>4, <4>1, <4>2, SortedCompose
      <4>4. \A a \in Int, t \in Tags : Gives(res, a, t) <=> In(x, a, t) \/ Gives(s, a, t)
        BY <2>1, <3>2, <4>1, GivesCompose
      <4>5. \A a \in Int : New(a) <=> y.begin <= a /\ a < limit /\ Unused(r, a)
        BY <2>6, <3>1, <3>8, <3>9
      <4> QED BY <2>10, <3>3, <4>3, <4>4, <4>5
    <3>10. CASE x.end + 1 # y.begin
      <4> DEFINE h == range_entry(x.end + 1, y.begin - 1, tag)
      <4>1. h \in Entry /\ h.begin = x.end + 1 /\ h.end = y.begin - 1 /\ h.tag = tag
        BY <2>6, <3>1, EntryMade
      <4>2. res = <<x>> \o (<<h>> \o s)
        BY <3>5, <3>10
      <4> HIDE DEF h
      <4>3. Good(h)
        <5>1. (y.begin - 1) + 1 = y.begin /\ x.end + 1 <= y.begin - 1
          BY <2>6, <3>1, <3>10
        <5> QED BY <2>9, <3>1, <4>1, <5>1 DEF Good
      <4>4. Apart(h, s)
        BY <3>1, <3>6, <4>1 DEF Apart
      <4>5. x.end < h.begin
        BY <2>6, <4>1
      <4>6. /\ Sorted(res)
            /\ \A a \in Int, t \in Tags :
                  Gives(res, a, t) <=> In(x, a, t) \/ In(h, a, t) \/ Gives(s, a, t)
        BY <2>1, <2>7, <3>2, <3>4, <4>1, <4>2, <4>3, <4>4, <4>5, HoleInFront
      <4>7. \A a \in Int, t \in Tags : In(h, a, t) <=> t = tag /\ x.end + 1 <= a /\ a < y.begin
        BY <2>6, <3>1, <4>1 DEF In
      <4> QED BY <2>10, <3>3, <3>8, <4>6, <4>7
    <3> QED BY <3>9, <3>10
  <2> QED BY <2>4, <2>16, <2>17, <2>18 DEF FillCase
<1>3. \A k \in List : (\A j \in List : Len(j) < Len(k) => j \in T) => k \in T
  BY <1>2
<1> HIDE DEF T
<1>4. List \subseteq T
  BY <1>3, ListInduction
<1>5. Filled(f[l], l, limit, tag) /\ f[l] \in List
  BY <1>1, <1>4 DEF T, Filling, NonEmpty
<1> DEFINE res == memranges_fill_holes_up_to(l, limit, tag)
           k == f[l]
<1>6. res = merge_neighbor_entries(k) /\ k \in List /\ Filled(k, l, limit, tag)
  BY <1>1, <1>5 DEF Filling
<1> HIDE DEF k, res
<1>7. Sorted(k)
  BY <1>6 DEF Filled
<1>8. res \in List /\ Sorted(res) /\ Ended(res) /\ Same(res, k)
  BY <1>6, <1>7, MergeSound
<1>9. Filled(res, l, limit, tag)
  BY <1>6, <1>8 DEF Filled, Same
<1> QED BY <1>8, <1>9 DEF res

-----------------------------------------------------------------------------
(* Pages *)

LEMMA Product ==
    ASSUME NEW a \in Int, NEW b \in Int, NEW D \in Nat \ {0}
    PROVE  /\ D * a \in Int /\ D * b \in Int
           /\ a < b => D * a + D <= D * b
           /\ a <= b => D * a <= D * b
           /\ D * (a + 1) = D * a + D
<1>1. D * a \in Int /\ D * b \in Int /\ D * (a + 1) = D * a + D
  OBVIOUS
<1>2. ASSUME a <= b PROVE D * a <= D * b
  <2>1. D * (b - a) >= 0
    BY <1>2
  <2>2. D * (b - a) = D * b - D * a
    OBVIOUS
  <2> QED BY <1>1, <2>1, <2>2
<1>3. ASSUME a < b PROVE D * a + D <= D * b
  <2>1. D * (b - a - 1) >= 0
    BY <1>3
  <2>2. D * (b - a - 1) = D * b - D * a - D
    OBVIOUS
  <2> QED BY <1>1, <2>1, <2>2
<1> QED BY <1>1, <1>2, <1>3

\* Division with remainder.
LEMMA Division ==
    ASSUME NEW n \in Nat, NEW D \in Nat \ {0}
    PROVE  /\ n \div D \in Nat /\ n % D \in 0 .. D - 1
           /\ n = D * (n \div D) + (n % D)
<1>1. n \div D \in Int /\ n % D \in 0 .. D - 1 /\ n = D * (n \div D) + (n % D)
  OBVIOUS
<1>2. n \div D >= 0
  <2> SUFFICES ASSUME n \div D < 0 PROVE FALSE
    BY <1>1
  <2>1. D * (n \div D) + D <= D * 0
    BY <1>1, Product
  <2> QED BY <1>1, <2>1
<1> QED BY <1>1, <1>2

\* Quotient and remainder are the only ones.
LEMMA Quotient ==
    ASSUME NEW q \in Nat, NEW D \in Nat \ {0}, NEW r \in 0 .. D - 1
    PROVE  D * q + r \in Nat /\ (D * q + r) \div D = q /\ (D * q + r) % D = r
<1>1. D * q \in Nat
  OBVIOUS
<1> DEFINE n == D * q + r
           p == n \div D
           s == n % D
<1>2. n \in Nat
  BY <1>1
<1>3. p \in Nat /\ s \in 0 .. D - 1 /\ n = D * p + s
  BY <1>2, Division
<1>4. ~(p < q)
  BY <1>1, <1>3, Product
<1>5. ~(q < p)
  BY <1>1, <1>3, Product
<1>6. p = q
  BY <1>3, <1>4, <1>5
<1> QED BY <1>1, <1>3, <1>6

LEMMA NextMultiple ==
    ASSUME NEW m \in Nat, NEW n \in Nat, NEW D \in Nat \ {0},
           m % D = 0, n % D = 0
    PROVE  /\ m < n => m + D <= n
           /\ (m + D) % D = 0
<1>1. m = D * (m \div D) /\ n = D * (n \div D) /\ m \div D \in Nat /\ n \div D \in Nat
  BY Division
<1>2. m < n => m \div D < n \div D
  BY <1>1, Product
<1>3. m < n => m + D <= n
  BY <1>1, <1>2, Product
<1>4. m + D = D * (m \div D + 1) + 0
  BY <1>1, Product
<1>5. (D * (m \div D + 1) + 0) % D = 0
  BY <1>1, Quotient
<1> QED BY <1>3, <1>4, <1>5

LEMMA ZeroMultiple == ASSUME NEW D \in Nat \ {0} PROVE 0 % D = 0
OBVIOUS

LEMMA MultipleOf ==
    ASSUME NEW q \in Nat, NEW D \in Nat \ {0}
    PROVE  D * q \in Nat /\ (D * q) % D = 0
BY Quotient

LEMMA Constants ==
    /\ PAGE \in Nat \ {0} /\ PAGE > 1 /\ LIMIT \in Nat /\ LIMIT % PAGE = 0
    /\ None \notin Tags
BY PageAssumption, MapAssumption

\* do_action works on the pages that the resource touches.
LEMMA PageBounds ==
    ASSUME NEW base \in Nat, NEW size \in Nat \ {0}
    PROVE  /\ Begin(base) \in Nat /\ End(base, size) \in Nat
           /\ Begin(base) % PAGE = 0 /\ (End(base, size) + 1) % PAGE = 0
           /\ Begin(base) <= End(base, size)
           /\ Begin(base) = PAGE * (base \div PAGE)
           /\ End(base, size) = PAGE * ((base + size - 1) \div PAGE + 1) - 1
           /\ \A a \in Nat : a \div PAGE \in base \div PAGE .. (base + size - 1) \div PAGE
                                <=> Begin(base) <= a /\ a <= End(base, size)
<1> DEFINE q == base \div PAGE
           n == base + size - 1
           u == n \div PAGE
<1>1. PAGE \in Nat \ {0} /\ n \in Nat /\ base <= n
  BY Constants
<1>2. /\ q \in Nat /\ base = PAGE * q + (base % PAGE) /\ base % PAGE \in 0 .. PAGE - 1
      /\ u \in Nat /\ n = PAGE * u + (n % PAGE) /\ n % PAGE \in 0 .. PAGE - 1
  BY <1>1, Division
<1>3. Begin(base) = PAGE * q
  BY DEF Begin, ALIGN_DOWN
<1>4. End(base, size) = PAGE * (u + 1) - 1
  <2>1. PAGE * q + size + (base % PAGE) = base + size
    BY <1>1, <1>2
  <2>2. base + size + PAGE - 1 = PAGE * (u + 1) + (n % PAGE)
    BY <1>1, <1>2, Product
  <2>3. (base + size + PAGE - 1) \div PAGE = u + 1
    <3> DEFINE w == u + 1
               m == n % PAGE
    <3>1. w \in Nat /\ m \in 0 .. PAGE - 1
      BY <1>2
    <3> HIDE DEF w, m
    <3>2. (PAGE * w + m) \div PAGE = w
      BY <1>1, <3>1, Quotient
    <3> QED BY <2>2, <3>2 DEF w, m
  <2>4. End(base, size) = ALIGN_UP(base + size) - 1
    BY <2>1 DEF End, ALIGN_DOWN
  <2> QED BY <2>3, <2>4 DEF ALIGN_UP, ALIGN_DOWN
<1>5. /\ PAGE * q \in Nat /\ (PAGE * q) % PAGE = 0
      /\ PAGE * (u + 1) \in Nat /\ (PAGE * (u + 1)) % PAGE = 0
  <2>1. u + 1 \in Nat
    BY <1>2
  <2> HIDE DEF q, u
  <2> QED BY <1>1, <1>2, <2>1, MultipleOf
<1>6. q <= u
  <2> SUFFICES ASSUME u < q PROVE FALSE
    BY <1>2
  <2>1. PAGE * u + PAGE <= PAGE * q
    BY <1>1, <1>2, Product
  <2> QED BY <1>1, <1>2, <2>1
<1>7. PAGE * q < PAGE * (u + 1)
  <2>1. PAGE * q + PAGE <= PAGE * (u + 1)
    BY <1>1, <1>2, <1>6, Product
  <2> QED BY <1>1, <1>5, <2>1
<1>8. ASSUME NEW a \in Nat
      PROVE  a \div PAGE \in q .. u <=> PAGE * q <= a /\ a <= PAGE * (u + 1) - 1
  <2> DEFINE d == a \div PAGE
  <2>1. d \in Nat /\ a = PAGE * d + (a % PAGE) /\ a % PAGE \in 0 .. PAGE - 1
    BY <1>1, Division
  <2>2. PAGE * d \in Nat
    BY <1>1, <2>1, MultipleOf
  <2>3. q <= d => PAGE * q <= PAGE * d
    BY <1>1, <1>2, <2>1, Product
  <2>4. d < q => PAGE * d + PAGE <= PAGE * q
    BY <1>1, <1>2, <2>1, Product
  <2>5. d < u + 1 => PAGE * d + PAGE <= PAGE * (u + 1)
    BY <1>1, <1>2, <2>1, Product
  <2>6. u + 1 <= d => PAGE * (u + 1) <= PAGE * d
    BY <1>1, <1>2, <2>1, Product
  <2> DEFINE A == PAGE * q
             B == PAGE * (u + 1)
             C == PAGE * d
             m == a % PAGE
  <2>7. /\ A \in Nat /\ B \in Nat /\ C \in Nat /\ m \in 0 .. PAGE - 1 /\ a = C + m
        /\ (q <= d => A <= C) /\ (d < q => C + PAGE <= A)
        /\ (d < u + 1 => C + PAGE <= B) /\ (u + 1 <= d => B <= C)
    BY <1>5, <2>1, <2>2, <2>3, <2>4, <2>5, <2>6
  <2>8. d \in Nat /\ q \in Nat /\ u \in Nat
    BY <1>2, <2>1
  <2> HIDE DEF A, B, C, m, d, q, u
  <2>9. d \in q .. u <=> A <= a /\ a <= B - 1
    BY <1>1, <2>7, <2>8
  <2> QED BY <2>9 DEF A, B, d
<1> HIDE DEF q, u
<1>9. /\ PAGE * q <= PAGE * (u + 1) - 1
      /\ PAGE * (u + 1) - 1 \in Nat /\ (PAGE * (u + 1) - 1) + 1 = PAGE * (u + 1)
  <2> DEFINE A == PAGE * q
             B == PAGE * (u + 1)
  <2>1. A \in Nat /\ B \in Nat /\ A < B
    BY <1>5, <1>7
  <2> HIDE DEF A, B
  <2>2. A <= B - 1 /\ B - 1 \in Nat /\ (B - 1) + 1 = B
    BY <2>1
  <2> QED BY <2>2 DEF A, B
<1> QED BY <1>3, <1>4, <1>5, <1>8, <1>9 DEF q, u

\* A resource below a multiple of the page size touches only pages below it.
LEMMA PagesBelow ==
    ASSUME NEW base \in Nat, NEW size \in Nat \ {0}, NEW limit \in Nat,
           limit % PAGE = 0, base + size <= limit
    PROVE  End(base, size) < limit
<1> DEFINE n == base + size - 1
           u == n \div PAGE
           v == limit \div PAGE
<1>1. PAGE \in Nat \ {0} /\ n \in Nat /\ n < limit /\ limit \in Nat /\ limit % PAGE = 0
  BY PageAssumption
<1>2. /\ u \in Nat /\ n = PAGE * u + (n % PAGE) /\ n % PAGE \in 0 .. PAGE - 1
      /\ v \in Nat /\ limit = PAGE * v
  <2>1. limit = PAGE * (limit \div PAGE) + 0 /\ v \in Nat
    BY <1>1, Division
  <2>2. PAGE * v + 0 = PAGE * v
    BY <1>1, <2>1
  <2> QED BY <1>1, <2>1, <2>2, Division
<1>3. End(base, size) = PAGE * (u + 1) - 1
  BY PageBounds
<1>4. PAGE * (u + 1) <= limit
  <2>1. u < v
    <3> SUFFICES ASSUME v <= u PROVE FALSE
      BY <1>2
    <3>1. PAGE * v <= PAGE * u
      BY <1>1, <1>2, Product
    <3> QED BY <1>1, <1>2, <3>1
  <2>2. u + 1 <= v
    BY <1>2, <2>1
  <2> QED BY <1>1, <1>2, <2>2, Product
<1>5. End(base, size) < limit
  <2> DEFINE B == PAGE * (u + 1)
  <2>1. B \in Int /\ B <= limit
    BY <1>1, <1>2, <1>4
  <2> HIDE DEF B
  <2>2. B - 1 < limit
    BY <1>1, <2>1
  <2> QED BY <1>3, <2>2 DEF B
<1> QED BY <1>5

\* A resource below LIMIT touches only pages below it.
LEMMA PageFact ==
    ASSUME NEW base \in Nat, NEW size \in Nat \ {0}, base + size <= LIMIT
    PROVE  /\ Begin(base) \in Nat /\ End(base, size) \in Nat
           /\ Begin(base) % PAGE = 0 /\ (End(base, size) + 1) % PAGE = 0
           /\ Begin(base) <= End(base, size) /\ End(base, size) < LIMIT
           /\ \A a \in Nat : a \div PAGE \in base \div PAGE .. (base + size - 1) \div PAGE
                                <=> Begin(base) <= a /\ a <= End(base, size)
<1>1. LIMIT \in Nat /\ LIMIT % PAGE = 0
  BY Constants
<1>2. End(base, size) < LIMIT
  BY <1>1, PagesBelow
<1> QED BY <1>2, PageBounds

-----------------------------------------------------------------------------
(* The inductive invariant *)

\* All that the list gives is below LIMIT.
Inside(l) == \A a \in Int, t \in Tags : Gives(l, a, t) => a \in Addresses

\* A list as every call finds it.
Sound(l) == l \in List /\ Sorted(l) /\ Ended(l) /\ Inside(l)

IInv == Sound(entries)

\* The calls that can be made.
LEMMA StepFact ==
    ASSUME IInv, RangesNext
    PROVE  \/ \E b \in Bases, s \in Sizes : CreateHole(b, s)
           \/ \E b \in Bases, s \in Sizes, t \in Tags : Insert(b, s, t)
           \/ \E s, t \in Tags : UpdateTag(s, t)
           \/ \E l \in Addresses, t \in Tags : l % PAGE = 0 /\ FillHolesUpTo(l, t)
           \/ Teardown
BY DEF RangesNext

LEMMA InputFact ==
    ASSUME NEW b \in Bases, NEW s \in Sizes
    PROVE  b \in Nat /\ s \in Nat \ {0}
BY MapAssumption DEF Addresses

LEMMA BetweenFact ==
    ASSUME NEW b \in Nat, NEW e \in Nat, e < LIMIT, NEW a \in Int, b <= a, a <= e
    PROVE  a \in Addresses
BY Constants DEF Addresses

LEMMA HoleStep ==
    ASSUME NEW l, Sound(l), NEW base \in Bases, NEW size \in Sizes, base + size <= LIMIT
    PROVE  /\ Sound(memranges_create_hole(l, base, size))
           /\ \A a \in Int, t \in Tags :
                 Gives(memranges_create_hole(l, base, size), a, t)
                   <=> Gives(l, a, t) /\ ~(Begin(base) <= a /\ a <= End(base, size))
<1> DEFINE b == Begin(base)
           e == End(base, size)
           res == memranges_create_hole(l, base, size)
<1>1. b \in Nat /\ e \in Nat /\ b % PAGE = 0 /\ (e + 1) % PAGE = 0 /\ b <= e
  BY InputFact, PageFact
<1>2. res = remove_memranges(l, b, e)
  BY DEF memranges_create_hole
<1> HIDE DEF b, e, res
<1>3. l \in List /\ Sorted(l) /\ Ended(l) /\ Inside(l)
  BY DEF Sound
<1>4. Ready(l, b, e)
  BY <1>1 DEF Ready
<1>5. res \in List /\ Left(res, l, b, e)
  BY <1>1, <1>2, <1>3, <1>4, RemoveSound
<1>6. \A a \in Int, t \in Tags : Gives(res, a, t) <=> Gives(l, a, t) /\ ~(b <= a /\ a <= e)
  BY <1>5 DEF Left
<1>7. Sorted(res) /\ Ended(res)
  BY <1>3, <1>5 DEF Left
<1>8. Inside(res)
  BY <1>3, <1>6 DEF Inside
<1> QED BY <1>5, <1>6, <1>7, <1>8 DEF Sound, b, e, res

LEMMA InsertStep ==
    ASSUME NEW l, Sound(l), NEW base \in Bases, NEW size \in Sizes, NEW tag \in Tags,
           base + size <= LIMIT
    PROVE  /\ Sound(memranges_insert(l, base, size, tag))
           /\ \A a \in Int, t \in Tags :
                 Gives(memranges_insert(l, base, size, tag), a, t)
                   <=> IF Begin(base) <= a /\ a <= End(base, size) THEN t = tag
                       ELSE Gives(l, a, t)
<1> DEFINE b == Begin(base)
           e == End(base, size)
           res == memranges_insert(l, base, size, tag)
<1>1. b \in Nat /\ e \in Nat /\ b % PAGE = 0 /\ (e + 1) % PAGE = 0 /\ b <= e /\ e < LIMIT
  BY InputFact, PageFact
<1>2. res = merge_add_memranges(l, b, e, tag)
  BY DEF memranges_insert
<1> HIDE DEF b, e, res
<1>3. l \in List /\ Sorted(l) /\ Inside(l)
  BY DEF Sound
<1>4. /\ res \in List /\ Sorted(res) /\ Ended(res)
      /\ \A a \in Int, t \in Tags :
            Gives(res, a, t) <=> IF b <= a /\ a <= e THEN t = tag ELSE Gives(l, a, t)
  BY <1>1, <1>2, <1>3, InsertSound
<1>5. Inside(res)
  BY <1>1, <1>3, <1>4, BetweenFact DEF Inside
<1> QED BY <1>4, <1>5 DEF Sound, b, e, res

LEMMA UpdateStep ==
    ASSUME NEW l, Sound(l), NEW old \in Tags, NEW new \in Tags
    PROVE  /\ Sound(memranges_update_tag(l, old, new))
           /\ \A a \in Int, t \in Tags :
                 Gives(memranges_update_tag(l, old, new), a, t)
                   <=> \/ t = new /\ Gives(l, a, old)
                       \/ t # old /\ Gives(l, a, t)
<1> DEFINE res == memranges_update_tag(l, old, new)
<1>1. l \in List /\ Sorted(l) /\ Inside(l)
  BY DEF Sound
<1>2. /\ res \in List /\ Sorted(res) /\ Ended(res)
      /\ \A a \in Int, t \in Tags :
            Gives(res, a, t) <=> \/ t = new /\ Gives(l, a, old)
                                 \/ t # old /\ Gives(l, a, t)
  BY <1>1, UpdateSound
<1> HIDE DEF res
<1>3. Inside(res)
  BY <1>1, <1>2 DEF Inside
<1> QED BY <1>2, <1>3 DEF Sound, res

LEMMA FillStep ==
    ASSUME IInv, NEW limit \in Addresses, limit % PAGE = 0, NEW tag \in Tags, Fillable(limit)
    PROVE  /\ Sound(memranges_fill_holes_up_to(entries, limit, tag))
           /\ \A a \in Addresses, t \in Tags :
                 Gives(memranges_fill_holes_up_to(entries, limit, tag), a, t)
                   <=> \/ Gives(entries, a, t)
                       \/ t = tag /\ a < limit /\ Unused(entries, a)
<1> DEFINE res == memranges_fill_holes_up_to(entries, limit, tag)
<1>1. entries \in NonEmpty /\ Sorted(entries) /\ Inside(entries) /\ entries[1].begin = 0
  BY DEF IInv, Sound, Fillable, NonEmpty
<1>2. limit \in Int /\ limit > 0 /\ entries[1].begin < limit /\ limit < LIMIT
  BY <1>1, Constants DEF Fillable, Addresses
<1>3. Neighbours(entries, limit)
  BY DEF Fillable, Neighbours, range_entry_end
<1>4. res \in List /\ Ended(res) /\ Filled(res, entries, limit, tag)
  BY <1>1, <1>2, <1>3, FillSound
<1> HIDE DEF res
<1>5. Sorted(res)
  BY <1>4 DEF Filled
<1>6. ASSUME NEW a \in Int, NEW t \in Tags
      PROVE  Gives(res, a, t) <=> \/ Gives(entries, a, t)
                                  \/ t = tag /\ 0 <= a /\ a < limit /\ Unused(entries, a)
  BY <1>1, <1>4 DEF Filled
<1>7. Inside(res)
  <2>1. ASSUME NEW a \in Int, 0 <= a, a < limit PROVE a \in Addresses
    BY <1>2, <2>1, Constants DEF Addresses
  <2> QED BY <1>1, <1>6, <2>1 DEF Inside
<1>8. \A a \in Addresses : a \in Int /\ 0 <= a
  BY Constants DEF Addresses
<1> QED BY <1>4, <1>5, <1>6, <1>7, <1>8 DEF Sound, res

LEMMA EmptySound == Sound(<<>>)
BY EmptyList, EmptyGives DEF Sound, Inside

\* The list is in order, of whole pages, merged as far as it can be, and
\* below LIMIT, whatever calls are made.
THEOREM Invariance == RangesSpec => []IInv
<1>1. RangesInit => IInv
  BY EmptySound DEF RangesInit, IInv
<1>2. IInv /\ [RangesNext]_ranges_vars => IInv'
  <2> SUFFICES ASSUME IInv, [RangesNext]_ranges_vars PROVE Sound(entries')
    BY DEF IInv
  <2>0. Sound(entries)
    BY DEF IInv
  <2>1. ASSUME NEW b \in Bases, NEW s \in Sizes, CreateHole(b, s) PROVE Sound(entries')
    BY <2>0, <2>1, HoleStep DEF CreateHole
  <2>2. ASSUME NEW b \in Bases, NEW s \in Sizes, NEW t \in Tags, Insert(b, s, t)
        PROVE  Sound(entries')
    BY <2>0, <2>2, InsertStep DEF Insert
  <2>3. ASSUME NEW s \in Tags, NEW t \in Tags, UpdateTag(s, t) PROVE Sound(entries')
    BY <2>0, <2>3, UpdateStep DEF UpdateTag
  <2>4. ASSUME NEW l \in Addresses, NEW t \in Tags, l % PAGE = 0, FillHolesUpTo(l, t)
        PROVE  Sound(entries')
    BY <2>4, FillStep DEF FillHolesUpTo
  <2>5. CASE Teardown
    BY <2>5, EmptySound DEF Teardown
  <2>6. CASE UNCHANGED ranges_vars
    BY <2>0, <2>6 DEF ranges_vars
  <2> QED BY <2>1, <2>2, <2>3, <2>4, <2>5, <2>6, StepFact
<1> QED BY <1>1, <1>2, PTL DEF RangesSpec

-----------------------------------------------------------------------------
(* ListSound *)

LEMMA EntryBounds ==
    ASSUME IInv, NEW i \in 1 .. Len(entries)
    PROVE  /\ entries[i] \in [begin : Addresses, end : Addresses, tag : Tags]
           /\ entries[i].begin < entries[i].end
           /\ entries[i].begin % PAGE = 0 /\ (entries[i].end + 1) % PAGE = 0
<1> DEFINE x == entries[i]
<1>1. entries \in List /\ Sorted(entries) /\ Inside(entries)
  BY DEF IInv, Sound
<1>2. /\ x \in Entry /\ Good(x)
      /\ Gives(entries, x.begin, x.tag) /\ Gives(entries, x.end, x.tag)
  BY <1>1, BoundsGiven
<1> HIDE DEF x
<1>3. x.begin \in Int /\ x.end \in Int /\ x.tag \in Tags
  BY <1>2, EntryFact
<1>4. x.begin \in Addresses /\ x.end \in Addresses
  BY <1>1, <1>2, <1>3 DEF Inside
<1>5. x \in [begin : Addresses, end : Addresses, tag : Tags]
  BY <1>2, <1>3, <1>4 DEF Entry
<1>6. x.begin <= x.end /\ x.begin % PAGE = 0 /\ (x.end + 1) % PAGE = 0
  BY <1>2 DEF Good
<1>7. x.begin < x.end
  <2>1. x.begin \in Nat /\ x.end + 1 \in Nat
    BY <1>4, Constants DEF Addresses
  <2>2. x.begin < x.end + 1
    BY <1>3, <1>6
  <2>3. x.begin + PAGE <= x.end + 1
    BY <1>6, <2>1, <2>2, Constants, NextMultiple
  <2> QED BY <1>3, <2>3, Constants
<1> QED BY <1>5, <1>6, <1>7 DEF x

LEMMA InvariantIsSound == ASSUME IInv PROVE ListSound
<1>1. entries \in List /\ Sorted(entries) /\ Ended(entries)
  BY DEF IInv, Sound
<1>2. Len(entries) \in Nat /\ DOMAIN entries = 1 .. Len(entries)
  BY <1>1 DEF List
<1>3. RangesTypeOK
  <2> DEFINE R == [begin : Addresses, end : Addresses, tag : Tags]
  <2>1. \A i \in 1 .. Len(entries) : entries[i] \in R
    BY EntryBounds
  <2> HIDE DEF R
  <2>2. entries \in Seq(R)
    BY <1>1, <2>1 DEF List
  <2> QED BY <2>2 DEF RangesTypeOK, R
<1>4. Ordered
  <2>1. \A i \in DOMAIN entries :
           /\ entries[i].begin < entries[i].end
           /\ entries[i].begin % PAGE = 0
           /\ range_entry_end(entries[i]) % PAGE = 0
    BY <1>2, EntryBounds DEF range_entry_end
  <2>2. ASSUME NEW i \in 1 .. Len(entries) - 1 PROVE entries[i].end < entries[i + 1].begin
    <3>1. i \in 1 .. Len(entries) /\ i + 1 \in 1 .. Len(entries) /\ i < i + 1
      BY <1>2
    <3> QED BY <1>1, <3>1 DEF Sorted
  <2> QED BY <2>1, <2>2 DEF Ordered
<1>5. Merged
  <2> SUFFICES ASSUME NEW i \in 1 .. Len(entries) - 1,
                      range_entry_end(entries[i]) = entries[i + 1].begin,
                      entries[i].tag = entries[i + 1].tag
               PROVE  FALSE
    BY DEF Merged
  <2>1. i \in 1 .. Len(entries) /\ i + 1 \in 1 .. Len(entries)
    BY <1>2
  <2>2. Gives(entries, entries[i + 1].begin, entries[i + 1].tag)
    BY <1>1, <2>1, BoundsGiven
  <2>3. ~Gives(entries, entries[i].end + 1, entries[i].tag)
    BY <1>1, <2>1 DEF Ended
  <2> QED BY <2>2, <2>3 DEF range_entry_end
<1> QED BY <1>3, <1>4, <1>5 DEF ListSound

\* For every page size, address space and set of tags, and after any
\* sequence of calls of memrange.h, the entries are in ascending order,
\* disjoint, of whole pages and merged: what the early exits of the loops of
\* memrange.c and every reader of the list rely on.
THEOREM ListStaysSound == RangesSpec => []ListSound
BY Invariance, InvariantIsSound, PTL

-----------------------------------------------------------------------------
(* The list as a map *)

Covering(l, a) == {i \in DOMAIN l : l[i].begin <= a /\ a <= l[i].end}
TagIn(l, a) == IF Covering(l, a) = {} THEN None ELSE l[Min(Covering(l, a))].tag

LEMMA TagFact ==
    ASSUME NEW l, Sound(l), NEW a \in Addresses
    PROVE  /\ TagIn(l, a) = None <=> Unused(l, a)
           /\ \A t \in Tags : TagIn(l, a) = t <=> Gives(l, a, t)
           /\ TagIn(l, a) \in Tags \cup {None}
<1>1. l \in List /\ Sorted(l)
  BY DEF Sound
<1>2. a \in Int
  BY Constants DEF Addresses
<1>3. DOMAIN l = 1 .. Len(l) /\ Len(l) \in Nat /\ \A i \in 1 .. Len(l) : l[i] \in Entry
  BY <1>1 DEF List
<1>4. CASE Covering(l, a) = {}
  <2>1. TagIn(l, a) = None
    BY <1>4 DEF TagIn
  <2>2. \A t : ~Gives(l, a, t)
    BY <1>3, <1>4 DEF Covering, Gives, In
  <2> QED BY <2>1, <2>2, Constants DEF Unused
<1>5. CASE Covering(l, a) # {}
  <2>1. PICK i \in 1 .. Len(l) : l[i].begin <= a /\ a <= l[i].end
    BY <1>3, <1>5 DEF Covering
  <2>2. ASSUME NEW j \in 1 .. Len(l), l[j].begin <= a, a <= l[j].end PROVE j = i
    <3>1. /\ l[i].begin \in Int /\ l[i].end \in Int
          /\ l[j].begin \in Int /\ l[j].end \in Int
      BY <1>3, EntryFact
    <3>2. ~(i < j)
      BY <1>1, <1>2, <2>1, <2>2, <3>1 DEF Sorted
    <3>3. ~(j < i)
      BY <1>1, <1>2, <2>1, <2>2, <3>1 DEF Sorted
    <3> QED BY <1>3, <3>2, <3>3
  <2>3. Covering(l, a) = {i}
    BY <1>3, <2>1, <2>2 DEF Covering
  <2>4. Min({i}) = i
    BY <1>3 DEF Min
  <2>5. TagIn(l, a) = l[i].tag /\ l[i].tag \in Tags
    BY <1>3, <1>5, <2>3, <2>4, EntryFact DEF TagIn
  <2>6. \A t : Gives(l, a, t) <=> t = l[i].tag
    BY <2>1, <2>2 DEF Gives, In
  <2> QED BY <2>5, <2>6, Constants DEF Unused
<1> QED BY <1>4, <1>5

LEMMA SameTag ==
    ASSUME NEW l, Sound(l), NEW k, Sound(k), NEW a \in Addresses,
           \A t \in Tags : Gives(l, a, t) <=> Gives(k, a, t)
    PROVE  TagIn(l, a) = TagIn(k, a)
BY TagFact DEF Unused

LEMMA TouchedFact ==
    ASSUME NEW base \in Bases, NEW size \in Sizes, base + size <= LIMIT, NEW a \in Addresses
    PROVE  a \in Int /\ (a \in P!Touched(base, size) <=> Begin(base) <= a /\ a <= End(base, size))
<1>1. base \in Nat /\ size \in Nat \ {0} /\ a \in Nat
  BY InputFact, Constants DEF Addresses
<1>2. a \div PAGE \in base \div PAGE .. (base + size - 1) \div PAGE
        <=> Begin(base) <= a /\ a <= End(base, size)
  BY <1>1, PageFact
<1> QED BY <1>1, <1>2 DEF P!Touched

LEMMA HolePaint ==
    ASSUME NEW l, Sound(l), NEW base \in Bases, NEW size \in Sizes, base + size <= LIMIT,
           NEW a \in Addresses
    PROVE  TagIn(memranges_create_hole(l, base, size), a)
             = IF a \in P!Touched(base, size) THEN None ELSE TagIn(l, a)
<1> DEFINE res == memranges_create_hole(l, base, size)
           hit == Begin(base) <= a /\ a <= End(base, size)
<1>1. a \in Int /\ (a \in P!Touched(base, size) <=> hit)
  BY TouchedFact
<1>2. Sound(res) /\ \A t \in Tags : Gives(res, a, t) <=> Gives(l, a, t) /\ ~hit
  BY <1>1, HoleStep
<1> HIDE DEF res, hit
<1>3. CASE hit
  BY <1>1, <1>2, <1>3, TagFact DEF Unused, res
<1>4. CASE ~hit
  BY <1>1, <1>2, <1>4, SameTag DEF res
<1> QED BY <1>3, <1>4

LEMMA InsertPaint ==
    ASSUME NEW l, Sound(l), NEW base \in Bases, NEW size \in Sizes, NEW tag \in Tags,
           base + size <= LIMIT, NEW a \in Addresses
    PROVE  TagIn(memranges_insert(l, base, size, tag), a)
             = IF a \in P!Touched(base, size) THEN tag ELSE TagIn(l, a)
<1> DEFINE res == memranges_insert(l, base, size, tag)
           hit == Begin(base) <= a /\ a <= End(base, size)
<1>1. a \in Int /\ (a \in P!Touched(base, size) <=> hit)
  BY TouchedFact
<1>2. Sound(res) /\ \A t \in Tags : Gives(res, a, t) <=> IF hit THEN t = tag ELSE Gives(l, a, t)
  BY <1>1, InsertStep
<1> HIDE DEF res, hit
<1>3. CASE hit
  BY <1>1, <1>2, <1>3, TagFact DEF res
<1>4. CASE ~hit
  BY <1>1, <1>2, <1>4, SameTag DEF res
<1> QED BY <1>3, <1>4

LEMMA UpdatePaint ==
    ASSUME NEW l, Sound(l), NEW old \in Tags, NEW new \in Tags, NEW a \in Addresses
    PROVE  TagIn(memranges_update_tag(l, old, new), a)
             = IF TagIn(l, a) = old THEN new ELSE TagIn(l, a)
<1> DEFINE res == memranges_update_tag(l, old, new)
<1>1. a \in Int
  BY Constants DEF Addresses
<1>2. Sound(res) /\ \A t \in Tags : Gives(res, a, t) <=> \/ t = new /\ Gives(l, a, old)
                                                         \/ t # old /\ Gives(l, a, t)
  BY <1>1, UpdateStep
<1> HIDE DEF res
<1>3. CASE TagIn(l, a) = old
  BY <1>2, <1>3, TagFact DEF res
<1>4. CASE TagIn(l, a) # old
  <2>1. ~Gives(l, a, old)
    BY <1>4, TagFact
  <2>2. \A t \in Tags : Gives(res, a, t) <=> Gives(l, a, t)
    BY <1>2, <2>1
  <2> QED BY <1>2, <1>4, <2>2, SameTag DEF res
<1> QED BY <1>3, <1>4

LEMMA FillPaint ==
    ASSUME IInv, NEW limit \in Addresses, limit % PAGE = 0, NEW tag \in Tags,
           Fillable(limit), NEW a \in Addresses
    PROVE  TagIn(memranges_fill_holes_up_to(entries, limit, tag), a)
             = IF a < limit /\ TagIn(entries, a) = None THEN tag ELSE TagIn(entries, a)
<1> DEFINE res == memranges_fill_holes_up_to(entries, limit, tag)
<1>1. /\ Sound(res)
      /\ \A t \in Tags : Gives(res, a, t) <=> \/ Gives(entries, a, t)
                                              \/ t = tag /\ a < limit /\ Unused(entries, a)
  BY FillStep
<1>2. Sound(entries)
  BY DEF IInv
<1> HIDE DEF res
<1>3. TagIn(entries, a) = None <=> Unused(entries, a)
  BY <1>2, TagFact
<1>4. CASE a < limit /\ Unused(entries, a)
  <2>1. Gives(res, a, tag)
    BY <1>1, <1>4
  <2> QED BY <1>1, <1>3, <1>4, <2>1, TagFact DEF res
<1>5. CASE ~(a < limit /\ Unused(entries, a))
  <2>1. \A t \in Tags : Gives(res, a, t) <=> Gives(entries, a, t)
    BY <1>1, <1>5
  <2> QED BY <1>1, <1>2, <1>3, <1>5, <2>1, SameTag DEF res
<1> QED BY <1>4, <1>5

LEMMA EmptyPaint == \A a : TagIn(<<>>, a) = None
BY DEF TagIn, Covering

Paint(l) == [a \in Addresses |-> TagIn(l, a)]

\* The list of memrange.c is a map from addresses to tags in which the
\* latest call that covers an address decides: PageMap is what memrange.h
\* promises, and every call of memrange.c keeps the promise, for every page
\* size, address space and set of tags.
THEOREM ListIsTheMap == RangesSpec => ImplementsMap
<1> DEFINE paint == [a \in Addresses |-> Tag(a)]
<1>0. paint = Paint(entries) /\ paint' = Paint(entries')
  BY DEF Tag, Paint, TagIn, Covering
<1>1. RangesInit => P!Blank
  BY <1>0, EmptyPaint DEF RangesInit, P!Blank, Paint
<1>2. IInv /\ [RangesNext]_ranges_vars => [paint' = P!Effect(call')]_<<paint, call>>
  <2> SUFFICES ASSUME IInv, [RangesNext]_ranges_vars
               PROVE  [paint' = P!Effect(call')]_<<paint, call>>
    OBVIOUS
  <2>0. Sound(entries)
    BY DEF IInv
  <2> DEFINE Brushed(S, t) == [a \in Addresses |-> IF a \in S THEN t ELSE Paint(entries)[a]]
  <2>1. ASSUME NEW b \in Bases, NEW s \in Sizes, CreateHole(b, s)
        PROVE  paint' = P!Effect(call')
    <3>1. P!Effect(call') = Brushed(P!Touched(b, s), None)
      BY <1>0, <2>1 DEF CreateHole, P!Effect, P!Brush
    <3>2. Paint(entries') = Brushed(P!Touched(b, s), None)
      BY <2>0, <2>1, HolePaint DEF CreateHole, Paint
    <3> QED BY <1>0, <3>1, <3>2
  <2>2. ASSUME NEW b \in Bases, NEW s \in Sizes, NEW t \in Tags, Insert(b, s, t)
        PROVE  paint' = P!Effect(call')
    <3>1. P!Effect(call') = Brushed(P!Touched(b, s), t)
      BY <1>0, <2>2 DEF Insert, P!Effect, P!Brush
    <3>2. Paint(entries') = Brushed(P!Touched(b, s), t)
      BY <2>0, <2>2, InsertPaint DEF Insert, Paint
    <3> QED BY <1>0, <3>1, <3>2
  <2>3. ASSUME NEW s \in Tags, NEW t \in Tags, UpdateTag(s, t)
        PROVE  paint' = P!Effect(call')
    <3>1. P!Effect(call') = Brushed({a \in Addresses : Paint(entries)[a] = s}, t)
      BY <1>0, <2>3 DEF UpdateTag, P!Effect, P!Brush
    <3>2. Paint(entries') = Brushed({a \in Addresses : Paint(entries)[a] = s}, t)
      BY <2>0, <2>3, UpdatePaint DEF UpdateTag, Paint
    <3> QED BY <1>0, <3>1, <3>2
  <2>4. ASSUME NEW l \in Addresses, NEW t \in Tags, l % PAGE = 0, FillHolesUpTo(l, t)
        PROVE  paint' = P!Effect(call')
    <3>1. P!Effect(call') = Brushed({a \in Addresses : a < l /\ Paint(entries)[a] = None}, t)
      BY <1>0, <2>4 DEF FillHolesUpTo, P!Effect, P!Brush
    <3>2. Paint(entries') = Brushed({a \in Addresses : a < l /\ Paint(entries)[a] = None}, t)
      BY <2>4, FillPaint DEF FillHolesUpTo, Paint
    <3> QED BY <1>0, <3>1, <3>2
  <2>5. CASE Teardown
    <3>1. P!Effect(call') = Brushed(Addresses, None)
      BY <1>0, <2>5 DEF Teardown, P!Effect, P!Brush
    <3>2. Paint(entries') = Brushed(Addresses, None)
      BY <2>5, EmptyPaint DEF Teardown, Paint
    <3> QED BY <1>0, <3>1, <3>2
  <2>6. CASE UNCHANGED ranges_vars
    <3>1. paint' = paint /\ call' = call
      BY <1>0, <2>6 DEF ranges_vars
    <3> QED BY <3>1
  <2> HIDE DEF paint
  <2> QED BY <2>1, <2>2, <2>3, <2>4, <2>5, <2>6, StepFact
<1> QED BY <1>1, <1>2, Invariance, PTL DEF RangesSpec, ImplementsMap, P!Painting, paint
-----------------------------------------------------------------------------
(* The boot memory map of SelfBoot *)

\* An inserted area covers itself, and nothing else if it is of whole pages.
LEMMA AreaPages ==
    ASSUME NEW base \in Nat, NEW size \in Nat \ {0}
    PROVE  /\ \A a \in Int : base <= a /\ a <= base + size - 1
                                => Begin(base) <= a /\ a <= End(base, size)
           /\ base % PAGE = 0 /\ size % PAGE = 0
                => Begin(base) = base /\ End(base, size) = base + size - 1
<1> DEFINE q == base \div PAGE
           n == base + size - 1
           u == n \div PAGE
           B == PAGE * q
           T == PAGE * u
<1>1. PAGE \in Nat \ {0} /\ n \in Nat
  BY Constants
<1>2. /\ q \in Nat /\ base = B + (base % PAGE) /\ base % PAGE \in 0 .. PAGE - 1
      /\ u \in Nat /\ n = T + (n % PAGE) /\ n % PAGE \in 0 .. PAGE - 1
  BY <1>1, Division
<1>3. Begin(base) = B /\ End(base, size) = PAGE * (u + 1) - 1
  BY PageBounds
<1>4. B \in Int /\ T \in Int /\ PAGE * (u + 1) = T + PAGE
  BY <1>1, <1>2, Product
<1>5. ASSUME NEW a \in Int, base <= a, a <= n PROVE B <= a /\ a <= PAGE * (u + 1) - 1
  <2> HIDE DEF B, T, n, u, q
  <2>1. B <= a
    BY <1>1, <1>2, <1>4, <1>5
  <2>2. a <= (T + PAGE) - 1
    BY <1>1, <1>2, <1>4, <1>5
  <2> QED BY <1>4, <2>1, <2>2
<1>6. ASSUME base % PAGE = 0, size % PAGE = 0
      PROVE  B = base /\ PAGE * (u + 1) - 1 = n
  <2> DEFINE s == size \div PAGE
             w == PAGE * s
  <2>1. s \in Nat /\ size = w + (size % PAGE)
    BY <1>1, Division
  <2>2. B = base
    BY <1>2, <1>4, <1>6
  <2>3. size = w /\ w \in Int
    BY <1>1, <1>6, <2>1
  <2>4. s # 0
    BY <1>1, <2>3
  <2>5. q + s - 1 \in Nat /\ PAGE - 1 \in 0 .. PAGE - 1
    BY <1>1, <1>2, <2>1, <2>4
  <2>6. PAGE * (q + s - 1) + (PAGE - 1) = n
    <3>1. PAGE * (q + s - 1) = PAGE * q + PAGE * s - PAGE
      BY <1>1, <1>2, <2>1
    <3> QED BY <1>1, <1>4, <2>2, <2>3, <3>1
  <2>7. u = q + s - 1
    <3> DEFINE x == q + s - 1
               y == PAGE - 1
    <3>1. x \in Nat /\ y \in 0 .. PAGE - 1
      BY <2>5
    <3> HIDE DEF x, y
    <3>2. (PAGE * x + y) \div PAGE = x
      BY <1>1, <3>1, Quotient
    <3> QED BY <2>6, <3>2 DEF x, y
  <2>8. PAGE * (u + 1) = PAGE * q + PAGE * s
    BY <1>1, <1>2, <2>1, <2>7
  <2> QED BY <1>1, <1>2, <1>4, <2>2, <2>3, <2>8
<1> QED BY <1>3, <1>5, <1>6

\* The areas bootmem_init and write_coreboot_table insert, with their tags.
Insertion == (Nat \X Nat) \X Tags

\* w is s and behind it t.
Join(w, s, t) ==
    /\ w \in Seq(Insertion) /\ Len(w) = Len(s) + Len(t)
    /\ \A i \in 1 .. Len(s) : w[i] = s[i]
    /\ \A i \in 1 .. Len(t) : w[Len(s) + i] = t[i]

\* The parts of a list that is put together.
LEMMA JoinFact ==
    ASSUME NEW s \in Seq(Insertion), NEW t \in Seq(Insertion)
    PROVE  Join(s \o t, s, t)
<1> DEFINE E == Insertion
<1>1. s \in Seq(E) /\ t \in Seq(E)
  OBVIOUS
<1> HIDE DEF E
<1>2. /\ s \o t \in Seq(E) /\ Len(s \o t) = Len(s) + Len(t)
      /\ \A i \in 1 .. Len(s) : (s \o t)[i] = s[i]
      /\ \A i \in 1 .. Len(t) : (s \o t)[Len(s) + i] = t[i]
  BY <1>1
<1> QED BY <1>2 DEF Join, E

\* A list of resources, each with the tag of its kind.
LEMMA MarkedFact ==
    ASSUME NEW areas \in Seq(Nat \X Nat), NEW tag \in Tags
    PROVE  /\ [i \in DOMAIN areas |-> <<areas[i], tag>>] \in Seq(Insertion)
           /\ Len([i \in DOMAIN areas |-> <<areas[i], tag>>]) = Len(areas)
<1> DEFINE s == [i \in 1 .. Len(areas) |-> <<areas[i], tag>>]
<1>1. Len(areas) \in Nat /\ DOMAIN areas = 1 .. Len(areas)
  OBVIOUS
<1>2. \A i \in 1 .. Len(areas) : <<areas[i], tag>> \in Insertion
  BY DEF Insertion
<1>3. s \in Seq(Insertion)
  BY <1>1, <1>2
<1>4. Len(s) = Len(areas)
  BY <1>1
<1> QED BY <1>1, <1>3, <1>4

\* RAM comes first, then all that takes memory away from it.
LEMMA PlanFact ==
    /\ bootmem_plan \in Seq(Insertion) /\ Len(bootmem_plan) \in Nat
    /\ \A k \in 1 .. Len(bootmem_plan) :
          IF k <= Len(Cacheable) THEN bootmem_plan[k] = <<Cacheable[k], RAM>>
                                 ELSE bootmem_plan[k][2] # RAM /\ bootmem_plan[k][1] \in Taken
    /\ Len(Cacheable) \in Nat /\ Len(Cacheable) <= Len(bootmem_plan)
    /\ \A i \in 1 .. Len(Reserved) :
          \E k \in Len(Cacheable) + 1 .. Len(bootmem_plan) : bootmem_plan[k][1] = Reserved[i]
    /\ \A a \in {CbmemArea, LowTables} :
          \E k \in Len(Cacheable) + 1 .. Len(bootmem_plan) : bootmem_plan[k][1] = a
    /\ RomTables[1] + RomTables[2] <= one_meg =>
          \E k \in Len(Cacheable) + 1 .. Len(bootmem_plan) : bootmem_plan[k][1] = RomTables
<1> DEFINE A == [i \in DOMAIN Cacheable |-> <<Cacheable[i], RAM>>]
           B == [i \in DOMAIN Reserved |-> <<Reserved[i], RESERVED>>]
           C == << <<CbmemArea, TABLE>>, <<LowTables, TABLE>> >>
           D == IF RomTables[1] + RomTables[2] <= one_meg
                THEN << <<RomTables, TABLE>> >> ELSE <<>>
           c == Len(Cacheable)
           r == Len(Reserved)
<1>1. /\ RAM \in Tags /\ RESERVED \in Tags /\ TABLE \in Tags
      /\ Cacheable \in Seq(Nat \X Nat) /\ Reserved \in Seq(Nat \X Nat)
      /\ CbmemArea \in Nat \X Nat /\ LowTables \in Nat \X Nat /\ RomTables \in Nat \X Nat
  BY AreasAssumption
<1>2. A \in Seq(Insertion) /\ Len(A) = c /\ B \in Seq(Insertion) /\ Len(B) = r
  BY <1>1, MarkedFact
<1>3. /\ DOMAIN Cacheable = 1 .. c /\ DOMAIN Reserved = 1 .. r /\ c \in Nat /\ r \in Nat
  BY <1>1
<1>4. /\ \A i \in 1 .. c : A[i] = <<Cacheable[i], RAM>>
      /\ \A i \in 1 .. r : B[i] = <<Reserved[i], RESERVED>>
  BY <1>3
<1>5. C \in Seq(Insertion) /\ Len(C) = 2 /\ C[1] = <<CbmemArea, TABLE>> /\ C[2] = <<LowTables, TABLE>>
  BY <1>1 DEF Insertion
<1>6. /\ D \in Seq(Insertion) /\ Len(D) \in {0, 1}
      /\ \A i \in 1 .. Len(D) : D[i] = <<RomTables, TABLE>>
      /\ RomTables[1] + RomTables[2] <= one_meg => Len(D) = 1
  <2>1. CASE RomTables[1] + RomTables[2] <= one_meg
    <3>1. D = << <<RomTables, TABLE>> >>
      BY <2>1
    <3>2. <<RomTables, TABLE>> \in Insertion
      BY <1>1 DEF Insertion
    <3> HIDE DEF D
    <3> QED BY <3>1, <3>2
  <2>2. CASE ~(RomTables[1] + RomTables[2] <= one_meg)
    <3>1. D = <<>>
      BY <2>2
    <3> HIDE DEF D
    <3> QED BY <2>2, <3>1
  <2> QED BY <2>1, <2>2
<1>7. bootmem_plan = A \o B \o C \o D
  BY DEF bootmem_plan
<1>8. RAM # RESERVED /\ RAM # TABLE
  BY DEF RAM, RESERVED, TABLE
<1> HIDE DEF A, B, C, D, c, r
<1> DEFINE F == A \o B
           G == F \o C
           p == bootmem_plan
           n == c + r + 2
<1>9. Join(F, A, B)
  BY <1>2, JoinFact
<1>10. Join(G, F, C)
  BY <1>5, <1>9, JoinFact DEF Join
<1>11. Join(p, G, D)
  <2>1. G \in Seq(Insertion)
    BY <1>10 DEF Join
  <2> QED BY <1>6, <1>7, <2>1, JoinFact
<1> HIDE DEF F, G, p
<1>12. Len(F) = c + r /\ Len(G) = n /\ Len(p) = n + Len(D)
  <2>1. Len(F) = c + r
    BY <1>2, <1>9 DEF Join
  <2>2. Len(G) = n
    BY <1>5, <1>10, <2>1 DEF Join
  <2> QED BY <1>11, <2>1, <2>2 DEF Join
<1>13. /\ \A i \in 1 .. c : F[i] = <<Cacheable[i], RAM>>
       /\ \A i \in 1 .. r : F[c + i] = <<Reserved[i], RESERVED>>
  BY <1>2, <1>4, <1>9 DEF Join
<1>14. /\ \A i \in 1 .. c + r : G[i] = F[i]
       /\ G[c + r + 1] = <<CbmemArea, TABLE>> /\ G[c + r + 2] = <<LowTables, TABLE>>
  <2>1. 1 \in 1 .. Len(C) /\ 2 \in 1 .. Len(C)
    BY <1>5
  <2>2. G[Len(F) + 1] = C[1] /\ G[Len(F) + 2] = C[2]
    BY <1>10, <2>1 DEF Join
  <2> QED BY <1>5, <1>10, <1>12, <2>2 DEF Join
<1>15. /\ p \in Seq(Insertion)
       /\ \A i \in 1 .. n : p[i] = G[i]
       /\ \A i \in 1 .. Len(D) : p[n + i] = D[i]
  BY <1>11, <1>12 DEF Join
<1>16. n \in Nat /\ n = c + r + 2 /\ Len(p) \in {n, n + 1} /\ Len(p) \in Nat
  <2>1. n \in Nat /\ n = c + r + 2
    BY <1>3
  <2> HIDE DEF n
  <2>2. Len(p) = n + Len(D) /\ (Len(D) = 0 \/ Len(D) = 1)
    BY <1>6, <1>12 DEF n
  <2> DEFINE l == Len(p)
             d == Len(D)
  <2>3. l = n + d /\ (d = 0 \/ d = 1)
    BY <2>2
  <2> HIDE DEF l, d
  <2>4. (l = n \/ l = n + 1) /\ l \in Nat
    BY <2>1, <2>3
  <2>5. l \in {n, n + 1}
    BY <2>4
  <2> QED BY <2>1, <2>4, <2>5 DEF l
<1> HIDE DEF n
<1>17. /\ \A i \in 1 .. c : p[i] = <<Cacheable[i], RAM>>
       /\ \A i \in 1 .. r : p[c + i] = <<Reserved[i], RESERVED>>
       /\ p[c + r + 1] = <<CbmemArea, TABLE>> /\ p[c + r + 2] = <<LowTables, TABLE>>
       /\ Len(D) = 1 => p[c + r + 3] = <<RomTables, TABLE>>
  <2>1. \A i \in 1 .. c : i \in 1 .. n /\ i \in 1 .. c + r
    BY <1>3, <1>16
  <2>2. \A i \in 1 .. r : c + i \in 1 .. n /\ c + i \in 1 .. c + r
    BY <1>3, <1>16
  <2>3. c + r + 1 \in 1 .. n /\ c + r + 2 \in 1 .. n /\ n + 1 = c + r + 3
    BY <1>3, <1>16
  <2>4. \A i \in 1 .. c : p[i] = <<Cacheable[i], RAM>>
    BY <1>13, <1>14, <1>15, <2>1
  <2>5. \A i \in 1 .. r : p[c + i] = <<Reserved[i], RESERVED>>
    BY <1>13, <1>14, <1>15, <2>2
  <2>6. p[c + r + 1] = <<CbmemArea, TABLE>> /\ p[c + r + 2] = <<LowTables, TABLE>>
    BY <1>14, <1>15, <2>3
  <2>7. ASSUME Len(D) = 1 PROVE p[c + r + 3] = <<RomTables, TABLE>>
    <3>1. 1 \in 1 .. Len(D)
      BY <2>7
    <3> QED BY <1>6, <1>15, <2>3, <3>1
  <2> QED BY <2>4, <2>5, <2>6, <2>7
<1>18. ASSUME NEW k \in 1 .. Len(p)
       PROVE  IF k <= c THEN p[k] = <<Cacheable[k], RAM>> ELSE p[k][2] # RAM /\ p[k][1] \in Taken
  <2>1. CASE k <= c
    <3>1. k \in 1 .. c
      BY <1>3, <2>1
    <3> QED BY <1>17, <2>1, <3>1
  <2>2. CASE c < k /\ k <= c + r
    <3>1. k - c \in 1 .. r /\ c + (k - c) = k
      BY <1>3, <2>2
    <3>2. p[c + (k - c)] = <<Reserved[k - c], RESERVED>>
      BY <1>17, <3>1
    <3>3. p[k] = <<Reserved[k - c], RESERVED>>
      BY <3>1, <3>2
    <3>4. Reserved[k - c] \in Taken
      BY <1>3, <3>1 DEF Taken
    <3> QED BY <1>3, <1>8, <2>2, <3>3, <3>4
  <2>3. CASE k = c + r + 1 \/ k = c + r + 2
    <3>1. CbmemArea \in Taken /\ LowTables \in Taken
      BY DEF Taken
    <3>2. p[k][2] # RAM /\ p[k][1] \in Taken
      BY <1>8, <1>17, <2>3, <3>1
    <3> QED BY <1>3, <2>3, <3>2
  <2>4. CASE k = c + r + 3
    <3>1. Len(D) = 1
      BY <1>3, <1>6, <1>12, <1>16, <2>4
    <3>2. RomTables[1] + RomTables[2] <= one_meg
      BY <1>6, <3>1 DEF D
    <3>3. RomTables \in Taken
      BY <3>2 DEF Taken
    <3> QED BY <1>3, <1>8, <1>17, <2>4, <3>1, <3>3
  <2> QED BY <1>3, <1>16, <2>1, <2>2, <2>3, <2>4
<1>19. ASSUME NEW i \in 1 .. r PROVE \E k \in c + 1 .. Len(p) : p[k][1] = Reserved[i]
  <2>1. c + i \in c + 1 .. Len(p)
    BY <1>3, <1>16
  <2>2. p[c + i][1] = Reserved[i]
    BY <1>17
  <2> QED BY <2>1, <2>2
<1>20. /\ c + r + 1 \in c + 1 .. Len(p) /\ c + r + 2 \in c + 1 .. Len(p)
       /\ p[c + r + 1][1] = CbmemArea /\ p[c + r + 2][1] = LowTables
  BY <1>3, <1>16, <1>17
<1>21. ASSUME RomTables[1] + RomTables[2] <= one_meg
       PROVE  \E k \in c + 1 .. Len(p) : p[k][1] = RomTables
  <2>1. Len(D) = 1
    BY <1>6, <1>21
  <2>2. c + r + 3 \in c + 1 .. Len(p) /\ p[c + r + 3][1] = RomTables
    BY <1>3, <1>12, <1>16, <1>17, <2>1
  <2> QED BY <2>2
<1>22. c <= Len(p)
  BY <1>3, <1>16
<1> QED BY <1>3, <1>15, <1>16, <1>18, <1>19, <1>20, <1>21, <1>22 DEF p, c, r

\* The RAM of the first n - 1 insertions, and what the others of them take.
RamBefore(n, a) ==
    \E k \in 1 .. n - 1 : bootmem_plan[k][2] = RAM /\ a \in Area(bootmem_plan[k][1])
TakenBefore(n, a) ==
    \E k \in 1 .. n - 1 : bootmem_plan[k][2] # RAM /\ a \in Pages(bootmem_plan[k][1])

\* A list that calls RAM exactly what is RAM and not taken.
TrueBefore(l, n) ==
    \A a \in Int : Gives(l, a, RAM) <=> RamBefore(n, a) /\ ~TakenBefore(n, a)

\* A well-formed list of ranges of the memory.
Proper(l) ==
    /\ l \in List /\ Sorted(l) /\ Ended(l)
    /\ \A a \in Int, t \in Tags : Gives(l, a, t) => a \in Cells

\* The inductive invariant: the map is true as far as it is filled, and the
\* table for the payload is the whole map.
MapInv ==
    /\ pc = "tables" => /\ ptr \in 1 .. Len(bootmem_plan) + 1
                        /\ Proper(bootmem) /\ TrueBefore(bootmem, ptr)
    /\ pc # "tables" => Proper(table) /\ TrueBefore(table, Len(bootmem_plan) + 1)

\* The pages of an area.
LEMMA PagesFact ==
    ASSUME NEW x \in Nat \X Nat
    PROVE  /\ x[2] = 0 => Pages(x) = {} /\ Area(x) = {}
           /\ x[2] # 0 => \A a \in Int : a \in Pages(x) <=> Begin(x[1]) <= a /\ a <= End(x[1], x[2])
           /\ Area(x) \subseteq Pages(x)
           /\ x[1] % PAGE = 0 /\ x[2] % PAGE = 0 => Pages(x) = Area(x)
<1> DEFINE base == x[1]
           size == x[2]
<1>1. base \in Nat /\ size \in Nat /\ Area(x) = base .. base + size - 1
  BY DEF Area
<1> HIDE DEF base, size
<1>2. CASE size = 0
  <2>1. Area(x) = {} /\ Pages(x) = {}
    BY <1>1, <1>2 DEF Pages, size
  <2> QED BY <1>2, <2>1 DEF size
<1>3. CASE size # 0
  <2> DEFINE b == Begin(base)
             e == End(base, size)
  <2>1. size \in Nat \ {0}
    BY <1>1, <1>3
  <2>2. b \in Nat /\ e \in Nat
    BY <1>1, <2>1, PageBounds
  <2>3. /\ \A a \in Int : base <= a /\ a <= base + size - 1 => b <= a /\ a <= e
        /\ base % PAGE = 0 /\ size % PAGE = 0 => b = base /\ e = base + size - 1
    BY <1>1, <2>1, AreaPages
  <2>4. Pages(x) = b .. e
    BY <1>3 DEF Pages, base, size
  <2> HIDE DEF b, e
  <2>5. Area(x) \subseteq Pages(x)
    <3>1. ASSUME NEW a \in base .. base + size - 1 PROVE a \in b .. e
      <4>1. a \in Int /\ base <= a /\ a <= base + size - 1
        BY <1>1
      <4> QED BY <2>2, <2>3, <4>1
    <3> QED BY <1>1, <2>4, <3>1
  <2>6. \A a \in Int : a \in Pages(x) <=> b <= a /\ a <= e
    BY <2>2, <2>4
  <2>7. base % PAGE = 0 /\ size % PAGE = 0 => Pages(x) = Area(x)
    BY <1>1, <2>3, <2>4
  <2> QED BY <1>3, <2>5, <2>6, <2>7 DEF b, e, base, size
<1> QED BY <1>2, <1>3

\* An insertion gives the pages of the area their new tag.
LEMMA InsertProper ==
    ASSUME NEW l, Proper(l), NEW base \in Nat, NEW size \in Nat \ {0}, base + size <= TOP,
           NEW tag \in Tags, NEW m, m = bootmem_add_range(l, base, size, tag)
    PROVE  /\ Proper(m)
           /\ \A a \in Int, t \in Tags :
                 Gives(m, a, t) <=> IF Begin(base) <= a /\ a <= End(base, size)
                                    THEN t = tag ELSE Gives(l, a, t)
<1> DEFINE b == Begin(base)
           e == End(base, size)
<1>1. m = merge_add_memranges(l, b, e, tag)
  BY DEF bootmem_add_range, memranges_insert
<1>2. TOP \in Nat /\ TOP % PAGE = 0
  BY AreasAssumption, MemoryAssumption
<1>3. b \in Nat /\ e \in Nat /\ b % PAGE = 0 /\ (e + 1) % PAGE = 0 /\ b <= e
  BY PageBounds, Zenon
<1>4. e < TOP
  BY <1>2, PagesBelow
<1> HIDE DEF b, e
<1>5. b \in Int /\ e \in Int
  BY <1>3
<1>6. l \in List /\ Sorted(l) /\ \A a \in Int, t \in Tags : Gives(l, a, t) => a \in Cells
  BY DEF Proper
<1>7. /\ m \in List /\ Sorted(m) /\ Ended(m)
      /\ \A a \in Int, t \in Tags :
            Gives(m, a, t) <=> IF b <= a /\ a <= e THEN t = tag ELSE Gives(l, a, t)
  BY <1>1, <1>3, <1>5, <1>6, InsertSound
<1>8. ASSUME NEW a \in Int, NEW t \in Tags, Gives(m, a, t) PROVE a \in Cells
  <2>1. CASE b <= a /\ a <= e
    BY <1>2, <1>3, <1>4, <2>1 DEF Cells
  <2>2. CASE ~(b <= a /\ a <= e)
    BY <1>6, <1>7, <1>8, <2>2
  <2> QED BY <2>1, <2>2
<1> QED BY <1>7, <1>8 DEF Proper, b, e

\* Each insertion has a base, a size and a tag, and lies within the memory.
LEMMA PartOfPlan ==
    ASSUME NEW k \in 1 .. Len(bootmem_plan)
    PROVE  /\ bootmem_plan[k][1] \in Nat \X Nat /\ bootmem_plan[k][2] \in Tags
           /\ bootmem_plan[k][1][1] \in Nat /\ bootmem_plan[k][1][2] \in Nat
           /\ bootmem_plan[k][1][1] + bootmem_plan[k][1][2] <= TOP
<1>1. bootmem_plan[k] \in Insertion
  BY PlanFact
<1>2. /\ bootmem_plan[k][1] \in Nat \X Nat /\ bootmem_plan[k][2] \in Tags
      /\ bootmem_plan[k][1][1] \in Nat /\ bootmem_plan[k][1][2] \in Nat
  BY <1>1 DEF Insertion
<1>3. bootmem_plan[k][1][1] + bootmem_plan[k][1][2] <= TOP
  <2>1. CASE k <= Len(Cacheable)
    <3>1. DOMAIN Cacheable = 1 .. Len(Cacheable) /\ Len(Cacheable) \in Nat
      BY AreasAssumption
    <3>2. k \in DOMAIN Cacheable
      BY <2>1, <3>1
    <3>3. bootmem_plan[k][1] = Cacheable[k]
      BY <2>1, PlanFact
    <3> QED BY <3>2, <3>3, MemoryAssumption
  <2>2. CASE ~(k <= Len(Cacheable))
    BY <2>2, PlanFact, MemoryAssumption
  <2> QED BY <2>1, <2>2
<1> QED BY <1>2, <1>3

\* What the k-th insertion adds to what was there and what was taken.
LEMMA PlanStep ==
    ASSUME NEW k \in 1 .. Len(bootmem_plan), NEW a
    PROVE  /\ RamBefore(k + 1, a)
                <=> RamBefore(k, a)
                    \/ (bootmem_plan[k][2] = RAM /\ a \in Area(bootmem_plan[k][1]))
           /\ TakenBefore(k + 1, a)
                <=> TakenBefore(k, a)
                    \/ (bootmem_plan[k][2] # RAM /\ a \in Pages(bootmem_plan[k][1]))
<1>1. k \in Nat /\ 1 .. (k + 1) - 1 = (1 .. k - 1) \cup {k}
  BY PlanFact
<1> QED BY <1>1 DEF RamBefore, TakenBefore

\* While RAM is inserted nothing is taken yet, and RAM comes in whole pages.
LEMMA RamFirst ==
    ASSUME NEW k \in 1 .. Len(bootmem_plan), bootmem_plan[k][2] = RAM
    PROVE  /\ \A a : ~TakenBefore(k + 1, a)
           /\ Pages(bootmem_plan[k][1]) = Area(bootmem_plan[k][1])
<1>1. Len(Cacheable) \in Nat /\ Len(bootmem_plan) \in Nat
  BY PlanFact
<1>2. k <= Len(Cacheable)
  BY PlanFact
<1>3. ASSUME NEW j \in 1 .. (k + 1) - 1 PROVE bootmem_plan[j][2] = RAM
  <2>1. j \in 1 .. Len(bootmem_plan) /\ j <= Len(Cacheable)
    BY <1>1, <1>2
  <2>2. bootmem_plan[j] = <<Cacheable[j], RAM>>
    BY <2>1, PlanFact
  <2> QED BY <2>2
<1>4. bootmem_plan[k] = <<Cacheable[k], RAM>> /\ k \in 1 .. Len(Cacheable)
  BY <1>1, <1>2, PlanFact
<1>5. Cacheable[k] \in Nat \X Nat /\ Cacheable[k][1] % PAGE = 0 /\ Cacheable[k][2] % PAGE = 0
  BY <1>4, AreasAssumption
<1>6. Pages(Cacheable[k]) = Area(Cacheable[k])
  BY <1>5, PagesFact
<1> QED BY <1>3, <1>4, <1>6 DEF TakenBefore

\* One more insertion keeps the map true.
LEMMA InsertionTrue ==
    ASSUME NEW l, Proper(l), NEW k \in 1 .. Len(bootmem_plan), TrueBefore(l, k),
           bootmem_plan[k][1][2] # 0,
           NEW m, m = bootmem_add_range(l, bootmem_plan[k][1][1], bootmem_plan[k][1][2],
                                        bootmem_plan[k][2])
    PROVE  Proper(m) /\ TrueBefore(m, k + 1)
<1> DEFINE x == bootmem_plan[k][1]
           base == x[1]
           size == x[2]
           tag == bootmem_plan[k][2]
<1>1. x \in Nat \X Nat /\ base \in Nat /\ size \in Nat \ {0} /\ tag \in Tags /\ base + size <= TOP
  BY PartOfPlan
<1>2. RAM \in Tags
  BY AreasAssumption
<1>3. /\ Proper(m)
      /\ \A a \in Int, t \in Tags :
            Gives(m, a, t) <=> IF Begin(base) <= a /\ a <= End(base, size)
                               THEN t = tag ELSE Gives(l, a, t)
  BY <1>1, InsertProper
<1>4. \A a \in Int : a \in Pages(x) <=> Begin(base) <= a /\ a <= End(base, size)
  BY <1>1, PagesFact
<1>5. /\ tag = RAM => Pages(x) = Area(x)
      /\ tag = RAM => \A a : ~TakenBefore(k + 1, a)
  BY RamFirst
<1>6. ASSUME NEW a \in Int
      PROVE  Gives(m, a, RAM) <=> RamBefore(k + 1, a) /\ ~TakenBefore(k + 1, a)
  <2>1. Gives(m, a, RAM) <=> IF a \in Pages(x) THEN RAM = tag ELSE Gives(l, a, RAM)
    BY <1>2, <1>3, <1>4
  <2>2. Gives(l, a, RAM) <=> RamBefore(k, a) /\ ~TakenBefore(k, a)
    BY DEF TrueBefore
  <2>3. /\ RamBefore(k + 1, a) <=> RamBefore(k, a) \/ (tag = RAM /\ a \in Area(x))
        /\ TakenBefore(k + 1, a) <=> TakenBefore(k, a) \/ (tag # RAM /\ a \in Pages(x))
    BY PlanStep
  <2> HIDE DEF tag, x
  <2>4. CASE tag = RAM
    BY <1>5, <2>1, <2>2, <2>3, <2>4
  <2>5. CASE tag # RAM
    BY <2>1, <2>2, <2>3, <2>5
  <2> QED BY <2>4, <2>5
<1> QED BY <1>3, <1>6 DEF TrueBefore

\* An area without a size takes nothing.
LEMMA EmptyInsertion ==
    ASSUME NEW l, NEW k \in 1 .. Len(bootmem_plan), TrueBefore(l, k),
           bootmem_plan[k][1][2] = 0
    PROVE  TrueBefore(l, k + 1)
<1>1. Area(bootmem_plan[k][1]) = {} /\ Pages(bootmem_plan[k][1]) = {}
  BY PartOfPlan, PagesFact
<1> QED BY <1>1, PlanStep DEF TrueBefore

\* The whole map calls RAM what is free.
LEMMA WholeMap ==
    ASSUME NEW l, Proper(l), TrueBefore(l, Len(bootmem_plan) + 1), NEW a \in Int
    PROVE  Gives(l, a, RAM) <=> a \in FreeRam
<1> DEFINE n == Len(bootmem_plan)
           c == Len(Cacheable)
<1>1. n \in Nat /\ c \in Nat /\ c <= n /\ 1 .. (n + 1) - 1 = 1 .. n
  BY PlanFact
<1>2. DOMAIN Cacheable = 1 .. c /\ DOMAIN Reserved = 1 .. Len(Reserved) /\ RAM \in Tags
  BY AreasAssumption
<1>3. Gives(l, a, RAM) <=> RamBefore(n + 1, a) /\ ~TakenBefore(n + 1, a)
  BY DEF TrueBefore
<1>4. Gives(l, a, RAM) => a \in Cells
  BY <1>2 DEF Proper
<1>5. ASSUME NEW k \in 1 .. n
      PROVE  /\ k <= c => bootmem_plan[k] = <<Cacheable[k], RAM>>
             /\ ~(k <= c) => bootmem_plan[k][2] # RAM /\ bootmem_plan[k][1] \in Taken
  BY PlanFact
<1>6. RamBefore(n + 1, a) <=> \E i \in DOMAIN Cacheable : a \in Area(Cacheable[i])
  <2>1. ASSUME NEW k \in 1 .. n, bootmem_plan[k][2] = RAM, a \in Area(bootmem_plan[k][1])
        PROVE  \E i \in DOMAIN Cacheable : a \in Area(Cacheable[i])
    <3>1. k <= c /\ k \in DOMAIN Cacheable
      BY <1>1, <1>2, <1>5, <2>1
    <3> QED BY <1>5, <2>1, <3>1
  <2>2. ASSUME NEW i \in DOMAIN Cacheable, a \in Area(Cacheable[i])
        PROVE  i \in 1 .. n /\ bootmem_plan[i][2] = RAM /\ a \in Area(bootmem_plan[i][1])
    <3>1. i \in 1 .. n /\ i <= c
      BY <1>1, <1>2
    <3> QED BY <1>5, <2>2, <3>1
  <2> QED BY <1>1, <2>1, <2>2 DEF RamBefore
<1>7. TakenBefore(n + 1, a) <=> \E t \in Taken : a \in Pages(t)
  <2>1. ASSUME NEW k \in 1 .. n, bootmem_plan[k][2] # RAM, a \in Pages(bootmem_plan[k][1])
        PROVE  \E t \in Taken : a \in Pages(t)
    BY <1>5, <2>1
  <2>2. ASSUME NEW t \in Taken
        PROVE  \E k \in c + 1 .. n : bootmem_plan[k][1] = t
    BY <1>2, PlanFact DEF Taken
  <2>3. ASSUME NEW t \in Taken, a \in Pages(t)
        PROVE  \E k \in 1 .. n : bootmem_plan[k][2] # RAM /\ a \in Pages(bootmem_plan[k][1])
    <3>1. PICK k \in c + 1 .. n : bootmem_plan[k][1] = t
      BY <2>2
    <3>2. k \in 1 .. n /\ ~(k <= c)
      BY <1>1
    <3> QED BY <1>5, <2>3, <3>1, <3>2
  <2> QED BY <1>1, <2>1, <2>3 DEF TakenBefore
<1> QED BY <1>3, <1>4, <1>6, <1>7 DEF FreeRam

\* The map begins empty.
LEMMA MapInit == Init => MapInv
<1> SUFFICES ASSUME Init PROVE MapInv
  OBVIOUS
<1>1. pc = "tables" /\ ptr = 1 /\ bootmem = <<>>
  BY DEF Init
<1>2. 1 \in 1 .. Len(bootmem_plan) + 1
  BY PlanFact
<1>3. TrueBefore(<<>>, 1)
  BY EmptyGives DEF TrueBefore, RamBefore
<1>4. Proper(<<>>)
  BY EmptyList, EmptyGives DEF Proper
<1> QED BY <1>1, <1>2, <1>3, <1>4 DEF MapInv

\* The map is filled, copied into the table, and the table stays.
LEMMA MapStep == MapInv /\ [Next]_vars => MapInv'
<1> SUFFICES ASSUME MapInv, [Next]_vars PROVE MapInv'
  OBVIOUS
<1>0. Len(bootmem_plan) \in Nat
  BY PlanFact
<1>1. CASE AddToMap
  <2>1. /\ pc = "tables" /\ pc' = "tables" /\ ptr <= Len(bootmem_plan) /\ ptr' = ptr + 1
        /\ ptr \in 1 .. Len(bootmem_plan) + 1
        /\ Proper(bootmem) /\ TrueBefore(bootmem, ptr)
    BY <1>1 DEF AddToMap, MapInv
  <2>2. ptr \in 1 .. Len(bootmem_plan) /\ ptr' \in 1 .. Len(bootmem_plan) + 1
    BY <1>0, <2>1
  <2>3. CASE bootmem_plan[ptr][1][2] = 0
    <3>1. bootmem' = bootmem
      BY <1>1, <2>3 DEF AddToMap
    <3>2. TrueBefore(bootmem, ptr + 1)
      BY <2>1, <2>2, <2>3, EmptyInsertion
    <3> QED BY <2>1, <2>2, <3>1, <3>2 DEF MapInv
  <2>4. CASE bootmem_plan[ptr][1][2] # 0
    <3>1. bootmem' = bootmem_add_range(bootmem, bootmem_plan[ptr][1][1],
                                       bootmem_plan[ptr][1][2], bootmem_plan[ptr][2])
      BY <1>1, <2>4 DEF AddToMap
    <3>2. Proper(bootmem') /\ TrueBefore(bootmem', ptr + 1)
      BY <2>1, <2>2, <2>4, <3>1, InsertionTrue
    <3> QED BY <2>1, <2>2, <3>2 DEF MapInv
  <2> QED BY <2>3, <2>4
<1>2. CASE bootmem_write_memory_table
  <2>1. /\ pc = "tables" /\ pc' = "build" /\ table' = bootmem /\ ptr > Len(bootmem_plan)
        /\ ptr \in 1 .. Len(bootmem_plan) + 1
        /\ Proper(bootmem) /\ TrueBefore(bootmem, ptr)
    BY <1>2 DEF bootmem_write_memory_table, MapInv
  <2>2. ptr = Len(bootmem_plan) + 1
    BY <1>0, <2>1
  <2>3. Proper(table') /\ TrueBefore(table', Len(bootmem_plan) + 1)
    BY <2>1, <2>2
  <2> QED BY <2>1, <2>3 DEF MapInv
<1>3. ASSUME pc # "tables", pc' # "tables", table' = table PROVE MapInv'
  BY <1>3 DEF MapInv
<1>4. CASE build_self_segment_list
  BY <1>3, <1>4 DEF build_self_segment_list
<1>5. CASE check_segments
  BY <1>3, <1>5 DEF check_segments
<1>6. CASE reserve_segment
  BY <1>3, <1>6 DEF reserve_segment
<1>7. CASE get_bounce_buffer
  <2>1. pc = "reserve" /\ pc' \in {"failed", "load"} /\ table' = table
    BY <1>7 DEF get_bounce_buffer
  <2> QED BY <1>3, <2>1
<1>8. CASE load_self_segment
  <2>1. pc = "load" /\ pc' \in {"failed", "load"} /\ table' = table
    BY <1>8 DEF load_self_segment
  <2> QED BY <1>3, <2>1
<1>9. CASE jmp_payload
  BY <1>3, <1>9 DEF jmp_payload
<1>10. CASE PayloadReturns
  BY <1>3, <1>10 DEF PayloadReturns
<1>11. CASE restore_coreboot
  <2>1. pc = "returned" /\ pc' \in {"back", "astray"} /\ table' = table
    BY <1>11 DEF restore_coreboot
  <2> QED BY <1>3, <2>1
<1>12. CASE UNCHANGED vars
  <2>1. pc' = pc /\ ptr' = ptr /\ bootmem' = bootmem /\ table' = table
    BY <1>12 DEF vars
  <2>2. CASE pc = "tables"
    BY <2>1, <2>2 DEF MapInv
  <2>3. CASE pc # "tables"
    BY <1>3, <2>1, <2>3
  <2> QED BY <2>2, <2>3
<1> QED
  BY <1>1, <1>2, <1>4, <1>5, <1>6, <1>7, <1>8, <1>9, <1>10, <1>11, <1>12 DEF Next

\* The memory table coreboot gives to the payload calls nothing RAM that a
\* resource reserves or that holds tables, and nothing that is not RAM: for
\* every list of resources, however they overlap, in whatever order, and every
\* page size, as long as RAM itself comes in whole pages within the memory.
THEOREM TableForPayload == Spec => []MapIsTrue
<1>1. ASSUME MapInv PROVE MapIsTrue
  <2> SUFFICES ASSUME pc # "tables", NEW a \in Cells, NEW i \in DOMAIN table,
                      table[i].tag = RAM, table[i].begin <= a, a <= table[i].end
               PROVE  /\ a \notin Area(CbmemArea) \cup Area(LowTables) \cup Area(RomTables)
                                    \cup UNION {Area(Reserved[j]) : j \in DOMAIN Reserved}
                      /\ \E j \in DOMAIN Cacheable : a \in Area(Cacheable[j])
    BY DEF MapIsTrue
  <2>1. Proper(table) /\ TrueBefore(table, Len(bootmem_plan) + 1) /\ a \in Int
    BY <1>1, AreasAssumption DEF MapInv, Cells
  <2>2. Gives(table, a, RAM)
    BY <2>1 DEF Gives, In, List, Proper
  <2>3. a \in FreeRam
    BY <2>1, <2>2, WholeMap
  <2>4. ASSUME NEW x \in Taken PROVE a \notin Area(x)
    <3>1. x \in Nat \X Nat
      BY AreasAssumption DEF Taken
    <3>2. a \notin Pages(x)
      BY <2>3 DEF FreeRam
    <3> QED BY <3>1, <3>2, PagesFact
  <2>5. /\ CbmemArea \in Taken /\ LowTables \in Taken
        /\ \A j \in DOMAIN Reserved : Reserved[j] \in Taken
        /\ RomTables[1] + RomTables[2] <= one_meg => RomTables \in Taken
    BY DEF Taken
  <2>6. a \notin Area(RomTables)
    BY <2>4, <2>5, AreasAssumption
  <2> QED BY <2>3, <2>4, <2>5, <2>6 DEF FreeRam
<1> QED BY <1>1, MapInit, MapStep, PTL DEF Spec

-----------------------------------------------------------------------------
(* The payload loader of SelfBoot: one piece of a segment *)

\* A segment as the loader keeps it.
SegRec ==
    [dstaddr : Int, srcaddr : Int, memsz : Int, filesz : Int, compression : {NONE, LZMA},
     out : Int]

\* Where the loader puts what belongs to cell a.
Loc(a, B) == IF a \in Coreboot THEN B + (a - lb_start) ELSE a

\* g is the part of segment s that begins k cells behind its beginning.
Part(g, s, k) ==
    /\ g \in SegRec /\ k \in Nat /\ g.memsz \in Nat \ {0} /\ k + g.memsz <= s.mem_len
    /\ g.srcaddr = s.offset + k /\ g.compression = s.compression /\ g.out = s.out
    /\ g.filesz \in Nat /\ g.filesz <= g.memsz
    /\ \A d \in Nat : d < g.memsz => (d < g.filesz <=> k + d < segment(s).filesz)
    /\ s.compression = LZMA \/ ~overlaps_coreboot(segment(s))
            => k = 0 /\ g.memsz = s.mem_len

\* It goes to its place, or into the buffer; of a segment that can be cut only
\* what belongs to coreboot's memory does.
Stays(g, s, k) == g.dstaddr = s.load_addr + k
Moved(g, s, k, B) ==
    /\ g.dstaddr = B + ((s.load_addr + k) - lb_start)
    /\ overlaps_coreboot(segment(s))
    /\ s.compression = NONE => /\ lb_start <= s.load_addr + k
                               /\ (s.load_addr + k) + g.memsz <= lb_end

Piece(g, s, k, B) == Part(g, s, k) /\ (Stays(g, s, k) \/ Moved(g, s, k, B))

\* The piece that the d-th cell of s is part of.
Covers(g, s, k, B, d) == Piece(g, s, k, B) /\ k <= d /\ d < k + g.memsz

\* The buffer, with room below and for the copy of coreboot.
BufferRoom(B) ==
    /\ B \in Nat /\ lb_end + lb_start <= B
    /\ \A a \in Int : B - lb_start <= a /\ a < B + (lb_size + lb_size) => a \in FreeRam

\* Segment s and all that may be bounced of it is in memory that may be written.
RoomFor(s, B) ==
    /\ s \in Segment /\ s.out <= s.mem_len
    /\ (s.load_addr + s.mem_len) + lb_start <= B
    /\ \A a \in Int : s.load_addr <= a /\ a < s.load_addr + s.mem_len
                        => a \in Cells /\ (a >= one_meg => a \in FreeRam)
    /\ overlaps_coreboot(segment(s)) =>
          \A a \in Int : B - lb_start <= a /\ a < B + ((s.load_addr + s.mem_len) - lb_start)
                            => a \in FreeRam

LEMMA Numbers ==
    /\ lb_start \in Nat /\ lb_end \in Nat /\ lb_start < lb_end
    /\ lb_size = lb_end - lb_start /\ lb_size \in Nat \ {0}
    /\ TOP \in Nat /\ one_meg \in Nat /\ one_meg <= lb_start /\ max_addr \in Nat
    /\ PAGE \in Nat \ {0} /\ TOP % PAGE = 0
    /\ \A a \in Int : a \in Coreboot <=> lb_start <= a /\ a < lb_end
    /\ \A a \in Int : a \in Cells <=> 0 <= a /\ a < TOP
    /\ Coreboot \subseteq FreeRam /\ FreeRam \subseteq Cells /\ Cells \subseteq Int
    /\ NONE # LZMA
<1>1. /\ lb_start \in Nat /\ lb_end \in Nat /\ lb_start < lb_end /\ max_addr \in Nat
      /\ TOP \in Nat /\ one_meg \in Nat /\ one_meg <= lb_start /\ TOP % PAGE = 0
      /\ Coreboot \subseteq FreeRam
  BY AreasAssumption, MemoryAssumption
<1>2. lb_size = lb_end - lb_start /\ lb_size \in Nat \ {0}
  BY <1>1 DEF lb_size
<1>3. PAGE \in Nat \ {0}
  BY PageAssumption
<1>4. \A a \in Int : a \in Coreboot <=> lb_start <= a /\ a < lb_end
  BY <1>1 DEF Coreboot
<1>5. Cells \subseteq Int /\ \A a \in Int : a \in Cells <=> 0 <= a /\ a < TOP
  BY <1>1 DEF Cells
<1>6. FreeRam \subseteq Cells
  BY DEF FreeRam
<1>7. NONE # LZMA
  BY DEF NONE, LZMA
<1> QED BY <1>1, <1>2, <1>3, <1>4, <1>5, <1>6, <1>7

LEMMA memcpyFact ==
    ASSUME NEW m, NEW to \in Int, NEW from \in Int, NEW n \in Int, NEW c \in Cells
    PROVE  memcpy(m, to, from, n)[c] = IF to <= c /\ c < to + n THEN m[from + (c - to)] ELSE m[c]
<1>1. c \in Int
  BY Numbers
<1>2. c \in to .. (to + n) - 1 <=> to <= c /\ c < to + n
  BY <1>1
<1>3. to + n - 1 = (to + n) - 1
  OBVIOUS
<1> QED BY <1>2, <1>3 DEF memcpy

\* The cells a piece has in the file.
InFile(g) == IF g.compression = LZMA THEN g.out ELSE g.filesz

LEMMA CopiedFact ==
    ASSUME NEW m, NEW g \in SegRec, NEW c \in Cells
    PROVE  Copied(m, g)[c] = IF g.dstaddr <= c /\ c < g.dstaddr + InFile(g)
                             THEN Data(g.srcaddr + (c - g.dstaddr))
                             ELSE IF g.dstaddr + InFile(g) <= c /\ c < g.dstaddr + g.memsz
                             THEN Zero ELSE m[c]
<1> DEFINE n == InFile(g)
<1>1. c \in Int /\ g.dstaddr \in Int /\ g.memsz \in Int /\ n \in Int
  BY Numbers DEF SegRec, InFile
<1>2. Copied(m, g)[c] = CASE c \in g.dstaddr .. g.dstaddr + n - 1 -> Data(g.srcaddr + (c - g.dstaddr))
              [] c \in g.dstaddr + n .. g.dstaddr + g.memsz - 1 -> Zero
              [] OTHER -> m[c]
  BY DEF Copied, InFile
<1> HIDE DEF n
<1>3. c \in g.dstaddr .. g.dstaddr + n - 1 <=> g.dstaddr <= c /\ c < g.dstaddr + n
  BY <1>1
<1>4. c \in g.dstaddr + n .. g.dstaddr + g.memsz - 1
        <=> g.dstaddr + n <= c /\ c < g.dstaddr + g.memsz
  BY <1>1
<1>5. ~(c \in g.dstaddr .. g.dstaddr + n - 1 /\ c \in g.dstaddr + n .. g.dstaddr + g.memsz - 1)
  BY <1>1, <1>3, <1>4
<1> QED BY <1>2, <1>3, <1>4, <1>5 DEF n

\* The numbers of a piece.
LEMMA PieceNumbers ==
    ASSUME NEW s, NEW k, NEW g, NEW B, BufferRoom(B), RoomFor(s, B), Part(g, s, k)
    PROVE  /\ s.load_addr \in Nat /\ s.mem_len \in Nat \ {0} /\ k \in Nat /\ B \in Nat
           /\ s.load_addr + k \in Nat /\ g \in SegRec
           /\ g.memsz \in Nat \ {0} /\ g.dstaddr \in Int /\ g.srcaddr \in Int
           /\ InFile(g) \in Nat /\ InFile(g) <= g.memsz
           /\ k + g.memsz <= s.mem_len
           /\ ((s.load_addr + k) + g.memsz) + lb_start <= B
           /\ (s.load_addr + k) + g.memsz <= s.load_addr + s.mem_len
           /\ \A a \in Int : s.load_addr + k <= a /\ a < (s.load_addr + k) + g.memsz
                               => a \in Cells /\ (a >= one_meg => a \in FreeRam)
<1> DEFINE l == s.load_addr
           n == s.mem_len
           z == g.memsz
<1>1. /\ s \in Segment /\ s.out <= n /\ (l + n) + lb_start <= B
      /\ \A a \in Int : l <= a /\ a < l + n => a \in Cells /\ (a >= one_meg => a \in FreeRam)
  BY DEF RoomFor
<1>2. l \in Nat /\ n \in Nat \ {0} /\ s.out \in Nat
  BY <1>1 DEF Segment
<1>3. B \in Nat /\ lb_start \in Nat
  BY Numbers DEF BufferRoom
<1>4. /\ g \in SegRec /\ k \in Nat /\ z \in Nat \ {0} /\ k + z <= n /\ g.compression = s.compression
      /\ g.out = s.out /\ g.filesz \in Nat /\ g.filesz <= z
      /\ s.compression = LZMA => k = 0 /\ z = n
  BY DEF Part
<1>5. g.dstaddr \in Int /\ g.srcaddr \in Int
  BY <1>4 DEF SegRec
<1>6. InFile(g) \in Nat /\ InFile(g) <= z
  BY <1>1, <1>2, <1>4 DEF InFile
<1> HIDE DEF l, n, z
<1>7. l + k \in Nat /\ ((l + k) + z) + lb_start <= B /\ (l + k) + z <= l + n
  BY <1>1, <1>2, <1>3, <1>4
<1>8. ASSUME NEW a \in Int, l + k <= a, a < (l + k) + z
      PROVE  a \in Cells /\ (a >= one_meg => a \in FreeRam)
  <2>1. l <= a /\ a < l + n
    BY <1>2, <1>4, <1>7, <1>8
  <2> QED BY <1>1, <2>1
<1> QED BY <1>2, <1>3, <1>4, <1>5, <1>6, <1>7, <1>8 DEF l, n, z

\* The cells that loading a piece leaves alone.
Untouched(c, g, x) ==
    /\ ~(g.dstaddr <= c /\ c < g.dstaddr + g.memsz)
    /\ c \in Coreboot \/ ~(x <= c /\ c < x + g.memsz)

\* m2 is m with piece g loaded, x the place where it belongs.
Loaded(m2, m, g, x, B) ==
    /\ \A d \in Nat : d < g.memsz =>
          m2[Loc(x + d, B)] = IF d < InFile(g) THEN Data(g.srcaddr + d) ELSE Zero
    /\ \A c \in Cells : Untouched(c, g, x) => m2[c] = m[c]

\* A piece that goes to its place.
LEMMA LoadInPlace ==
    ASSUME NEW s, NEW k, NEW g, NEW B, B = bounce_buffer, BufferRoom(B), RoomFor(s, B),
           Part(g, s, k), Stays(g, s, k), ~overlaps_coreboot(g), NEW m
    PROVE  Loaded(MovedAround(Copied(m, g), g), m, g, s.load_addr + k, B)
<1> DEFINE x == s.load_addr + k
           z == g.memsz
           n == InFile(g)
           m1 == Copied(m, g)
<1>1. /\ B \in Nat /\ x \in Nat /\ g \in SegRec /\ z \in Nat \ {0} /\ n \in Nat /\ n <= z
      /\ (x + z) + lb_start <= B /\ g.srcaddr \in Int
      /\ \A a \in Int : x <= a /\ a < x + z => a \in Cells
  BY PieceNumbers
<1>2. g.dstaddr = x
  BY DEF Stays
<1> HIDE DEF x, z, n
<1>3. MovedAround(m1, g) = m1
  <2>1. g.dstaddr + g.memsz <= bounce_buffer
    BY <1>1, <1>2, Numbers DEF z
  <2> QED BY <2>1 DEF MovedAround
<1>4. x + z <= lb_start \/ x >= lb_end
  BY <1>2 DEF overlaps_coreboot, z
<1>5. ASSUME NEW c \in Cells
      PROVE  m1[c] = IF x <= c /\ c < x + n THEN Data(g.srcaddr + (c - x))
                     ELSE IF x + n <= c /\ c < x + z THEN Zero ELSE m[c]
  BY <1>1, <1>2, CopiedFact DEF n, z
<1>6. ASSUME NEW d \in Nat, d < z
      PROVE  m1[Loc(x + d, B)] = IF d < n THEN Data(g.srcaddr + d) ELSE Zero
  <2>1. x + d \in Int /\ x <= x + d /\ x + d < x + z /\ (x + d) - x = d
    BY <1>1, <1>6
  <2>2. x + d \in Cells /\ x + d \notin Coreboot
    BY <1>1, <1>4, <2>1, Numbers
  <2>3. Loc(x + d, B) = x + d
    BY <2>2 DEF Loc
  <2>4. CASE d < n
    <3>1. x + d < x + n
      BY <1>1, <2>4
    <3> QED BY <1>5, <2>1, <2>2, <2>3, <2>4, <3>1
  <2>5. CASE ~(d < n)
    <3>1. ~(x + d < x + n) /\ x + n <= x + d
      BY <1>1, <2>5
    <3> QED BY <1>5, <2>1, <2>2, <2>3, <2>5, <3>1
  <2> QED BY <2>4, <2>5
<1>7. ASSUME NEW c \in Cells, Untouched(c, g, x) PROVE m1[c] = m[c]
  <2>1. c \in Int /\ ~(x <= c /\ c < x + z)
    BY <1>2, <1>7, Numbers DEF Untouched, z
  <2>2. ~(x <= c /\ c < x + n) /\ ~(x + n <= c /\ c < x + z)
    BY <1>1, <2>1
  <2> QED BY <1>5, <2>2
<1> QED BY <1>3, <1>6, <1>7 DEF Loaded, x, z, n

\* A piece that is bounced: what it has outside coreboot's memory is moved on.
LEMMA LoadBounced ==
    ASSUME NEW s, NEW k, NEW g, NEW B, B = bounce_buffer, BufferRoom(B), RoomFor(s, B),
           Part(g, s, k), Moved(g, s, k, B), NEW m
    PROVE  Loaded(MovedAround(Copied(m, g), g), m, g, s.load_addr + k, B)
<1> DEFINE x == s.load_addr + k
           z == g.memsz
           n == InFile(g)
           dst == g.dstaddr
           m1 == Copied(m, g)
           m2 == MovedAround(m1, g)
           Out(c) == x <= c /\ c < x + z /\ c \notin Coreboot
<1>1. /\ B \in Nat /\ x \in Nat /\ g \in SegRec /\ z \in Nat \ {0} /\ n \in Nat /\ n <= z
      /\ (x + z) + lb_start <= B /\ g.srcaddr \in Int /\ dst \in Int
      /\ \A a \in Int : x <= a /\ a < x + z => a \in Cells
      /\ x + z <= s.load_addr + s.mem_len /\ s.load_addr \in Nat /\ s.mem_len \in Nat
  BY PieceNumbers
<1>2. dst = B + (x - lb_start) /\ overlaps_coreboot(segment(s))
  BY DEF Moved
<1>3. x + z > lb_start
  <2>1. CASE s.compression = NONE
    <3>1. lb_start <= x
      BY <2>1 DEF Moved
    <3> QED BY <1>1, <3>1, Numbers
  <2>2. CASE s.compression # NONE
    <3>1. s.compression = LZMA
      BY <2>2 DEF RoomFor, Segment
    <3>2. k = 0 /\ z = s.mem_len
      BY <3>1 DEF Part
    <3>3. ~(s.load_addr + s.mem_len <= lb_start)
      BY <1>2 DEF overlaps_coreboot, segment
    <3> QED BY <1>1, <3>2, <3>3, Numbers
  <2> QED BY <2>1, <2>2
<1>4. \A a \in Int : B - lb_start <= a /\ a < B + ((s.load_addr + s.mem_len) - lb_start)
                        => a \in Cells
  BY <1>2, Numbers DEF RoomFor
<1> HIDE DEF x, z, n, dst, m1
<1>5. ASSUME NEW c \in Int, x <= c, c < x + z
      PROVE  /\ B + (c - lb_start) \in Cells /\ dst + (c - x) = B + (c - lb_start)
             /\ c \in Cells /\ B + (c - lb_start) >= lb_end
             /\ B + (c - lb_start) >= x + z
  <2> DEFINE e == B + (c - lb_start)
  <2>1. e \in Int /\ B - lb_start <= e /\ e < B + ((s.load_addr + s.mem_len) - lb_start)
    BY <1>1, <1>5, Numbers
  <2>2. e \in Cells
    BY <1>4, <2>1
  <2>3. dst + (c - x) = e
    BY <1>1, <1>2, <1>5, Numbers
  <2>4. lb_end + lb_start <= B
    BY DEF BufferRoom
  <2>5. e >= lb_end /\ e >= x + z
    BY <1>1, <1>5, <2>4, Numbers
  <2> QED BY <1>1, <1>5, <2>2, <2>3, <2>5
<1>6. ASSUME NEW c \in Cells
      PROVE  m2[c] = IF Out(c) THEN m1[B + (c - lb_start)] ELSE m1[c]
  <2> DEFINE low == IF dst < B THEN memcpy(m1, lb_start - (B - dst), dst, B - dst) ELSE m1
             shadow == B + lb_size
             end == dst + z
  <2>1. /\ c \in Int /\ lb_start \in Nat /\ lb_end \in Nat /\ lb_start < lb_end
        /\ lb_size = lb_end - lb_start /\ (c \in Coreboot <=> lb_start <= c /\ c < lb_end)
    BY Numbers
  <2>2. /\ end > B /\ (dst < B <=> x < lb_start) /\ lb_start - (B - dst) = x /\ B - dst = lb_start - x
        /\ (end > shadow <=> x + z > lb_end) /\ end - shadow = (x + z) - lb_end
        /\ shadow \in Int /\ end \in Int
    BY <1>1, <1>2, <1>3, <2>1
  <2>3. m2 = IF end <= B THEN m1 ELSE IF end > shadow THEN memcpy(low, lb_end, shadow, end - shadow)
             ELSE low
    BY DEF MovedAround, dst, z
  <2> HIDE DEF low, shadow, end, m2
  <2>4. ASSUME NEW a \in Cells
        PROVE  low[a] = IF x <= a /\ a < lb_start THEN m1[dst + (a - x)] ELSE m1[a]
    <3>1. a \in Int
      BY Numbers
    <3>2. CASE x < lb_start
      <4>1. low = memcpy(m1, x, dst, lb_start - x)
        BY <2>2, <3>2 DEF low
      <4>2. low[a] = IF x <= a /\ a < x + (lb_start - x) THEN m1[dst + (a - x)] ELSE m1[a]
        BY <1>1, <2>1, <4>1, memcpyFact
      <4>3. x + (lb_start - x) = lb_start
        BY <1>1, <2>1
      <4> QED BY <4>2, <4>3
    <3>3. CASE ~(x < lb_start)
      <4>1. low = m1 /\ ~(x <= a /\ a < lb_start)
        BY <1>1, <2>1, <2>2, <3>1, <3>3 DEF low
      <4> QED BY <4>1
    <3> QED BY <3>2, <3>3
  <2>5. m2[c] = IF lb_end <= c /\ c < x + z THEN low[shadow + (c - lb_end)] ELSE low[c]
    <3>1. CASE x + z > lb_end
      <4>1. m2 = memcpy(low, lb_end, shadow, (x + z) - lb_end)
        BY <1>1, <2>2, <2>3, <3>1
      <4>2. m2[c] = IF lb_end <= c /\ c < lb_end + ((x + z) - lb_end)
                    THEN low[shadow + (c - lb_end)] ELSE low[c]
        BY <1>1, <2>1, <2>2, <4>1, memcpyFact
      <4>3. lb_end + ((x + z) - lb_end) = x + z
        BY <1>1, <2>1
      <4> QED BY <4>2, <4>3
    <3>2. CASE ~(x + z > lb_end)
      <4>1. m2 = low /\ ~(lb_end <= c /\ c < x + z)
        BY <1>1, <1>3, <2>1, <2>2, <2>3, <3>2
      <4> QED BY <4>1
    <3> QED BY <3>1, <3>2
  <2>6. CASE lb_end <= c /\ c < x + z
    <3>1. shadow + (c - lb_end) = B + (c - lb_start)
      BY <1>1, <2>1 DEF shadow
    <3>2. CASE x <= c
      <4>1. /\ B + (c - lb_start) \in Cells /\ B + (c - lb_start) >= lb_end
        BY <1>5, <2>1, <2>6, <3>2
      <4>2. B + (c - lb_start) \in Int
        BY <1>1, <2>1
      <4>3. low[B + (c - lb_start)] = m1[B + (c - lb_start)]
        BY <2>1, <2>4, <4>1, <4>2
      <4> QED BY <2>1, <2>5, <2>6, <3>1, <3>2, <4>3
    <3>3. CASE ~(x <= c)
      <4>1. x < lb_end
        <5>1. CASE s.compression = NONE
          <6>1. x + z <= lb_end
            BY <5>1 DEF Moved, x, z
          <6> QED BY <1>1, <2>1, <6>1
        <5>2. CASE s.compression # NONE
          <6>1. s.compression = LZMA
            BY <5>2 DEF RoomFor, Segment
          <6>2. k = 0
            BY <6>1 DEF Part
          <6>3. ~(s.load_addr >= lb_end)
            BY <1>2 DEF overlaps_coreboot, segment
          <6> QED BY <1>1, <2>1, <6>2, <6>3 DEF x
        <5> QED BY <5>1, <5>2
      <4> QED BY <1>1, <2>1, <2>6, <3>3, <4>1
    <3> QED BY <3>2, <3>3
  <2>7. CASE ~(lb_end <= c /\ c < x + z)
    <3>1. m2[c] = IF x <= c /\ c < lb_start THEN m1[dst + (c - x)] ELSE m1[c]
      BY <2>4, <2>5, <2>7
    <3>2. CASE x <= c /\ c < lb_start
      <4>1. c < x + z
        BY <1>1, <1>3, <2>1, <3>2
      <4>2. dst + (c - x) = B + (c - lb_start)
        BY <1>5, <2>1, <3>2, <4>1
      <4> QED BY <2>1, <3>1, <3>2, <4>1, <4>2
    <3>3. CASE ~(x <= c /\ c < lb_start)
      <4>1. ~Out(c)
        BY <1>1, <2>1, <2>7, <3>3
      <4> QED BY <3>1, <3>3, <4>1
    <3> QED BY <3>2, <3>3
  <2> QED BY <2>6, <2>7
<1>7. ASSUME NEW c \in Cells
      PROVE  m1[c] = IF dst <= c /\ c < dst + n THEN Data(g.srcaddr + (c - dst))
                     ELSE IF dst + n <= c /\ c < dst + z THEN Zero ELSE m[c]
  BY <1>1, CopiedFact DEF n, z, dst, m1
<1> HIDE DEF m2
<1>8. ASSUME NEW d \in Nat, d < z
      PROVE  m2[Loc(x + d, B)] = IF d < n THEN Data(g.srcaddr + d) ELSE Zero
  <2> DEFINE a == x + d
             e == B + (a - lb_start)
  <2>1. a \in Int /\ x <= a /\ a < x + z /\ a - x = d /\ lb_start \in Nat
    BY <1>1, <1>8, Numbers
  <2>2. e \in Cells /\ dst + (a - x) = e /\ a \in Cells /\ e >= lb_end /\ e >= x + z /\ e \in Int
    BY <1>1, <1>5, <2>1, Numbers
  <2>3. ~Out(e)
    BY <1>1, <2>2
  <2> HIDE DEF a, e
  <2>4. m2[Loc(a, B)] = m1[e]
    <3>1. CASE a \in Coreboot
      <4>1. Loc(a, B) = e
        BY <3>1 DEF Loc, e
      <4> QED BY <1>6, <2>2, <2>3, <4>1
    <3>2. CASE a \notin Coreboot
      <4>1. Loc(a, B) = a /\ Out(a)
        BY <2>1, <3>2 DEF Loc
      <4> QED BY <1>6, <2>2, <4>1 DEF e
    <3> QED BY <3>1, <3>2
  <2>5. e = dst + d
    BY <2>1, <2>2
  <2>6. e - dst = d /\ dst <= e /\ e < dst + z /\ (e < dst + n <=> d < n) /\ (dst + n <= e <=> ~(d < n))
    BY <1>1, <1>8, <2>5
  <2>7. m1[e] = IF dst <= e /\ e < dst + n THEN Data(g.srcaddr + (e - dst))
                     ELSE IF dst + n <= e /\ e < dst + z THEN Zero ELSE m[e]
    BY <1>7, <2>2
  <2> QED BY <2>4, <2>6, <2>7 DEF a
<1>9. ASSUME NEW c \in Cells, Untouched(c, g, x) PROVE m2[c] = m[c]
  <2>1. c \in Int /\ ~(dst <= c /\ c < dst + z) /\ ~Out(c)
    BY <1>9, Numbers DEF Untouched, z, dst
  <2>2. m2[c] = m1[c]
    BY <1>6, <2>1
  <2>3. ~(dst <= c /\ c < dst + n) /\ ~(dst + n <= c /\ c < dst + z)
    BY <1>1, <2>1
  <2> QED BY <1>7, <2>2, <2>3
<1> QED BY <1>8, <1>9 DEF Loaded, x, z, n, m1, m2

\* Loading a piece that is not in coreboot's memory.
LEMMA LoadPiece ==
    ASSUME NEW s, NEW k, NEW g, NEW B, B = bounce_buffer, BufferRoom(B), RoomFor(s, B),
           Piece(g, s, k, B), ~overlaps_coreboot(g), NEW m
    PROVE  Loaded(MovedAround(Copied(m, g), g), m, g, s.load_addr + k, B)
BY LoadInPlace, LoadBounced DEF Piece

\* What is bounced goes far above coreboot.
LEMMA MovedFar ==
    ASSUME NEW s, NEW k, NEW g, NEW B, BufferRoom(B), RoomFor(s, B), Part(g, s, k),
           Moved(g, s, k, B)
    PROVE  /\ ~overlaps_coreboot(g) /\ g.dstaddr >= lb_end /\ g.dstaddr >= B - lb_start
           /\ g.dstaddr + g.memsz <= B + ((s.load_addr + s.mem_len) - lb_start)
<1> DEFINE x == s.load_addr + k
           z == g.memsz
           t == s.load_addr + s.mem_len
<1>1. /\ B \in Nat /\ x \in Nat /\ z \in Nat \ {0} /\ g.dstaddr \in Int /\ x + z <= t
      /\ s.load_addr \in Nat /\ s.mem_len \in Nat
  BY PieceNumbers
<1>2. g.dstaddr = B + (x - lb_start)
  BY DEF Moved
<1>3. lb_end + lb_start <= B
  BY DEF BufferRoom
<1>4. t \in Nat
  BY <1>1
<1> HIDE DEF x, z, t
<1>5. /\ g.dstaddr >= lb_end /\ g.dstaddr >= B - lb_start
      /\ g.dstaddr + z <= B + (t - lb_start)
  BY <1>1, <1>2, <1>3, <1>4, Numbers
<1> QED BY <1>5 DEF overlaps_coreboot, t, z

\* Loading a piece leaves alone: coreboot, memory above 1 MiB that is not free,
\* and what was loaded for other cells.
LEMMA LoadFrame ==
    ASSUME NEW s, NEW k, NEW g, NEW B, BufferRoom(B), RoomFor(s, B),
           Piece(g, s, k, B), ~overlaps_coreboot(g)
    PROVE  /\ \A c \in Cells : c \in Coreboot \/ (c >= one_meg /\ c \notin FreeRam)
                                => Untouched(c, g, s.load_addr + k)
           /\ \A a \in Int : /\ a \in Cells /\ a + lb_start < B
                             /\ ~(s.load_addr + k <= a /\ a < (s.load_addr + k) + g.memsz)
                => Loc(a, B) \in Cells /\ Untouched(Loc(a, B), g, s.load_addr + k)
<1> DEFINE x == s.load_addr + k
           z == g.memsz
           dst == g.dstaddr
           t == s.load_addr + s.mem_len
<1>1. /\ B \in Nat /\ x \in Nat /\ z \in Nat \ {0} /\ dst \in Int /\ x + z <= t
      /\ s.load_addr \in Nat /\ s.mem_len \in Nat /\ (x + z) + lb_start <= B
      /\ \A a \in Int : x <= a /\ a < x + z => a \in Cells /\ (a >= one_meg => a \in FreeRam)
      /\ Part(g, s, k)
  BY PieceNumbers DEF Piece
<1>2. t \in Nat
  BY <1>1
<1>3. dst = x \/ (/\ dst = B + (x - lb_start) /\ dst >= lb_end /\ dst >= B - lb_start
                  /\ dst + z <= B + (t - lb_start)
                  /\ overlaps_coreboot(segment(s)))
  <2>1. CASE Stays(g, s, k)
    BY <2>1 DEF Stays
  <2>2. CASE Moved(g, s, k, B)
    BY <1>1, <2>2, MovedFar DEF Moved
  <2> QED BY <2>1, <2>2 DEF Piece
<1>4. dst + z <= lb_start \/ dst >= lb_end
  BY DEF overlaps_coreboot
<1>5. /\ lb_end + lb_start <= B
      /\ \A a \in Int : B - lb_start <= a /\ a < B + (lb_size + lb_size) => a \in FreeRam
  BY DEF BufferRoom
<1>6. overlaps_coreboot(segment(s)) =>
          \A a \in Int : B - lb_start <= a /\ a < B + (t - lb_start) => a \in FreeRam
  BY DEF RoomFor
<1> HIDE DEF x, z, dst, t
<1>7. ASSUME NEW c \in Cells, c \in Coreboot PROVE Untouched(c, g, x)
  <2>1. c \in Int /\ lb_start <= c /\ c < lb_end
    BY <1>7, Numbers
  <2>2. ~(dst <= c /\ c < dst + z)
    BY <1>1, <1>4, <2>1, Numbers
  <2> QED BY <1>7, <2>2 DEF Untouched, dst, z
<1>8. ASSUME NEW c \in Cells, c >= one_meg, c \notin FreeRam PROVE Untouched(c, g, x)
  <2>1. c \in Int
    BY Numbers
  <2>2. ~(x <= c /\ c < x + z)
    BY <1>1, <1>8, <2>1
  <2>3. ~(dst <= c /\ c < dst + z)
    <3>1. CASE dst = x
      BY <2>2, <3>1
    <3>2. CASE dst # x
      <4> SUFFICES ASSUME dst <= c, c < dst + z PROVE FALSE
        OBVIOUS
      <4>1. B - lb_start <= c /\ c < B + (t - lb_start)
        BY <1>1, <1>2, <1>3, <2>1, <3>2, Numbers
      <4> QED BY <1>3, <1>6, <1>8, <2>1, <3>2, <4>1
    <3> QED BY <3>1, <3>2
  <2> QED BY <2>2, <2>3 DEF Untouched, dst, z
<1>9. ASSUME NEW a \in Int, a \in Cells, a + lb_start < B, ~(x <= a /\ a < x + z)
      PROVE  Loc(a, B) \in Cells /\ Untouched(Loc(a, B), g, x)
  <2>1. CASE a \in Coreboot
    <3> DEFINE e == B + (a - lb_start)
    <3>1. lb_start <= a /\ a < lb_end
      BY <2>1, Numbers
    <3>2. Loc(a, B) = e
      BY <2>1 DEF Loc
    <3>3. e \in Int /\ B - lb_start <= e /\ e < B + (lb_size + lb_size) /\ e >= B
      BY <1>1, <1>9, <3>1, Numbers
    <3>4. e \in Cells
      BY <1>5, <3>3, Numbers
    <3>5. ~(x <= e /\ e < x + z)
      BY <1>1, <3>3, Numbers
    <3>6. ~(dst <= e /\ e < dst + z)
      <4>1. CASE dst = x
        BY <3>5, <4>1
      <4>2. CASE dst # x
        BY <1>1, <1>3, <1>9, <4>2, Numbers
      <4> QED BY <4>1, <4>2
    <3> QED BY <3>2, <3>4, <3>5, <3>6 DEF Untouched, dst, z
  <2>2. CASE a \notin Coreboot
    <3>1. Loc(a, B) = a
      BY <2>2 DEF Loc
    <3>2. ~(dst <= a /\ a < dst + z)
      <4>1. CASE dst = x
        BY <1>9, <4>1
      <4>2. CASE dst # x
        BY <1>1, <1>3, <1>9, <4>2, Numbers
      <4> QED BY <4>1, <4>2
    <3> QED BY <1>9, <3>1, <3>2 DEF Untouched, dst, z
  <2> QED BY <2>1, <2>2
<1> QED BY <1>7, <1>8, <1>9 DEF x, z

-----------------------------------------------------------------------------
(* relocate_segment *)

\* A part that is not of a compressed segment can be cut.
LEMMA BeforeFact ==
    ASSUME NEW s \in Segment, NEW k, NEW g, Part(g, s, k), s.compression = NONE,
           overlaps_coreboot(segment(s)), NEW n \in Nat \ {0}, n < g.memsz
    PROVE  /\ Part(Before(g, n), s, k)
           /\ Before(g, n).memsz = n /\ Before(g, n).dstaddr = g.dstaddr
<1> DEFINE b == Before(g, n)
           f == segment(s).filesz
<1>1. /\ g \in SegRec /\ k \in Nat /\ g.memsz \in Nat \ {0} /\ k + g.memsz <= s.mem_len
      /\ g.srcaddr = s.offset + k /\ g.compression = s.compression /\ g.out = s.out
      /\ g.filesz \in Nat /\ g.filesz <= g.memsz
      /\ \A d \in Nat : d < g.memsz => (d < g.filesz <=> k + d < f)
  BY DEF Part
<1>2. /\ b \in SegRec /\ b.memsz = n /\ b.dstaddr = g.dstaddr /\ b.srcaddr = g.srcaddr
      /\ b.filesz = (IF g.filesz > n THEN n ELSE g.filesz)
      /\ b.compression = g.compression /\ b.out = g.out
  <2> DEFINE w == IF g.filesz > n THEN n ELSE g.filesz
  <2>1. b = [g EXCEPT !.memsz = n, !.filesz = w] /\ w \in Int /\ n \in Int
    BY <1>1 DEF Before
  <2>2. w = IF g.filesz > n THEN n ELSE g.filesz
    OBVIOUS
  <2> HIDE DEF w, b
  <2>3. /\ b \in SegRec /\ b.memsz = n /\ b.dstaddr = g.dstaddr /\ b.srcaddr = g.srcaddr
        /\ b.filesz = w /\ b.compression = g.compression /\ b.out = g.out
    BY <1>1, <2>1 DEF SegRec
  <2> QED BY <2>2, <2>3
<1>3. s.mem_len \in Nat
  BY DEF Segment
<1>4. b.filesz \in Nat /\ b.filesz <= n /\ k + n <= s.mem_len
  BY <1>1, <1>2, <1>3
<1> HIDE DEF b, f
<1>5. ASSUME NEW d \in Nat, d < n PROVE d < b.filesz <=> k + d < f
  <2>1. d < g.memsz /\ (d < b.filesz <=> d < g.filesz)
    BY <1>1, <1>2, <1>5
  <2> QED BY <1>1, <2>1
<1>6. s.compression # LZMA
  BY Numbers
<1>7. Part(b, s, k)
  BY <1>1, <1>2, <1>4, <1>5, <1>6 DEF Part, f
<1> QED BY <1>2, <1>7 DEF b

LEMMA FromFact ==
    ASSUME NEW s \in Segment, NEW k, NEW g, Part(g, s, k), s.compression = NONE,
           overlaps_coreboot(segment(s)), NEW n \in Nat \ {0}, n < g.memsz
    PROVE  /\ Part(From(g, n), s, k + n)
           /\ From(g, n).memsz = g.memsz - n /\ From(g, n).dstaddr = g.dstaddr + n
<1> DEFINE b == From(g, n)
           f == segment(s).filesz
<1>1. /\ g \in SegRec /\ k \in Nat /\ g.memsz \in Nat \ {0} /\ k + g.memsz <= s.mem_len
      /\ g.srcaddr = s.offset + k /\ g.compression = s.compression /\ g.out = s.out
      /\ g.filesz \in Nat /\ g.filesz <= g.memsz
      /\ \A d \in Nat : d < g.memsz => (d < g.filesz <=> k + d < f)
  BY DEF Part
<1>2. /\ b \in SegRec /\ b.memsz = g.memsz - n /\ b.dstaddr = g.dstaddr + n
      /\ b.srcaddr = g.srcaddr + n
      /\ b.filesz = (IF g.filesz > n THEN g.filesz - n ELSE 0)
      /\ b.compression = g.compression /\ b.out = g.out
  <2> DEFINE w == IF g.filesz > n THEN g.filesz - n ELSE 0
             u == g.memsz - n
             v == g.dstaddr + n
             x == g.srcaddr + n
  <2>1. g.dstaddr \in Int /\ g.srcaddr \in Int
    BY <1>1 DEF SegRec
  <2>2. w \in Int /\ u \in Int /\ v \in Int /\ x \in Int
    BY <1>1, <2>1
  <2>3. b = [g EXCEPT !.memsz = u, !.dstaddr = v, !.srcaddr = x, !.filesz = w]
    BY DEF From
  <2>4. /\ w = (IF g.filesz > n THEN g.filesz - n ELSE 0)
        /\ u = g.memsz - n /\ v = g.dstaddr + n /\ x = g.srcaddr + n
    OBVIOUS
  <2> HIDE DEF w, u, v, x, b
  <2>5. /\ b \in SegRec /\ b.memsz = u /\ b.dstaddr = v /\ b.srcaddr = x
        /\ b.filesz = w /\ b.compression = g.compression /\ b.out = g.out
    BY <1>1, <2>2, <2>3 DEF SegRec
  <2> QED BY <2>4, <2>5
<1>3. s.mem_len \in Nat /\ s.offset \in Nat
  BY DEF Segment
<1>4. /\ b.filesz \in Nat /\ b.filesz <= b.memsz /\ (k + n) + b.memsz <= s.mem_len
      /\ b.memsz \in Nat \ {0} /\ k + n \in Nat /\ b.srcaddr = s.offset + (k + n)
  BY <1>1, <1>2, <1>3
<1> HIDE DEF b, f
<1>5. ASSUME NEW d \in Nat, d < b.memsz PROVE d < b.filesz <=> (k + n) + d < f
  <2>1. d + n \in Nat /\ d + n < g.memsz /\ (d < b.filesz <=> d + n < g.filesz)
    BY <1>1, <1>2, <1>5
  <2>2. d + n < g.filesz <=> k + (d + n) < f
    BY <1>1, <2>1
  <2>3. k + (d + n) = (k + n) + d
    BY <1>1
  <2> QED BY <2>1, <2>2, <2>3
<1>6. s.compression # LZMA
  BY Numbers
<1>7. Part(b, s, k + n)
  BY <1>1, <1>2, <1>4, <1>5, <1>6 DEF Part, f
<1> QED BY <1>2, <1>7 DEF b

\* Moving a part changes where it goes and nothing else.
LEMMA MoveFact ==
    ASSUME NEW s, NEW k, NEW g, Part(g, s, k), NEW b \in Int
    PROVE  /\ Part([g EXCEPT !.dstaddr = b], s, k)
           /\ [g EXCEPT !.dstaddr = b].dstaddr = b /\ [g EXCEPT !.dstaddr = b].memsz = g.memsz
<1> DEFINE h == [g EXCEPT !.dstaddr = b]
<1>1. g \in SegRec
  BY DEF Part
<1>2. /\ h \in SegRec /\ h.memsz = g.memsz /\ h.dstaddr = b /\ h.srcaddr = g.srcaddr
      /\ h.filesz = g.filesz /\ h.compression = g.compression /\ h.out = g.out
  BY <1>1 DEF SegRec
<1> HIDE DEF h
<1>3. Part(h, s, k)
  BY <1>2 DEF Part
<1> QED BY <1>2, <1>3 DEF h

\* Lists of one to three pieces.
LEMMA OnePiece ==
    ASSUME NEW a \in SegRec
    PROVE  <<a>> \in Seq(SegRec) /\ <<>> \o <<a>> = <<a>> /\ <<a>> \o <<>> = <<a>>
<1>1. <<a>> \in Seq(SegRec)
  OBVIOUS
<1> QED BY <1>1, ConcatEmptySeq

LEMMA TwoPieces ==
    ASSUME NEW a \in SegRec, NEW b \in SegRec
    PROVE  <<a>> \o <<b>> = <<a, b>> /\ <<a, b>> \in Seq(SegRec) /\ <<a, b>> \o <<>> = <<a, b>>
<1> DEFINE S == SegRec
           u == <<a, b>>
           v == <<a>> \o <<b>>
<1>1. a \in S /\ b \in S
  OBVIOUS
<1> HIDE DEF S
<1>2. u \in Seq(S) /\ Len(u) = 2 /\ u[1] = a /\ u[2] = b
  BY <1>1
<1>3. v \in Seq(S) /\ Len(v) = 2 /\ v[1] = a /\ v[2] = b
  BY <1>1
<1> HIDE DEF u, v
<1>4. \A i \in 1 .. 2 : u[i] = v[i]
  BY <1>2, <1>3
<1>5. u = v
  BY <1>2, <1>3, <1>4, SeqEqual
<1>6. u \o <<>> = u
  BY <1>2, ConcatEmptySeq
<1> QED BY <1>2, <1>5, <1>6 DEF u, v, S

LEMMA ThreePieces ==
    ASSUME NEW a \in SegRec, NEW b \in SegRec, NEW c \in SegRec
    PROVE  <<a, b>> \o <<c>> = <<a, b, c>> /\ <<a, b, c>> \in Seq(SegRec)
<1> DEFINE S == SegRec
           u == <<a, b, c>>
           v == <<a, b>> \o <<c>>
<1>1. a \in S /\ b \in S /\ c \in S
  OBVIOUS
<1> HIDE DEF S
<1>2. u \in Seq(S) /\ Len(u) = 3 /\ u[1] = a /\ u[2] = b /\ u[3] = c
  BY <1>1
<1>3. v \in Seq(S) /\ Len(v) = 3 /\ v[1] = a /\ v[2] = b /\ v[3] = c
  BY <1>1
<1> HIDE DEF u, v
<1>4. \A i \in 1 .. 3 : u[i] = v[i]
  BY <1>2, <1>3
<1>5. u = v
  BY <1>2, <1>3, <1>4, SeqEqual
<1> QED BY <1>2, <1>5 DEF u, v, S

\* The pieces of g: each is one, together they are g, and the first can be
\* loaded as it is.
Cut(pieces, g, s, k, B) ==
    /\ pieces \in Seq(SegRec) /\ Len(pieces) \in Nat \ {0}
    /\ ~overlaps_coreboot(pieces[1])
    /\ \A q \in 1 .. Len(pieces) : \E n \in Nat : Piece(pieces[q], s, n, B)
    /\ \A d \in Nat : k <= d /\ d < k + g.memsz =>
          \E q \in 1 .. Len(pieces) : \E n \in Nat : Covers(pieces[q], s, n, B, d)

\* A piece of which something belongs to coreboot's memory stays, and so does
\* something of its segment.
LEMMA OverlapStays ==
    ASSUME NEW s, NEW k, NEW g, NEW B, BufferRoom(B), RoomFor(s, B), Piece(g, s, k, B),
           overlaps_coreboot(g)
    PROVE  Part(g, s, k) /\ g.dstaddr = s.load_addr + k /\ overlaps_coreboot(segment(s))
<1>1. Part(g, s, k) /\ g.dstaddr = s.load_addr + k
  BY MovedFar DEF Piece, Stays
<1>2. /\ s.load_addr \in Nat /\ s.mem_len \in Nat \ {0} /\ k \in Nat /\ g.memsz \in Nat \ {0}
      /\ k + g.memsz <= s.mem_len
  BY <1>1, PieceNumbers
<1>3. ~((s.load_addr + k) + g.memsz <= lb_start) /\ ~(s.load_addr + k >= lb_end)
  BY <1>1 DEF overlaps_coreboot
<1>4. ~(s.load_addr + s.mem_len <= lb_start) /\ ~(s.load_addr >= lb_end)
  BY <1>2, <1>3, Numbers
<1> QED BY <1>1, <1>4 DEF overlaps_coreboot, segment

\* Cutting a segment where coreboot begins and where it ends.
LEMMA CutFact ==
    ASSUME NEW s, NEW k, NEW g, NEW B, B = bounce_buffer, BufferRoom(B), RoomFor(s, B),
           Piece(g, s, k, B), overlaps_coreboot(g)
    PROVE  Cut(relocate_segment(g), g, s, k, B)
<1> DEFINE cut == g.compression = NONE
           early == cut /\ g.dstaddr < lb_start
           rest == IF early THEN From(g, lb_start - g.dstaddr) ELSE g
           late == cut /\ rest.dstaddr + rest.memsz > lb_end
           inner == IF late THEN Before(rest, lb_end - rest.dstaddr) ELSE rest
           moved == [inner EXCEPT !.dstaddr = bounce_buffer + (@ - lb_start)]
           first == Before(g, lb_start - g.dstaddr)
           last == From(rest, lb_end - rest.dstaddr)
           x == s.load_addr + k
           z == g.memsz
           k1 == IF early THEN k + (lb_start - x) ELSE k
           x1 == s.load_addr + k1
           z1 == IF late THEN lb_end - x1 ELSE (x + z) - x1
           k2 == k1 + z1
<1>1. Part(g, s, k) /\ g.dstaddr = x /\ overlaps_coreboot(segment(s)) /\ s \in Segment
  BY OverlapStays DEF RoomFor
<1>2. /\ s.load_addr \in Nat /\ k \in Nat /\ z \in Nat \ {0} /\ x \in Nat /\ B \in Nat
      /\ g.compression = s.compression
  BY <1>1, PieceNumbers DEF Part
<1>3. ~(x + z <= lb_start) /\ ~(x >= lb_end)
  BY <1>1 DEF overlaps_coreboot
<1>4. relocate_segment(g) = (IF early THEN <<first>> ELSE <<>>) \o <<moved>>
                              \o (IF late THEN <<last>> ELSE <<>>)
  BY DEF relocate_segment
<1>5. s.compression = NONE \/ s.compression = LZMA
  BY <1>1 DEF Segment
<1>6. early => /\ lb_start - x \in Nat \ {0} /\ lb_start - x < z
               /\ s.compression = NONE
  BY <1>1, <1>2, <1>3, Numbers
<1>7. ASSUME early
      PROVE  /\ Part(first, s, k) /\ first.memsz = lb_start - x /\ first.dstaddr = x
             /\ Part(rest, s, k1) /\ rest.memsz = z - (lb_start - x)
             /\ rest.dstaddr = x + (lb_start - x)
  <2> DEFINE n == lb_start - x
  <2>1. n \in Nat \ {0} /\ n < z /\ s.compression = NONE
    BY <1>6, <1>7
  <2>2. first = Before(g, n) /\ rest = From(g, n) /\ k1 = k + n
    BY <1>1, <1>7
  <2> HIDE DEF n, first, rest, k1
  <2>3. Part(Before(g, n), s, k) /\ Before(g, n).memsz = n /\ Before(g, n).dstaddr = g.dstaddr
    BY <1>1, <2>1, BeforeFact
  <2>4. Part(From(g, n), s, k + n) /\ From(g, n).memsz = z - n /\ From(g, n).dstaddr = g.dstaddr + n
    BY <1>1, <2>1, FromFact
  <2> QED BY <1>1, <2>2, <2>3, <2>4 DEF n
<1>8. /\ Part(rest, s, k1) /\ rest.dstaddr = x1 /\ rest.memsz = (x + z) - x1
      /\ k1 \in Nat /\ x1 \in Nat /\ k <= k1 /\ k1 < k + z /\ x1 < lb_end
      /\ s.compression = NONE => lb_start <= x1
      /\ early => k1 = k + (lb_start - x)
      /\ ~early => k1 = k
  <2>1. CASE early
    <3>1. k1 = k + (lb_start - x)
      BY <2>1
    <3>2. x1 = lb_start /\ x1 = x + (lb_start - x) /\ (x + z) - x1 = z - (lb_start - x)
      BY <1>2, <3>1, Numbers
    <3> HIDE DEF rest, k1, x1, early
    <3>3. k1 \in Nat /\ x1 \in Nat /\ k <= k1 /\ k1 < k + z /\ x1 < lb_end
      BY <1>2, <1>6, <2>1, <3>1, <3>2, Numbers
    <3> QED BY <1>7, <2>1, <3>1, <3>2, <3>3, Numbers
  <2>2. CASE ~early
    <3>1. k1 = k /\ rest = g /\ x1 = x
      BY <2>2
    <3>2. s.compression = NONE => lb_start <= x
      BY <1>1, <1>2, <2>2, Numbers
    <3> HIDE DEF rest, k1, x1, early
    <3>3. (x + z) - x1 = z /\ k < k + z /\ x < lb_end
      BY <1>2, <1>3, <3>1, Numbers
    <3> QED BY <1>1, <1>2, <2>2, <3>1, <3>2, <3>3
  <2> QED BY <2>1, <2>2
<1>9. late <=> s.compression = NONE /\ x + z > lb_end
  <2>1. rest.dstaddr + rest.memsz = x + z
    <3> HIDE DEF rest, k1, x1
    <3> QED BY <1>2, <1>8
  <2> QED BY <1>2, <2>1
<1> HIDE DEF rest, k1, x1, early
<1>10. ASSUME late
       PROVE  /\ Part(inner, s, k1) /\ inner.memsz = z1 /\ inner.dstaddr = x1
              /\ Part(last, s, k2) /\ last.memsz = ((x + z) - x1) - z1 /\ last.dstaddr = x1 + z1
  <2>1. z1 = lb_end - x1 /\ s.compression = NONE
    BY <1>9, <1>10
  <2>2. z1 \in Nat \ {0} /\ z1 < rest.memsz
    BY <1>2, <1>8, <1>9, <1>10, <2>1, Numbers
  <2>3. inner = Before(rest, z1) /\ last = From(rest, z1)
    BY <1>8, <1>10, <2>1
  <2> HIDE DEF z1, inner, last
  <2>4. Part(Before(rest, z1), s, k1) /\ Before(rest, z1).memsz = z1
        /\ Before(rest, z1).dstaddr = rest.dstaddr
    BY <1>1, <1>8, <2>1, <2>2, BeforeFact
  <2>5. Part(From(rest, z1), s, k1 + z1) /\ From(rest, z1).memsz = rest.memsz - z1
        /\ From(rest, z1).dstaddr = rest.dstaddr + z1
    BY <1>1, <1>8, <2>1, <2>2, FromFact
  <2> QED BY <1>8, <2>3, <2>4, <2>5
<1>11. /\ Part(inner, s, k1) /\ inner.memsz = z1 /\ inner.dstaddr = x1
       /\ s.compression = NONE => x1 + z1 <= lb_end
       /\ z1 \in Nat \ {0} /\ k2 \in Nat
       /\ ~late => k2 = k + z
       /\ late => k2 < k + z /\ ((x + z) - x1) - z1 = (k + z) - k2 /\ x1 + z1 = s.load_addr + k2
  <2>0. x1 = s.load_addr + k1 /\ x = s.load_addr + k
    BY DEF x1
  <2>1. CASE late
    <3>1. z1 = lb_end - x1
      BY <2>1
    <3>2. /\ x1 + z1 = lb_end /\ z1 \in Nat \ {0} /\ z1 < (x + z) - x1
      BY <1>2, <1>8, <1>9, <2>1, <3>1, Numbers
    <3> HIDE DEF z1, inner, late
    <3>3. /\ k2 \in Nat /\ k2 < k + z /\ ((x + z) - x1) - z1 = (k + z) - k2 /\ x1 + z1 = s.load_addr + k2
      BY <1>2, <1>8, <2>0, <3>2
    <3> QED BY <1>10, <2>1, <3>2, <3>3, <1>2, <1>8, Numbers
  <2>2. CASE ~late
    <3>1. z1 = (x + z) - x1 /\ inner = rest
      BY <2>2
    <3>2. s.compression = NONE => x + z <= lb_end
      BY <1>2, <1>9, <2>2, Numbers
    <3> HIDE DEF z1, inner, late
    <3>3. z1 \in Nat \ {0} /\ k2 = k + z /\ x1 + z1 = x + z
      BY <1>2, <1>8, <2>0, <3>1
    <3> QED BY <1>2, <1>8, <2>2, <3>1, <3>2, <3>3
  <2> QED BY <2>1, <2>2
<1>12. Part(moved, s, k1) /\ Moved(moved, s, k1, B) /\ moved.memsz = z1
  <2> DEFINE b == B + (x1 - lb_start)
  <2>1. b \in Int
    BY <1>2, <1>8, Numbers
  <2>2. moved = [inner EXCEPT !.dstaddr = b]
    BY <1>11
  <2> HIDE DEF moved, inner, b, z1, late
  <2>3. Part(moved, s, k1) /\ moved.dstaddr = b /\ moved.memsz = inner.memsz
    BY <1>11, <2>1, <2>2, MoveFact
  <2> QED BY <1>1, <1>8, <1>11, <2>3 DEF Moved, b, x1
<1>13. late => Piece(last, s, k2, B) /\ last.memsz = (k + z) - k2
  <2> HIDE DEF last, z1, inner, late
  <2> QED BY <1>10, <1>11 DEF Piece, Stays
<1>14. early => Piece(first, s, k, B) /\ first.memsz = k1 - k /\ ~overlaps_coreboot(first)
  <2> SUFFICES ASSUME early PROVE Piece(first, s, k, B) /\ first.memsz = k1 - k /\ ~overlaps_coreboot(first)
    OBVIOUS
  <2>1. Part(first, s, k) /\ first.memsz = lb_start - x /\ first.dstaddr = x
    BY <1>7
  <2> HIDE DEF first
  <2>2. first.memsz = k1 - k /\ first.dstaddr + first.memsz = lb_start
    BY <1>2, <1>8, <2>1, Numbers
  <2>3. ~overlaps_coreboot(first)
    BY <2>2, Numbers DEF overlaps_coreboot
  <2> QED BY <2>1, <2>2, <2>3 DEF Piece, Stays
<1>15. Piece(moved, s, k1, B) /\ ~overlaps_coreboot(moved)
  BY <1>12, MovedFar DEF Piece
<1>16. /\ moved \in SegRec
       /\ early => first \in SegRec
       /\ late => last \in SegRec
  BY <1>13, <1>14, <1>15 DEF Piece, Part
<1>17. relocate_segment(g) = (IF early THEN <<first>> ELSE <<>>) \o <<moved>>
                              \o (IF late THEN <<last>> ELSE <<>>)
  BY <1>4 DEF early, rest
<1> HIDE DEF first, moved, last, inner, z1, late
<1>18. k1 \in Nat /\ k2 \in Nat /\ k2 = k1 + z1 /\ z1 \in Nat
  BY <1>8, <1>11
<1> HIDE DEF k2
<1>19. ASSUME NEW d \in Nat, k <= d, d < k + z
       PROVE  \/ Covers(moved, s, k1, B, d)
              \/ early /\ Covers(first, s, k, B, d)
              \/ late /\ Covers(last, s, k2, B, d)
  <2>1. CASE d < k1
    <3>1. early
      BY <1>2, <1>8, <1>19, <2>1
    <3> QED BY <1>2, <1>14, <1>18, <1>19, <2>1, <3>1 DEF Covers
  <2>2. CASE k1 <= d /\ d < k2
    BY <1>12, <1>15, <1>18, <2>2 DEF Covers
  <2>3. CASE k2 <= d
    <3>1. late
      BY <1>2, <1>11, <1>18, <1>19, <2>3
    <3> QED BY <1>2, <1>13, <1>18, <1>19, <2>3, <3>1 DEF Covers
  <2> QED BY <1>18, <2>1, <2>2, <2>3
<1> DEFINE ps == relocate_segment(g)
<1>20. CASE ~early /\ ~late
  <2>1. ps = <<moved>> /\ ps \in Seq(SegRec)
    BY <1>16, <1>17, <1>20, OnePiece
  <2> HIDE DEF ps
  <2>2. Len(ps) = 1 /\ ps[1] = moved /\ 1 .. Len(ps) = {1}
    BY <2>1
  <2> QED BY <1>15, <1>18, <1>19, <1>20, <2>1, <2>2 DEF Cut, ps
<1>21. CASE early /\ ~late
  <2>1. ps = <<first, moved>> /\ ps \in Seq(SegRec)
    BY <1>16, <1>17, <1>21, OnePiece, TwoPieces
  <2> HIDE DEF ps
  <2>2. Len(ps) = 2 /\ ps[1] = first /\ ps[2] = moved /\ 1 .. Len(ps) = {1, 2}
    BY <2>1
  <2> QED BY <1>2, <1>14, <1>15, <1>18, <1>19, <1>21, <2>1, <2>2 DEF Cut, ps
<1>22. CASE ~early /\ late
  <2>1. ps = <<moved, last>> /\ ps \in Seq(SegRec)
    BY <1>16, <1>17, <1>22, OnePiece, TwoPieces
  <2> HIDE DEF ps
  <2>2. Len(ps) = 2 /\ ps[1] = moved /\ ps[2] = last /\ 1 .. Len(ps) = {1, 2}
    BY <2>1
  <2> QED BY <1>13, <1>15, <1>18, <1>19, <1>22, <2>1, <2>2 DEF Cut, ps
<1>23. CASE early /\ late
  <2>1. ps = <<first, moved, last>> /\ ps \in Seq(SegRec)
    <3>1. ps = (<<first>> \o <<moved>>) \o <<last>>
      BY <1>17, <1>23
    <3>2. first \in SegRec /\ moved \in SegRec /\ last \in SegRec
      BY <1>16, <1>23
    <3>3. <<first>> \o <<moved>> = <<first, moved>>
      BY <3>2, TwoPieces
    <3>4. <<first, moved>> \o <<last>> = <<first, moved, last>>
          /\ <<first, moved, last>> \in Seq(SegRec)
      BY <3>2, ThreePieces, Zenon
    <3> HIDE DEF ps
    <3> QED BY <3>1, <3>3, <3>4, Zenon
  <2> HIDE DEF ps
  <2>2. Len(ps) = 3 /\ ps[1] = first /\ ps[2] = moved /\ ps[3] = last /\ 1 .. Len(ps) = {1, 2, 3}
    BY <2>1
  <2> QED BY <1>2, <1>13, <1>14, <1>15, <1>18, <1>19, <1>23, <2>1, <2>2 DEF Cut, ps
<1> QED BY <1>20, <1>21, <1>22, <1>23

-----------------------------------------------------------------------------
(* The loop of load_self_segments *)

\* The d-th cell of segment s is where the loader puts it.
Done(m, s, d, B) ==
    LET n == IF s.compression = LZMA THEN s.out ELSE segment(s).filesz
        c == m[Loc(s.load_addr + d, B)]
    IN  /\ d < n => c = Data(s.offset + d)
        /\ ~(d < n) /\ (s.compression = LZMA \/ ~overlaps_coreboot(segment(s))) => c = Zero

\* A payload and a buffer that fits.
Prepared(p, B) ==
    /\ BufferRoom(B)
    /\ \A i \in DOMAIN p : RoomFor(p[i], B)
    /\ \A i \in Wanted(p) : p[i].len # 0
    /\ \A i, j \in DOMAIN p : i # j => Span(p[i]) \cap Span(p[j]) = {}

\* The segments of the list from n on are pieces, and every cell of the file
\* is in place or part of one of them.
Loading(sg, n, p, m, B) ==
    /\ sg \in Seq(SegRec) /\ n \in 1 .. Len(sg) + 1
    /\ \A j \in n .. Len(sg) : \E i \in DOMAIN p : \E k \in Nat : Piece(sg[j], p[i], k, B)
    /\ \A i \in Wanted(p) : \A d \in Nat : d < p[i].mem_len =>
          \/ Done(m, p[i], d, B)
          \/ \E j \in n .. Len(sg) : \E k \in Nat : Covers(sg[j], p[i], k, B, d)

\* Memory above 1 MiB that is not free is as it was; coreboot is whole too.
OthersKept(m) == \A a \in Cells : a >= one_meg /\ a \notin FreeRam => m[a] = Old(a)
Kept(m) == OthersKept(m) /\ \A a \in Coreboot : m[a] = Image(a)

\* What becomes of one segment at the loop's turn.
Pieces(g) == IF overlaps_coreboot(g) THEN relocate_segment(g) ELSE <<g>>

LEMMA PiecesFact ==
    ASSUME NEW s, NEW k, NEW g, NEW B, B = bounce_buffer, BufferRoom(B), RoomFor(s, B),
           Piece(g, s, k, B)
    PROVE  Cut(Pieces(g), g, s, k, B)
<1>1. CASE overlaps_coreboot(g)
  BY <1>1, CutFact DEF Pieces
<1>2. CASE ~overlaps_coreboot(g)
  <2> DEFINE ps == <<g>>
  <2>1. g \in SegRec /\ k \in Nat
    BY DEF Piece, Part
  <2>2. ps \in Seq(SegRec) /\ Len(ps) = 1 /\ ps[1] = g /\ 1 .. Len(ps) = {1}
    BY <2>1
  <2> HIDE DEF ps
  <2>3. Cut(ps, g, s, k, B)
    BY <1>2, <2>1, <2>2 DEF Cut, Covers
  <2> QED BY <1>2, <2>3 DEF Pieces, ps
<1> QED BY <1>1, <1>2

\* A list with its n-th element replaced.
Spliced(new, sg, n, ps) ==
    /\ new \in Seq(SegRec) /\ Len(new) = Len(sg) + (Len(ps) - 1)
    /\ \A q \in 1 .. Len(ps) : new[(n - 1) + q] = ps[q]
    /\ \A j \in n + 1 .. Len(sg) : new[j + (Len(ps) - 1)] = sg[j]

LEMMA SpliceFact ==
    ASSUME NEW sg \in Seq(SegRec), NEW n \in 1 .. Len(sg), NEW ps \in Seq(SegRec)
    PROVE  Spliced(SubSeq(sg, 1, n - 1) \o ps \o SubSeq(sg, n + 1, Len(sg)), sg, n, ps)
<1> DEFINE S == SegRec
           a == SubSeq(sg, 1, n - 1)
           c == SubSeq(sg, n + 1, Len(sg))
           b == a \o ps
           new == b \o c
           l == Len(sg)
           r == Len(ps)
<1>1. sg \in Seq(S) /\ ps \in Seq(S) /\ l \in Nat /\ r \in Nat /\ n \in Nat /\ 1 <= n /\ n <= l
  OBVIOUS
<1> HIDE DEF S
<1>2. a \in Seq(S) /\ Len(a) = n - 1
  BY <1>1
<1>3. c \in Seq(S) /\ Len(c) = l - n /\ \A i \in 1 .. l - n : c[i] = sg[n + i]
  <2>1. c \in Seq(S) /\ Len(c) = l - n
    BY <1>1
  <2>2. ASSUME NEW i \in 1 .. l - n PROVE c[i] = sg[n + i]
    <3>1. c[i] = sg[((n + 1) + i) - 1]
      BY <1>1
    <3>2. ((n + 1) + i) - 1 = n + i
      BY <1>1
    <3> QED BY <3>1, <3>2
  <2> QED BY <2>1, <2>2
<1> HIDE DEF a, c
<1>4. b \in Seq(S) /\ Len(b) = (n - 1) + r /\ \A q \in 1 .. r : b[(n - 1) + q] = ps[q]
  <2>1. b \in Seq(S) /\ Len(b) = Len(a) + r /\ \A q \in 1 .. r : b[Len(a) + q] = ps[q]
    BY <1>1, <1>2
  <2> QED BY <1>2, <2>1
<1> HIDE DEF b
<1>5. /\ new \in Seq(S) /\ Len(new) = ((n - 1) + r) + (l - n)
      /\ \A i \in 1 .. (n - 1) + r : new[i] = b[i]
      /\ \A i \in 1 .. l - n : new[((n - 1) + r) + i] = c[i]
  <2>1. /\ new \in Seq(S) /\ Len(new) = Len(b) + Len(c)
        /\ \A i \in 1 .. Len(b) : new[i] = b[i]
        /\ \A i \in 1 .. Len(c) : new[Len(b) + i] = c[i]
    <3>1. b \in Seq(S) /\ c \in Seq(S)
      BY <1>3, <1>4
    <3> QED BY <3>1
  <2> HIDE DEF new
  <2> QED BY <1>3, <1>4, <2>1
<1> HIDE DEF new, l, r
<1>6. Len(new) = l + (r - 1)
  BY <1>1, <1>5
<1>7. ASSUME NEW q \in 1 .. r PROVE new[(n - 1) + q] = ps[q]
  <2>1. (n - 1) + q \in 1 .. (n - 1) + r
    BY <1>1
  <2> QED BY <1>4, <1>5, <2>1
<1>8. ASSUME NEW j \in n + 1 .. l PROVE new[j + (r - 1)] = sg[j]
  <2>1. j - n \in 1 .. l - n /\ ((n - 1) + r) + (j - n) = j + (r - 1) /\ n + (j - n) = j
    BY <1>1
  <2> QED BY <1>3, <1>5, <2>1
<1> QED BY <1>5, <1>6, <1>7, <1>8 DEF Spliced, new, a, b, c, l, r, S

\* The cell is done when its piece is loaded.
LEMMA LoadedDone ==
    ASSUME NEW s, NEW k, NEW g, NEW B, BufferRoom(B), RoomFor(s, B), NEW d \in Nat,
           Covers(g, s, k, B, d), NEW m, NEW m2, Loaded(m2, m, g, s.load_addr + k, B)
    PROVE  Done(m2, s, d, B)
<1> DEFINE x == s.load_addr + k
           n == IF s.compression = LZMA THEN s.out ELSE segment(s).filesz
           e == d - k
<1>1. Part(g, s, k) /\ k <= d /\ d < k + g.memsz
  BY DEF Covers, Piece
<1>2. /\ s.load_addr \in Nat /\ k \in Nat /\ g.memsz \in Nat \ {0} /\ InFile(g) \in Nat
  BY <1>1, PieceNumbers
<1>3. e \in Nat /\ e < g.memsz /\ k + e = d /\ x + e = s.load_addr + d
  BY <1>1, <1>2
<1>4. m2[Loc(x + e, B)] = IF e < InFile(g) THEN Data(g.srcaddr + e) ELSE Zero
  BY <1>3 DEF Loaded
<1>5. g.srcaddr = s.offset + k /\ s.offset \in Nat
  BY <1>1 DEF Part, RoomFor, Segment
<1>6. g.srcaddr + e = s.offset + d
  BY <1>2, <1>3, <1>5
<1>7. e < InFile(g) <=> d < n
  <2>1. g.compression = s.compression /\ g.out = s.out
    BY <1>1 DEF Part
  <2>2. CASE s.compression = LZMA
    <3>1. k = 0
      BY <1>1, <2>2 DEF Part
    <3>2. e = d
      BY <3>1
    <3> QED BY <2>1, <2>2, <3>2 DEF InFile
  <2>3. CASE s.compression # LZMA
    <3>1. e < g.filesz <=> k + e < segment(s).filesz
      BY <1>1, <1>3 DEF Part
    <3> QED BY <1>3, <2>1, <2>3, <3>1 DEF InFile
  <2> QED BY <2>2, <2>3
<1> HIDE DEF e, n, x
<1>8. m2[Loc(s.load_addr + d, B)] = IF d < n THEN Data(s.offset + d) ELSE Zero
  BY <1>3, <1>4, <1>6, <1>7
<1> QED BY <1>8 DEF Done, n

\* A piece without data of a segment with data is behind its data.
LEMMA EmptyDone ==
    ASSUME NEW s, NEW k, NEW g, NEW B, BufferRoom(B), RoomFor(s, B), NEW d \in Nat,
           Covers(g, s, k, B, d), g.filesz = 0, s.type # "bss", s.len # 0, NEW m
    PROVE  Done(m, s, d, B)
<1> DEFINE f == segment(s).filesz
           e == d - k
<1>1. Part(g, s, k) /\ k <= d /\ d < k + g.memsz
  BY DEF Covers, Piece
<1>2. /\ s.load_addr \in Nat /\ k \in Nat /\ g.memsz \in Nat \ {0} /\ s.mem_len \in Nat \ {0}
  BY <1>1, PieceNumbers
<1>3. e \in Nat /\ e < g.memsz /\ k + e = d
  BY <1>1, <1>2
<1>4. f \in Nat \ {0}
  <2>1. s.len \in Nat
    BY DEF RoomFor, Segment
  <2>2. f = IF s.len > s.mem_len THEN s.mem_len ELSE s.len
    BY DEF segment
  <2> HIDE DEF f
  <2> QED BY <1>2, <2>1, <2>2
<1> HIDE DEF f
<1>5. \A b \in Nat : b < g.memsz => (b < 0 <=> k + b < f)
  BY <1>1 DEF Part, f
<1>6. ~(s.compression = LZMA \/ ~overlaps_coreboot(segment(s)))
  <2> SUFFICES ASSUME s.compression = LZMA \/ ~overlaps_coreboot(segment(s)) PROVE FALSE
    OBVIOUS
  <2>1. k = 0
    BY <1>1 DEF Part
  <2>2. 0 < 0 <=> k + 0 < f
    BY <1>2, <1>5
  <2> QED BY <1>4, <2>1, <2>2
<1>7. ~(d < f)
  <2>1. e < 0 <=> k + e < f
    BY <1>3, <1>5
  <2> QED BY <1>3, <2>1
<1> QED BY <1>6, <1>7 DEF Done, f

\* One turn that loads: what was done stays done.
LEMMA DoneStays ==
    ASSUME NEW p, NEW B, Prepared(p, B), NEW i \in DOMAIN p, NEW d \in Nat, d < p[i].mem_len,
           NEW j \in DOMAIN p, NEW k, NEW g, Piece(g, p[j], k, B), ~overlaps_coreboot(g),
           ~Covers(g, p[i], k, B, d), NEW m, NEW m2, Loaded(m2, m, g, p[j].load_addr + k, B),
           Done(m, p[i], d, B)
    PROVE  Done(m2, p[i], d, B)
<1> DEFINE a == p[i].load_addr + d
           x == p[j].load_addr + k
<1>1. BufferRoom(B) /\ RoomFor(p[i], B) /\ RoomFor(p[j], B)
  BY DEF Prepared
<1>2. /\ p[i].load_addr \in Nat /\ p[i].mem_len \in Nat \ {0}
      /\ (p[i].load_addr + p[i].mem_len) + lb_start <= B
      /\ \A c \in Int : p[i].load_addr <= c /\ c < p[i].load_addr + p[i].mem_len => c \in Cells
  BY <1>1 DEF RoomFor, Segment
<1>3. /\ p[j].load_addr \in Nat /\ p[j].mem_len \in Nat \ {0} /\ k \in Nat /\ g.memsz \in Nat \ {0}
      /\ k + g.memsz <= p[j].mem_len /\ B \in Nat /\ x \in Nat
  BY <1>1, PieceNumbers DEF Piece
<1>4. /\ a \in Int /\ a \in Cells /\ a + lb_start < B
      /\ p[i].load_addr <= a /\ a < p[i].load_addr + p[i].mem_len
  BY <1>2, <1>3, Numbers
<1>5. ~(x <= a /\ a < x + g.memsz)
  <2> SUFFICES ASSUME x <= a, a < x + g.memsz PROVE FALSE
    OBVIOUS
  <2>1. CASE i = j
    <3>1. k <= d /\ d < k + g.memsz
      BY <1>2, <1>3, <2>1
    <3> QED BY <2>1, <3>1 DEF Covers
  <2>2. CASE i # j
    <3>1. p[j].load_addr <= a /\ a < p[j].load_addr + p[j].mem_len
      BY <1>3, <1>4
    <3>2. a \in Span(p[i])
      BY <1>2, <1>4 DEF Span
    <3>3. a \in Span(p[j])
      BY <1>3, <1>4, <3>1 DEF Span
    <3> QED BY <2>2, <3>2, <3>3 DEF Prepared
  <2> QED BY <2>1, <2>2
<1>6. Loc(a, B) \in Cells /\ Untouched(Loc(a, B), g, x)
  <2> HIDE DEF a
  <2> QED BY <1>1, <1>4, <1>5, LoadFrame
<1>7. m2[Loc(a, B)] = m[Loc(a, B)]
  BY <1>6 DEF Loaded
<1> QED BY <1>7 DEF Done

\* Where the elements of the new list behind the n-th come from.
LEMMA SplicedFrom ==
    ASSUME NEW sg \in Seq(SegRec), NEW n \in 1 .. Len(sg), NEW ps \in Seq(SegRec),
           Len(ps) \in Nat \ {0}, NEW new, Spliced(new, sg, n, ps)
    PROVE  /\ Len(new) \in Nat /\ Len(sg) \in Nat /\ n \in Nat /\ n <= Len(new)
           /\ \A j \in n .. Len(new) :
                 \/ \E q \in 1 .. Len(ps) : j = (n - 1) + q /\ new[j] = ps[q]
                 \/ \E h \in n + 1 .. Len(sg) : new[j] = sg[h]
           /\ \A q \in 1 .. Len(ps) : (n - 1) + q \in n .. Len(new) /\ new[(n - 1) + q] = ps[q]
           /\ \A h \in n + 1 .. Len(sg) :
                 h + (Len(ps) - 1) \in n + 1 .. Len(new) /\ new[h + (Len(ps) - 1)] = sg[h]
<1> DEFINE l == Len(sg)
           r == Len(ps)
           t == Len(new)
<1>1. l \in Nat /\ r \in Nat \ {0} /\ n \in Nat /\ 1 <= n /\ n <= l /\ t = l + (r - 1)
  BY DEF Spliced
<1>2. /\ \A q \in 1 .. r : new[(n - 1) + q] = ps[q]
      /\ \A j \in n + 1 .. l : new[j + (r - 1)] = sg[j]
  BY DEF Spliced
<1> HIDE DEF l, r, t
<1>3. t \in Nat /\ n <= t
  BY <1>1
<1>4. ASSUME NEW q \in 1 .. r PROVE (n - 1) + q \in n .. t
  BY <1>1
<1>5. ASSUME NEW h \in n + 1 .. l PROVE h + (r - 1) \in n + 1 .. t
  BY <1>1
<1>6. ASSUME NEW j \in n .. t
      PROVE  \/ \E q \in 1 .. r : j = (n - 1) + q /\ new[j] = ps[q]
             \/ \E h \in n + 1 .. l : new[j] = sg[h]
  <2>1. CASE j <= (n - 1) + r
    <3>1. j - (n - 1) \in 1 .. r /\ j = (n - 1) + (j - (n - 1))
      BY <1>1, <2>1
    <3> QED BY <1>2, <3>1
  <2>2. CASE ~(j <= (n - 1) + r)
    <3>1. j - (r - 1) \in n + 1 .. l /\ j = (j - (r - 1)) + (r - 1)
      BY <1>1, <2>2
    <3> QED BY <1>2, <3>1
  <2> QED BY <2>1, <2>2
<1> QED BY <1>1, <1>2, <1>3, <1>4, <1>5, <1>6 DEF l, r, t

\* The turn that goes back only cuts the segment.
LEMMA TurnBack ==
    ASSUME NEW sg, NEW n, NEW p, NEW m, NEW B, B = bounce_buffer, Prepared(p, B),
           Loading(sg, n, p, m, B), n <= Len(sg),
           NEW new, Spliced(new, sg, n, Pieces(sg[n]))
    PROVE  Loading(new, n, p, m, B)
<1> DEFINE g == sg[n]
           ps == Pieces(g)
<1>1. sg \in Seq(SegRec) /\ n \in 1 .. Len(sg) + 1
  BY DEF Loading
<1>2. n \in 1 .. Len(sg) /\ n \in n .. Len(sg)
  BY <1>1
<1>3. PICK i1 \in DOMAIN p : \E k \in Nat : Piece(g, p[i1], k, B)
  BY <1>2 DEF Loading
<1>4. PICK k1 \in Nat : Piece(g, p[i1], k1, B)
  BY <1>3
<1>5. BufferRoom(B) /\ \A i \in DOMAIN p : RoomFor(p[i], B)
  BY DEF Prepared
<1>6. \A i \in DOMAIN p : \A k : Piece(g, p[i], k, B) => Cut(ps, g, p[i], k, B)
  BY <1>5, PiecesFact
<1> HIDE DEF g, ps
<1>7. ps \in Seq(SegRec) /\ Len(ps) \in Nat \ {0}
      /\ \A q \in 1 .. Len(ps) : \E k \in Nat : Piece(ps[q], p[i1], k, B)
  BY <1>4, <1>6 DEF Cut
<1>8. /\ Len(new) \in Nat /\ Len(sg) \in Nat /\ n \in Nat /\ n <= Len(new)
      /\ \A j \in n .. Len(new) :
            \/ \E q \in 1 .. Len(ps) : j = (n - 1) + q /\ new[j] = ps[q]
            \/ \E h \in n + 1 .. Len(sg) : new[j] = sg[h]
      /\ \A q \in 1 .. Len(ps) : (n - 1) + q \in n .. Len(new) /\ new[(n - 1) + q] = ps[q]
      /\ \A h \in n + 1 .. Len(sg) :
            h + (Len(ps) - 1) \in n + 1 .. Len(new) /\ new[h + (Len(ps) - 1)] = sg[h]
  BY <1>1, <1>2, <1>7, SplicedFrom DEF g, ps
<1>9. new \in Seq(SegRec) /\ n \in 1 .. Len(new) + 1
  BY <1>1, <1>8 DEF Spliced
<1>10. ASSUME NEW j \in n .. Len(new)
       PROVE  \E i \in DOMAIN p : \E k \in Nat : Piece(new[j], p[i], k, B)
  <2>1. CASE \E q \in 1 .. Len(ps) : j = (n - 1) + q /\ new[j] = ps[q]
    BY <1>7, <2>1
  <2>2. CASE \E h \in n + 1 .. Len(sg) : new[j] = sg[h]
    <3>1. PICK h \in n + 1 .. Len(sg) : new[j] = sg[h]
      BY <2>2
    <3>2. h \in n .. Len(sg)
      BY <1>8
    <3> QED BY <3>1, <3>2 DEF Loading
  <2> QED BY <1>8, <2>1, <2>2
<1>11. ASSUME NEW i \in Wanted(p), NEW d \in Nat, d < p[i].mem_len
       PROVE  \/ Done(m, p[i], d, B)
              \/ \E j \in n .. Len(new) : \E k \in Nat : Covers(new[j], p[i], k, B, d)
  <2>0. i \in DOMAIN p
    BY DEF Wanted
  <2>1. ASSUME NEW j \in n .. Len(sg), NEW k \in Nat, Covers(sg[j], p[i], k, B, d)
        PROVE  \E h \in n .. Len(new) : \E e \in Nat : Covers(new[h], p[i], e, B, d)
    <3>1. CASE j = n
      <4>1. Cut(ps, g, p[i], k, B) /\ k <= d /\ d < k + g.memsz
        BY <1>6, <2>0, <2>1, <3>1 DEF Covers, g
      <4>2. PICK q \in 1 .. Len(ps) : \E e \in Nat : Covers(ps[q], p[i], e, B, d)
        BY <4>1 DEF Cut
      <4> QED BY <1>8, <4>2
    <3>2. CASE j # n
      <4>1. j \in n + 1 .. Len(sg)
        BY <1>8, <3>2
      <4>2. j + (Len(ps) - 1) \in n + 1 .. Len(new) /\ new[j + (Len(ps) - 1)] = sg[j]
        BY <1>8, <4>1
      <4>3. j + (Len(ps) - 1) \in n .. Len(new)
        BY <1>8, <4>2
      <4> QED BY <2>1, <4>2, <4>3
    <3> QED BY <3>1, <3>2
  <2> QED BY <1>11, <2>1 DEF Loading
<1> QED BY <1>9, <1>10, <1>11 DEF Loading

\* A turn that loads the segment at n, which is not in coreboot's memory.
LEMMA LoadHead ==
    ASSUME NEW sg, NEW n, NEW p, NEW m, NEW B, B = bounce_buffer, Prepared(p, B),
           Loading(sg, n, p, m, B), n <= Len(sg), ~overlaps_coreboot(sg[n]), Kept(m),
           NEW m2, m2 = IF sg[n].filesz = 0 THEN m ELSE MovedAround(Copied(m, sg[n]), sg[n])
    PROVE  Loading(sg, n + 1, p, m2, B) /\ Kept(m2)
<1> DEFINE g == sg[n]
<1>1. sg \in Seq(SegRec) /\ n \in 1 .. Len(sg) + 1 /\ Len(sg) \in Nat
  BY DEF Loading
<1>2. /\ n \in 1 .. Len(sg) /\ n \in n .. Len(sg) /\ n + 1 \in 1 .. Len(sg) + 1
      /\ n .. Len(sg) = {n} \cup (n + 1 .. Len(sg))
  BY <1>1
<1>3. PICK i1 \in DOMAIN p : \E k \in Nat : Piece(g, p[i1], k, B)
  BY <1>2 DEF Loading
<1>4. PICK k1 \in Nat : Piece(g, p[i1], k1, B)
  BY <1>3
<1>5. BufferRoom(B) /\ \A i \in DOMAIN p : RoomFor(p[i], B)
  BY DEF Prepared
<1> HIDE DEF g
<1>6. ~overlaps_coreboot(g) /\ m2 = IF g.filesz = 0 THEN m ELSE MovedAround(Copied(m, g), g)
  BY DEF g
<1>7. ASSUME g.filesz # 0, NEW i \in DOMAIN p, NEW k, Piece(g, p[i], k, B)
      PROVE  Loaded(m2, m, g, p[i].load_addr + k, B)
  BY <1>5, <1>6, <1>7, LoadPiece
<1>8. ASSUME NEW i \in Wanted(p), NEW d \in Nat, d < p[i].mem_len
      PROVE  \/ Done(m2, p[i], d, B)
             \/ \E j \in n + 1 .. Len(sg) : \E k \in Nat : Covers(sg[j], p[i], k, B, d)
  <2>0. i \in DOMAIN p /\ p[i].type # "bss" /\ p[i].len # 0
    BY DEF Wanted, Prepared
  <2>1. CASE \E k \in Nat : Covers(g, p[i], k, B, d)
    <3>1. PICK k \in Nat : Covers(g, p[i], k, B, d)
      BY <2>1
    <3>2. CASE g.filesz = 0
      BY <1>5, <2>0, <3>1, <3>2, EmptyDone
    <3>3. CASE g.filesz # 0
      <4>1. Loaded(m2, m, g, p[i].load_addr + k, B)
        BY <1>7, <2>0, <3>1, <3>3 DEF Covers
      <4> QED BY <1>5, <2>0, <3>1, <4>1, LoadedDone
    <3> QED BY <3>2, <3>3
  <2>2. CASE ~\E k \in Nat : Covers(g, p[i], k, B, d)
    <3>1. CASE Done(m, p[i], d, B)
      <4>1. CASE g.filesz = 0
        BY <1>6, <3>1, <4>1
      <4>2. CASE g.filesz # 0
        <5>1. Loaded(m2, m, g, p[i1].load_addr + k1, B)
          BY <1>4, <1>7, <4>2
        <5>2. ~Covers(g, p[i], k1, B, d)
          BY <2>2
        <5> QED BY <1>4, <1>6, <1>8, <2>0, <3>1, <5>1, <5>2, DoneStays
      <4> QED BY <4>1, <4>2
    <3>2. CASE ~Done(m, p[i], d, B)
      <4>1. PICK j \in n .. Len(sg) : \E k \in Nat : Covers(sg[j], p[i], k, B, d)
        BY <1>8, <3>2 DEF Loading
      <4>2. j # n
        BY <2>2, <4>1 DEF g
      <4>3. j \in n + 1 .. Len(sg)
        BY <1>2, <4>2
      <4> QED BY <4>1, <4>3
    <3> QED BY <3>1, <3>2
  <2> QED BY <2>1, <2>2
<1>9. Loading(sg, n + 1, p, m2, B)
  BY <1>1, <1>2, <1>8 DEF Loading
<1>10. Kept(m2)
  <2>1. CASE g.filesz = 0
    BY <1>6, <2>1
  <2>2. CASE g.filesz # 0
    <3>1. Loaded(m2, m, g, p[i1].load_addr + k1, B)
      BY <1>4, <1>7, <2>2
    <3>2. \A c \in Cells : c \in Coreboot \/ (c >= one_meg /\ c \notin FreeRam)
                                => Untouched(c, g, p[i1].load_addr + k1)
      BY <1>4, <1>5, <1>6, LoadFrame
    <3>3. \A c \in Cells : c \in Coreboot \/ (c >= one_meg /\ c \notin FreeRam) => m2[c] = m[c]
      BY <3>1, <3>2 DEF Loaded
    <3>4. Coreboot \subseteq Cells
      BY Numbers
    <3> QED BY <3>3, <3>4 DEF Kept, OthersKept
  <2> QED BY <2>1, <2>2
<1> QED BY <1>9, <1>10

\* One turn of the loop, whichever way it goes.
LEMMA LoadTurn ==
    ASSUME pc = "load", load_self_segment, Prepared(payload, bounce_buffer),
           Loading(segs, ptr, payload, mem, bounce_buffer), Kept(mem)
    PROVE  /\ pc' = "load" => Loading(segs', ptr', payload, mem', bounce_buffer)
           /\ pc' \in {"load", "failed"} /\ Kept(mem') /\ ptr' \in Nat
           /\ payload' = payload /\ bounce_buffer' = bounce_buffer /\ bootmem' = bootmem
           /\ table' = table
<1> DEFINE p == payload
           B == bounce_buffer
           g == segs[ptr]
           ps == Pieces(g)
           back == Len(ps) > 1 /\ ps[1].dstaddr = g.dstaddr
           now == ps[1]
           corrupt == now.filesz # 0 /\ now.compression = LZMA /\ now.out = 0
<1>1. /\ ptr <= Len(segs) /\ segs' = Linked(ps)
      /\ ptr' = (IF back THEN ptr ELSE ptr + 1)
      /\ mem' = (IF back \/ now.filesz = 0 \/ corrupt THEN mem
                 ELSE MovedAround(Copied(mem, now), now))
      /\ pc' = (IF ~back /\ corrupt THEN "failed" ELSE "load")
      /\ payload' = payload /\ bounce_buffer' = bounce_buffer /\ bootmem' = bootmem
      /\ table' = table
  BY DEF load_self_segment, Pieces
<1>2. segs \in Seq(SegRec) /\ ptr \in 1 .. Len(segs) + 1 /\ Len(segs) \in Nat
  BY DEF Loading
<1>3. ptr \in 1 .. Len(segs) /\ ptr \in ptr .. Len(segs) /\ ptr \in Nat
  BY <1>1, <1>2
<1>4. PICK i \in DOMAIN p : \E k \in Nat : Piece(g, p[i], k, B)
  BY <1>3 DEF Loading
<1>5. PICK k \in Nat : Piece(g, p[i], k, B)
  BY <1>4
<1>6. Cut(ps, g, p[i], k, B)
  BY <1>5, PiecesFact DEF Prepared
<1>7. ps \in Seq(SegRec) /\ Len(ps) \in Nat \ {0} /\ ~overlaps_coreboot(now)
  BY <1>6 DEF Cut
<1>8. Spliced(segs', segs, ptr, ps)
  BY <1>1, <1>2, <1>3, <1>7, SpliceFact DEF Linked
<1> HIDE DEF ps
<1>9. Loading(segs', ptr, p, mem, B)
  BY <1>1, <1>8, TurnBack DEF ps
<1>10. segs'[ptr] = now /\ ptr <= Len(segs')
  <2>1. 1 \in 1 .. Len(ps) /\ (ptr - 1) + 1 = ptr
    BY <1>3, <1>7
  <2>2. segs'[(ptr - 1) + 1] = ps[1]
    BY <1>8, <2>1 DEF Spliced
  <2>3. Len(segs') = Len(segs) + (Len(ps) - 1)
    BY <1>8 DEF Spliced
  <2>4. ptr <= Len(segs')
    BY <1>1, <1>2, <1>3, <1>7, <2>3
  <2> QED BY <2>1, <2>2, <2>4
<1> HIDE DEF back, corrupt
<1>11. CASE back
  <2>1. mem' = mem /\ ptr' = ptr /\ pc' = "load"
    BY <1>1, <1>11
  <2> QED BY <1>1, <1>3, <1>9, <2>1
<1>12. CASE ~back /\ corrupt
  <2>1. mem' = mem /\ ptr' = ptr + 1 /\ pc' = "failed"
    BY <1>1, <1>12
  <2> QED BY <1>1, <1>3, <2>1
<1>13. CASE ~back /\ ~corrupt
  <2>1. /\ mem' = IF now.filesz = 0 THEN mem ELSE MovedAround(Copied(mem, now), now)
        /\ ptr' = ptr + 1 /\ pc' = "load"
    BY <1>1, <1>13
  <2>2. Loading(segs', ptr + 1, p, mem', B) /\ Kept(mem')
    <3> HIDE DEF now, p, B
    <3>1. ~overlaps_coreboot(segs'[ptr])
          /\ mem' = IF segs'[ptr].filesz = 0 THEN mem
                    ELSE MovedAround(Copied(mem, segs'[ptr]), segs'[ptr])
      BY <1>7, <1>10, <2>1
    <3>2. B = bounce_buffer /\ Prepared(p, B)
      BY DEF p, B
    <3> QED BY <1>9, <1>10, <3>1, <3>2, LoadHead
  <2> QED BY <1>1, <1>3, <2>1, <2>2
<1> QED BY <1>11, <1>12, <1>13

-----------------------------------------------------------------------------
(* The jump to the payload and back *)

\* The copy of coreboot in the upper part of the buffer.
CopyWhole(m, B) == \A e \in Nat : e < lb_size => m[(B + lb_size) + e] = Image(lb_start + e)

LEMMA BufferCells ==
    ASSUME NEW B, BufferRoom(B)
    PROVE  /\ B \in Nat /\ lb_end + lb_start <= B
           /\ \A a \in Int : B <= a /\ a < B + (lb_size + lb_size) => a \in FreeRam /\ a \in Cells
<1>1. /\ B \in Nat /\ lb_end + lb_start <= B
      /\ \A a \in Int : B - lb_start <= a /\ a < B + (lb_size + lb_size) => a \in FreeRam
  BY DEF BufferRoom
<1>2. ASSUME NEW a \in Int, B <= a, a < B + (lb_size + lb_size)
      PROVE  a \in FreeRam /\ a \in Cells
  <2>1. B - lb_start <= a
    BY <1>1, <1>2, Numbers
  <2>2. a \in FreeRam
    BY <1>1, <1>2, <2>1
  <2> QED BY <2>2, Numbers
<1> QED BY <1>1, <1>2

\* jmp_payload puts the shadow in its place, behind a copy of coreboot.
LEMMA JumpFact ==
    ASSUME NEW B, B = bounce_buffer, BufferRoom(B), NEW m, Kept(m),
           NEW m2, m2 = Jump_then(Jump_first(m))
    PROVE  /\ \A a \in Int : a \in Cells /\ a + lb_start < B => m2[a] = m[Loc(a, B)]
           /\ OthersKept(m2) /\ CopyWhole(m2, B)
<1> DEFINE m1 == Jump_first(m)
           sh == B + lb_size
<1>1. /\ B \in Nat /\ lb_end + lb_start <= B
      /\ \A a \in Int : B <= a /\ a < B + (lb_size + lb_size) => a \in FreeRam /\ a \in Cells
  BY BufferCells
<1>2. sh \in Int /\ lb_start \in Int /\ lb_size \in Int /\ B \in Int
  BY <1>1, Numbers
<1>3. ASSUME NEW c \in Cells
      PROVE  m1[c] = IF sh <= c /\ c < sh + lb_size THEN m[lb_start + (c - sh)] ELSE m[c]
  <2>1. m1 = memcpy(m, sh, lb_start, lb_size)
    BY DEF Jump_first
  <2> HIDE DEF m1, sh
  <2> QED BY <1>2, <2>1, memcpyFact
<1>4. ASSUME NEW c \in Cells
      PROVE  m2[c] = IF c \in Coreboot THEN m1[B + (c - lb_start)] ELSE m1[c]
  <2>1. m2 = memcpy(m1, lb_start, B, lb_size)
    BY DEF Jump_then
  <2> HIDE DEF m1
  <2>2. m2[c] = IF lb_start <= c /\ c < lb_start + lb_size THEN m1[B + (c - lb_start)] ELSE m1[c]
    BY <1>2, <2>1, memcpyFact
  <2>3. lb_start + lb_size = lb_end /\ c \in Int
    BY Numbers
  <2> QED BY <2>2, <2>3, Numbers
<1> HIDE DEF m1, sh
<1>5. sh = B + lb_size /\ sh \in Int
  BY <1>2 DEF sh
<1>6. ASSUME NEW a \in Int, a \in Cells, a + lb_start < B PROVE m2[a] = m[Loc(a, B)]
  <2>1. CASE a \in Coreboot
    <3> DEFINE e == B + (a - lb_start)
    <3>1. lb_start <= a /\ a < lb_end
      BY <2>1, Numbers
    <3>2. e \in Int /\ B <= e /\ e < B + (lb_size + lb_size) /\ ~(sh <= e)
      BY <1>1, <1>5, <3>1, Numbers
    <3>3. e \in Cells
      BY <1>1, <3>2
    <3> HIDE DEF e
    <3>4. m1[e] = m[e]
      BY <1>3, <3>2, <3>3
    <3> QED BY <1>4, <1>6, <2>1, <3>4 DEF Loc, e
  <2>2. CASE a \notin Coreboot
    <3>1. ~(sh <= a)
      BY <1>1, <1>5, <1>6, Numbers
    <3> QED BY <1>3, <1>4, <1>6, <2>2, <3>1 DEF Loc
  <2> QED BY <2>1, <2>2
<1>7. ASSUME NEW a \in Cells, a >= one_meg, a \notin FreeRam PROVE m2[a] = Old(a)
  <2>1. a \in Int /\ a \notin Coreboot
    BY <1>7, Numbers
  <2>2. ~(sh <= a /\ a < sh + lb_size)
    <3> SUFFICES ASSUME sh <= a, a < sh + lb_size PROVE FALSE
      OBVIOUS
    <3>1. B <= a /\ a < B + (lb_size + lb_size)
      BY <1>1, <1>5, <2>1, Numbers
    <3> QED BY <1>1, <1>7, <2>1, <3>1
  <2>3. m2[a] = m[a]
    BY <1>3, <1>4, <2>1, <2>2
  <2> QED BY <1>7, <2>3 DEF Kept, OthersKept
<1>8. ASSUME NEW e \in Nat, e < lb_size PROVE m2[sh + e] = Image(lb_start + e)
  <2> DEFINE c == sh + e
  <2>1. /\ c \in Int /\ B <= c /\ c < B + (lb_size + lb_size) /\ sh <= c /\ c < sh + lb_size
        /\ c - sh = e /\ c >= lb_end
    BY <1>1, <1>5, <1>8, Numbers
  <2>2. c \in Cells /\ c \notin Coreboot
    BY <1>1, <2>1, Numbers
  <2>3. lb_start + e \in Coreboot
    <3>1. lb_start + e \in Int /\ lb_start <= lb_start + e /\ lb_start + e < lb_end
      BY <1>8, Numbers
    <3> QED BY <3>1, Numbers
  <2> HIDE DEF c
  <2>4. m2[c] = m[lb_start + e]
    BY <1>3, <1>4, <2>1, <2>2
  <2> QED BY <2>3, <2>4 DEF Kept, c
<1> QED BY <1>5, <1>6, <1>7, <1>8 DEF OthersKept, CopyWhole

\* The payload does not reach the copy.
LEMMA ReturnFact ==
    ASSUME NEW p, NEW B, Prepared(p, B), NEW m, OthersKept(m), CopyWhole(m, B),
           NEW m2, m2 = [a \in Cells |-> IF \E i \in DOMAIN p : a \in Span(p[i])
                                         THEN <<"payload">> ELSE m[a]]
    PROVE  OthersKept(m2) /\ CopyWhole(m2, B)
<1>1. /\ B \in Nat /\ lb_end + lb_start <= B
      /\ \A a \in Int : B <= a /\ a < B + (lb_size + lb_size) => a \in FreeRam /\ a \in Cells
  BY BufferCells DEF Prepared
<1>2. ASSUME NEW a \in Int, NEW i \in DOMAIN p, a \in Span(p[i])
      PROVE  a < B /\ (a >= one_meg => a \in FreeRam)
  <2>1. RoomFor(p[i], B)
    BY DEF Prepared
  <2>2. p[i].load_addr \in Nat /\ p[i].mem_len \in Nat
    BY <2>1 DEF RoomFor, Segment
  <2>3. p[i].load_addr <= a /\ a < p[i].load_addr + p[i].mem_len
    BY <1>2, <2>2 DEF Span
  <2>4. (p[i].load_addr + p[i].mem_len) + lb_start <= B
    BY <2>1 DEF RoomFor
  <2>5. a < B
    BY <1>1, <2>2, <2>3, <2>4, Numbers
  <2> QED BY <2>1, <2>3, <2>5 DEF RoomFor
<1>3. ASSUME NEW a \in Cells, a >= one_meg, a \notin FreeRam PROVE m2[a] = Old(a)
  <2>1. a \in Int
    BY Numbers
  <2>2. m2[a] = m[a]
    BY <1>2, <1>3, <2>1
  <2> QED BY <1>3, <2>2 DEF OthersKept
<1>4. ASSUME NEW e \in Nat, e < lb_size PROVE m2[(B + lb_size) + e] = Image(lb_start + e)
  <2> DEFINE c == (B + lb_size) + e
  <2>1. c \in Int /\ B <= c /\ c < B + (lb_size + lb_size)
    BY <1>1, <1>4, Numbers
  <2>2. c \in Cells
    BY <1>1, <2>1
  <2>3. ~(c < B)
    BY <1>1, <2>1
  <2> HIDE DEF c
  <2>4. m2[c] = m[c]
    BY <1>2, <2>1, <2>2, <2>3
  <2> QED BY <1>4, <2>4 DEF CopyWhole, c
<1> QED BY <1>3, <1>4 DEF OthersKept, CopyWhole

\* Coreboot is put back from the copy.
LEMMA RestoreFact ==
    ASSUME NEW B, BufferRoom(B), NEW m, OthersKept(m), CopyWhole(m, B),
           NEW m2, m2 = memcpy(m, lb_start, B + lb_size, lb_size)
    PROVE  Kept(m2)
<1>1. B \in Nat /\ B + lb_size \in Int /\ lb_start \in Int /\ lb_size \in Int
  BY Numbers DEF BufferRoom
<1>2. ASSUME NEW c \in Cells
      PROVE  m2[c] = IF c \in Coreboot THEN m[(B + lb_size) + (c - lb_start)] ELSE m[c]
  <2>2. m2[c] = IF lb_start <= c /\ c < lb_start + lb_size
                THEN m[(B + lb_size) + (c - lb_start)] ELSE m[c]
    BY <1>1, memcpyFact
  <2>3. lb_start + lb_size = lb_end /\ c \in Int
    BY Numbers
  <2> QED BY <2>2, <2>3, Numbers
<1>3. ASSUME NEW a \in Coreboot PROVE m2[a] = Image(a)
  <2> DEFINE e == a - lb_start
  <2>1. a \in Cells /\ a \in Int
    BY Numbers
  <2>2. e \in Nat /\ e < lb_size /\ lb_start + e = a
    BY <2>1, Numbers
  <2>3. m[(B + lb_size) + e] = Image(lb_start + e)
    BY <2>2 DEF CopyWhole
  <2>4. m2[a] = m[(B + lb_size) + e]
    BY <1>2, <2>1
  <2> HIDE DEF e
  <2> QED BY <2>2, <2>3, <2>4
<1>4. ASSUME NEW a \in Cells, a >= one_meg, a \notin FreeRam PROVE m2[a] = Old(a)
  <2>1. a \notin Coreboot
    BY <1>4, Numbers
  <2> QED BY <1>2, <1>4, <2>1 DEF OthersKept
<1> QED BY <1>3, <1>4 DEF Kept, OthersKept

-----------------------------------------------------------------------------
(* bootmem_allocate_buffer *)

LEMMA AlignFact ==
    ASSUME NEW n \in Nat
    PROVE  ALIGN_UP(n) \in Nat /\ n <= ALIGN_UP(n) /\ ALIGN_UP(n) % PAGE = 0
<1> DEFINE t == n + PAGE - 1
           u == t \div PAGE
           w == PAGE * u
<1>1. PAGE \in Nat \ {0}
  BY Numbers
<1>2. t \in Nat /\ t = n + (PAGE - 1)
  BY <1>1
<1> HIDE DEF t
<1>3. u \in Nat /\ t % PAGE \in 0 .. PAGE - 1 /\ t = w + (t % PAGE)
  BY <1>1, <1>2, Division
<1>4. ALIGN_UP(n) = w
  BY DEF ALIGN_UP, ALIGN_DOWN, t
<1>5. w \in Nat /\ w % PAGE = 0
  BY <1>1, <1>3, MultipleOf
<1> HIDE DEF w
<1>6. n <= w
  BY <1>1, <1>2, <1>3, <1>5
<1> QED BY <1>4, <1>5, <1>6

LEMMA AlignMonotone ==
    ASSUME NEW n \in Nat, NEW m \in Nat, n <= m
    PROVE  ALIGN_UP(n) <= ALIGN_UP(m)
<1> DEFINE t == n + PAGE - 1
           u == t \div PAGE
           x == m + PAGE - 1
           v == x \div PAGE
<1>1. PAGE \in Nat \ {0}
  BY Numbers
<1>2. t \in Nat /\ x \in Nat /\ t <= x
  BY <1>1
<1>3. ALIGN_UP(n) = PAGE * u /\ ALIGN_UP(m) = PAGE * v
  BY DEF ALIGN_UP, ALIGN_DOWN
<1> HIDE DEF t, x
<1>4. /\ u \in Nat /\ t % PAGE \in 0 .. PAGE - 1 /\ t = PAGE * u + (t % PAGE)
      /\ v \in Nat /\ x % PAGE \in 0 .. PAGE - 1 /\ x = PAGE * v + (x % PAGE)
  BY <1>1, <1>2, Division
<1> HIDE DEF u, v
<1>5. u <= v
  <2> SUFFICES ASSUME v < u PROVE FALSE
    BY <1>4
  <2> DEFINE U == PAGE * u
             V == PAGE * v
  <2>1. V + PAGE <= U /\ U \in Int /\ V \in Int
    BY <1>1, <1>4, Product
  <2>2. t = U + (t % PAGE) /\ x = V + (x % PAGE)
    BY <1>4
  <2> HIDE DEF U, V
  <2> QED BY <1>1, <1>2, <1>4, <2>1, <2>2
<1> QED BY <1>1, <1>3, <1>4, <1>5, Product

\* A set of numbers with a bound has a largest one.
LEMMA LargestNat ==
    ASSUME NEW S, S \subseteq Nat, S # {}, NEW n \in Nat, \A x \in S : x <= n
    PROVE  Max(S) \in S /\ \A y \in S : y <= Max(S)
<1> DEFINE T == {n - x : x \in S}
<1>1. T \subseteq Nat /\ T # {}
  OBVIOUS
<1>2. PICK t \in T : \A y \in T : t <= y
  BY <1>1, SmallestNat
<1>3. PICK x \in S : t = n - x
  BY <1>2
<1>4. ASSUME NEW y \in S PROVE x >= y
  <2>1. n - y \in T
    OBVIOUS
  <2>2. n - x <= n - y
    BY <1>2, <1>3, <2>1
  <2> QED BY <2>2
<1>5. Max(S) \in S /\ \A y \in S : Max(S) >= y
  BY <1>4 DEF Max
<1>6. ASSUME NEW y \in S PROVE y <= Max(S)
  <2>1. y \in Nat /\ Max(S) \in Nat /\ Max(S) >= y
    BY <1>5
  <2> QED BY <2>1
<1> QED BY <1>5, <1>6

\* The buffer ends where the free RAM below 4 GiB does: one range reaches up
\* to there from below, since ranges that touch are merged, and is the highest.
LEMMA AllocateFact ==
    ASSUME NEW l, Proper(l), NEW free \in Nat, NEW end \in Nat, free < end, end <= max_addr,
           \A a \in Int : Gives(l, a, RAM) => a \in FreeRam,
           \A a \in Int : free <= a /\ a < end => Gives(l, a, RAM),
           \A a \in Int : end <= a /\ a < max_addr => a \notin FreeRam,
           NEW size \in Nat, ALIGN_UP(size) <= end - free
    PROVE  bootmem_allocate_buffer(l, size) = end - ALIGN_UP(size)
<1> DEFINE End_(r) == IF range_entry_end(r) > max_addr THEN max_addr ELSE range_entry_end(r)
           A == ALIGN_UP(size)
           fits == {i \in DOMAIN l : /\ l[i].tag = RAM /\ l[i].begin < max_addr
                                     /\ End_(l[i]) - l[i].begin >= A}
<1>1. bootmem_allocate_buffer(l, size) = IF fits = {} THEN 0 ELSE End_(l[Max(fits)]) - A
  BY DEF bootmem_allocate_buffer
<1>2. A \in Nat /\ max_addr \in Nat /\ A <= end - free
  BY AlignFact, Numbers
<1>3. l \in List /\ Sorted(l) /\ Ended(l) /\ DOMAIN l = 1 .. Len(l) /\ Len(l) \in Nat
  BY DEF Proper, List
<1>4. ASSUME NEW i \in 1 .. Len(l)
      PROVE  /\ l[i].begin \in Int /\ l[i].end \in Int /\ l[i].begin <= l[i].end
             /\ range_entry_end(l[i]) = l[i].end + 1
             /\ ~Gives(l, l[i].end + 1, l[i].tag)
             /\ \A a \in Int : l[i].begin <= a /\ a <= l[i].end => Gives(l, a, l[i].tag)
             /\ \A j \in 1 .. Len(l) : i < j => l[i].end < l[j].begin
  <2>1. l[i] \in Entry /\ Good(l[i])
    BY <1>3, BoundsGiven
  <2>2. l[i].begin \in Int /\ l[i].end \in Int
    BY <2>1, EntryFact
  <2>3. \A a \in Int : l[i].begin <= a /\ a <= l[i].end => Gives(l, a, l[i].tag)
    BY DEF Gives, In
  <2> QED BY <1>3, <2>1, <2>2, <2>3 DEF Good, Ended, Sorted, range_entry_end
<1>5. free \in Int /\ Gives(l, free, RAM)
  BY <1>2
<1>6. PICK i \in 1 .. Len(l) : l[i].begin <= free /\ free <= l[i].end /\ l[i].tag = RAM
  BY <1>5 DEF Gives, In
<1> DEFINE b == l[i].begin
           e == l[i].end
<1>7. b \in Int /\ e \in Int /\ b <= free /\ free <= e
  BY <1>4, <1>6
<1>8. e + 1 >= end
  <2> SUFFICES ASSUME e + 1 < end PROVE FALSE
    BY <1>7
  <2>1. e + 1 \in Int /\ free <= e + 1
    BY <1>7
  <2>2. Gives(l, e + 1, RAM)
    BY <2>1
  <2> QED BY <1>4, <1>6, <2>2
<1>9. End_(l[i]) = end
  <2>1. range_entry_end(l[i]) = e + 1
    BY <1>4
  <2>2. CASE end = max_addr
    <3> HIDE DEF e
    <3>1. e + 1 > max_addr \/ e + 1 = max_addr
      BY <1>2, <1>7, <1>8, <2>2
    <3> QED BY <1>2, <1>7, <2>1, <2>2, <3>1
  <2>3. CASE end # max_addr
    <3>1. end \in Int /\ end <= end /\ end < max_addr
      BY <1>2, <2>3
    <3>2. end \notin FreeRam
      BY <3>1
    <3>3. ~(end <= e)
      <4> SUFFICES ASSUME end <= e PROVE FALSE
        OBVIOUS
      <4>1. b <= end
        BY <1>7
      <4>2. Gives(l, end, RAM)
        BY <1>4, <1>6, <3>1, <4>1
      <4> QED BY <3>1, <3>2, <4>2
    <3>4. e + 1 = end
      BY <1>7, <1>8, <3>3
    <3>5. ~(e + 1 > max_addr)
      BY <1>2, <3>1, <3>4
    <3> QED BY <2>1, <3>4, <3>5
  <2> QED BY <2>2, <2>3
<1>10. i \in fits
  <2>1. end - b >= A /\ b < max_addr
    BY <1>2, <1>7
  <2> QED BY <1>3, <1>6, <1>9, <2>1
<1>11. ASSUME NEW j \in fits PROVE i >= j
  <2>1. j \in 1 .. Len(l) /\ l[j].tag = RAM /\ l[j].begin < max_addr
    BY <1>3
  <2> SUFFICES ASSUME i < j PROVE FALSE
    BY <1>3, <2>1
  <2>2. e < l[j].begin /\ l[j].begin \in Int /\ l[j].begin <= l[j].end
    BY <1>4, <2>1
  <2>3. end <= l[j].begin
    BY <1>7, <1>8, <2>2
  <2>4. Gives(l, l[j].begin, RAM)
    BY <1>4, <2>1, <2>2
  <2> QED BY <2>1, <2>2, <2>3, <2>4
<1> HIDE DEF fits
<1>12. Max(fits) = i
  <2>1. Max(fits) \in fits /\ \A y \in fits : Max(fits) >= y
    BY <1>10, <1>11 DEF Max
  <2>2. Max(fits) \in Nat /\ i \in Nat
    BY <1>3, <2>1 DEF fits
  <2> QED BY <1>10, <1>11, <2>1, <2>2
<1> HIDE DEF End_, A
<1>13. fits # {}
  BY <1>10
<1>14. bootmem_allocate_buffer(l, size) = End_(l[Max(fits)]) - A
  BY <1>1, <1>13
<1> QED BY <1>9, <1>12, <1>14 DEF A

-----------------------------------------------------------------------------
(* The check of the segments, and the buffer *)

\* Each segment goes to free RAM or lies below 1 MiB.
Checked(p) ==
    \A i \in DOMAIN p :
        \/ \A a \in Int : p[i].load_addr <= a /\ a < p[i].load_addr + p[i].mem_len => a \in FreeRam
        \/ p[i].load_addr + p[i].mem_len <= one_meg

LEMMA SegmentFact ==
    ASSUME NEW s \in Segment
    PROVE  /\ s.load_addr \in Nat /\ s.mem_len \in Nat \ {0} /\ s.len \in Nat /\ s.offset \in Nat
           /\ s.compression \in {NONE, LZMA} /\ s.out \in Nat
           /\ segment(s) \in SegRec /\ segment(s).dstaddr = s.load_addr
           /\ segment(s).memsz = s.mem_len /\ segment(s).srcaddr = s.offset
           /\ segment(s).compression = s.compression /\ segment(s).out = s.out
           /\ segment(s).filesz \in Nat /\ segment(s).filesz <= s.mem_len
<1> DEFINE f == IF s.type = "bss" THEN 0 ELSE IF s.len > s.mem_len THEN s.mem_len ELSE s.len
<1>1. /\ s.load_addr \in Nat /\ s.mem_len \in Nat \ {0} /\ s.len \in Nat /\ s.offset \in Nat
      /\ s.compression \in {NONE, LZMA} /\ s.out \in Nat
  BY DEF Segment
<1>2. f \in Nat /\ f <= s.mem_len
  BY <1>1
<1>3. segment(s) = [dstaddr |-> s.load_addr, srcaddr |-> s.offset, memsz |-> s.mem_len,
                    filesz |-> f, compression |-> s.compression, out |-> s.out]
  BY DEF segment
<1> HIDE DEF f
<1>4. segment(s) \in SegRec
  BY <1>1, <1>2, <1>3 DEF SegRec
<1> QED BY <1>1, <1>2, <1>3, <1>4

\* What check_segments lets pass.
LEMMA TargetFact ==
    ASSUME Proper(bootmem), \A a \in Int : Gives(bootmem, a, RAM) => a \in FreeRam,
           NEW s \in Segment, TargetsRam(segment(s))
    PROVE  \/ \A a \in Int : s.load_addr <= a /\ a < s.load_addr + s.mem_len => a \in FreeRam
           \/ s.load_addr + s.mem_len <= one_meg
<1> DEFINE b == s.load_addr
           n == s.mem_len
<1>1. b \in Nat /\ n \in Nat /\ segment(s).dstaddr = b /\ segment(s).memsz = n
  BY SegmentFact
<1>2. CASE bootmem_region_targets_usable_ram(bootmem, b, n)
  <2>1. PICK i \in DOMAIN bootmem : /\ b >= bootmem[i].begin
                                    /\ b + n <= range_entry_end(bootmem[i])
                                    /\ bootmem[i].tag = RAM
    BY <1>2 DEF bootmem_region_targets_usable_ram
  <2>2. bootmem \in List /\ Sorted(bootmem) /\ i \in 1 .. Len(bootmem)
    BY DEF Proper, List
  <2>3. bootmem[i] \in Entry
    BY <2>2, BoundsGiven
  <2>4. bootmem[i].begin \in Int /\ bootmem[i].end \in Int
    BY <2>3, EntryFact
  <2>5. b + n <= bootmem[i].end + 1
    BY <2>1 DEF range_entry_end
  <2>6. ASSUME NEW a \in Int, b <= a, a < b + n PROVE a \in FreeRam
    <3>1. bootmem[i].begin <= a /\ a <= bootmem[i].end
      BY <1>1, <2>1, <2>4, <2>5, <2>6
    <3>2. Gives(bootmem, a, RAM)
      BY <2>1, <2>2, <3>1 DEF Gives, In
    <3> QED BY <3>2
  <2> QED BY <2>6
<1>3. CASE b < one_meg /\ b + n <= one_meg
  BY <1>3
<1> QED BY <1>1, <1>2, <1>3 DEF TargetsRam

\* A checked payload lies within the memory, and has an end.
LEMMA TopFact ==
    ASSUME NEW p \in Seq(Segment), Checked(p)
    PROVE  /\ \A i \in DOMAIN p : /\ p[i] \in Segment
                                  /\ p[i].load_addr + p[i].mem_len <= TOP
                                  /\ p[i].load_addr + p[i].mem_len <= PayloadTop(p)
           /\ PayloadTop(p) \in Nat /\ lb_end <= PayloadTop(p)
<1> DEFINE S == {lb_end} \cup {p[i].load_addr + p[i].mem_len : i \in DOMAIN p}
<1>1. lb_end \in Nat /\ lb_end <= TOP
  <2>1. lb_end - 1 \in Coreboot
    BY Numbers
  <2>2. lb_end - 1 \in Cells
    BY <2>1, Numbers
  <2> QED BY <2>2, Numbers
<1>2. ASSUME NEW i \in DOMAIN p
      PROVE  /\ p[i] \in Segment /\ p[i].load_addr + p[i].mem_len \in Nat
             /\ p[i].load_addr + p[i].mem_len <= TOP
  <2> DEFINE b == p[i].load_addr
             n == p[i].mem_len
  <2>1. p[i] \in Segment
    OBVIOUS
  <2>2. b \in Nat /\ n \in Nat \ {0}
    BY <2>1, SegmentFact
  <2>3. CASE \A a \in Int : b <= a /\ a < b + n => a \in FreeRam
    <3>1. (b + n) - 1 \in Int /\ b <= (b + n) - 1 /\ (b + n) - 1 < b + n
      BY <2>2
    <3>2. (b + n) - 1 \in Cells
      BY <2>3, <3>1, Numbers
    <3> QED BY <2>1, <2>2, <3>1, <3>2, Numbers
  <2>4. CASE b + n <= one_meg
    BY <1>1, <2>1, <2>2, <2>4, Numbers
  <2> QED BY <2>3, <2>4 DEF Checked
<1>3. S \subseteq Nat /\ S # {} /\ TOP \in Nat /\ \A x \in S : x <= TOP
  BY <1>1, <1>2, Numbers
<1>4. Max(S) \in S /\ \A y \in S : y <= Max(S)
  <2> HIDE DEF S
  <2> QED BY <1>3, LargestNat
<1>5. PayloadTop(p) = Max(S)
  BY DEF PayloadTop
<1> QED BY <1>2, <1>3, <1>4, <1>5

\* The map while segments are entered: above the payload all that is free is
\* still called RAM.
Reserving(l, p) ==
    /\ Proper(l)
    /\ \A a \in Int : Gives(l, a, RAM) => a \in FreeRam
    /\ \A a \in Int : a >= ALIGN_UP(PayloadTop(p)) /\ a \in FreeRam => Gives(l, a, RAM)

LEMMA ReserveFact ==
    ASSUME NEW p \in Seq(Segment), Checked(p), NEW l, Reserving(l, p), NEW i \in DOMAIN p,
           NEW m, m = bootmem_add_range(l, p[i].load_addr, p[i].mem_len, UNUSABLE)
    PROVE  Reserving(m, p)
<1> DEFINE b == p[i].load_addr
           n == p[i].mem_len
           top == PayloadTop(p)
           free == ALIGN_UP(top)
<1>1. b + n <= TOP /\ b + n <= top /\ top \in Nat /\ p[i] \in Segment
  BY TopFact
<1>2. b \in Nat /\ n \in Nat \ {0}
  BY <1>1, SegmentFact
<1>3. UNUSABLE \in Tags /\ RAM \in Tags /\ UNUSABLE # RAM
  BY AreasAssumption DEF UNUSABLE, RAM
<1>4. /\ Proper(m)
      /\ \A a \in Int, t \in Tags :
            Gives(m, a, t) <=> IF Begin(b) <= a /\ a <= End(b, n)
                               THEN t = UNUSABLE ELSE Gives(l, a, t)
  BY <1>1, <1>2, <1>3, InsertProper DEF Reserving
<1>5. free \in Nat /\ top <= free /\ free % PAGE = 0
  BY <1>1, AlignFact
<1> HIDE DEF top
<1>6. End(b, n) < free
  <2>1. b + n <= free
    BY <1>1, <1>2, <1>5
  <2> HIDE DEF free
  <2> QED BY <1>2, <1>5, <2>1, PagesBelow
<1>7. End(b, n) \in Nat
  BY <1>2, PageBounds
<1>8. ASSUME NEW a \in Int, Gives(m, a, RAM) PROVE a \in FreeRam
  BY <1>3, <1>4, <1>8 DEF Reserving
<1>9. ASSUME NEW a \in Int, a >= free, a \in FreeRam PROVE Gives(m, a, RAM)
  <2>1. ~(a <= End(b, n))
    BY <1>5, <1>6, <1>7, <1>9
  <2>2. Gives(l, a, RAM)
    BY <1>9 DEF Reserving, top
  <2> QED BY <1>3, <1>4, <2>1, <2>2
<1> QED BY <1>4, <1>8, <1>9 DEF Reserving, top

\* How high the buffer has to reach.
LEMMA HighFact ==
    ASSUME NEW p \in Seq(Segment), Checked(p), NEW over,
           over = {i \in DOMAIN p : overlaps_coreboot(segment(p[i]))},
           NEW high, high = Max({lb_end} \cup {segment(p[i]).dstaddr + segment(p[i]).memsz : i \in over})
    PROVE  /\ high \in Nat /\ lb_end <= high /\ high <= PayloadTop(p)
           /\ \A i \in DOMAIN p : overlaps_coreboot(segment(p[i]))
                                    => p[i].load_addr + p[i].mem_len <= high
<1> DEFINE S == {lb_end} \cup {segment(p[i]).dstaddr + segment(p[i]).memsz : i \in over}
           top == PayloadTop(p)
<1>1. top \in Nat /\ lb_end \in Nat /\ lb_end <= top
  BY TopFact, Numbers
<1>2. ASSUME NEW i \in DOMAIN p
      PROVE  /\ segment(p[i]).dstaddr + segment(p[i]).memsz = p[i].load_addr + p[i].mem_len
             /\ p[i].load_addr + p[i].mem_len \in Nat
             /\ p[i].load_addr + p[i].mem_len <= top
  <2>1. p[i] \in Segment /\ p[i].load_addr + p[i].mem_len <= top
    BY TopFact
  <2>2. /\ p[i].load_addr \in Nat /\ p[i].mem_len \in Nat
        /\ segment(p[i]).dstaddr = p[i].load_addr /\ segment(p[i]).memsz = p[i].mem_len
    BY <2>1, SegmentFact
  <2> QED BY <2>1, <2>2
<1>3. over \subseteq DOMAIN p
  OBVIOUS
<1> HIDE DEF top
<1>4. S \subseteq Nat /\ S # {} /\ \A x \in S : x <= top
  BY <1>1, <1>2, <1>3
<1>5. high = Max(S) /\ lb_end \in S
  OBVIOUS
<1>6. ASSUME NEW i \in DOMAIN p, overlaps_coreboot(segment(p[i]))
      PROVE  p[i].load_addr + p[i].mem_len \in S
  <2>1. i \in over
    BY <1>6
  <2> QED BY <1>2, <2>1
<1> HIDE DEF S
<1>7. Max(S) \in S /\ \A y \in S : y <= Max(S)
  BY <1>1, <1>4, LargestNat
<1> QED BY <1>4, <1>5, <1>6, <1>7 DEF top

\* The buffer lies behind the payload, with room below it.
LEMMA BufferFact ==
    ASSUME NEW p, Fits(p), Checked(p), NEW l, Reserving(l, p),
           NEW high \in Nat, lb_end <= high, high <= PayloadTop(p),
           \A i \in DOMAIN p : overlaps_coreboot(segment(p[i])) => p[i].load_addr + p[i].mem_len <= high,
           NEW size, size = (high - lb_start) + lb_size,
           NEW B, B = bootmem_allocate_buffer(l, size)
    PROVE  /\ B # 0 /\ B \in Cells /\ Prepared(p, B)
           /\ Proper(bootmem_add_range(l, B, ALIGN_UP(size), UNUSABLE))
<1> DEFINE top == PayloadTop(p)
           free == ALIGN_UP(top)
           most == (top - lb_start) + lb_size
           A == ALIGN_UP(size)
<1>1. /\ p \in Seq(Segment) /\ Roomy(p)
      /\ \A i \in DOMAIN p : p[i].out <= p[i].mem_len
      /\ \A i \in Wanted(p) : p[i].len # 0
      /\ \A i, j \in DOMAIN p : i # j => Span(p[i]) \cap Span(p[j]) = {}
  BY DEF Fits
<1>2. /\ top \in Nat /\ lb_end <= top /\ high <= top
      /\ \A i \in DOMAIN p : p[i] \in Segment /\ p[i].load_addr + p[i].mem_len <= top
  BY <1>1, TopFact
<1>3. PICK end \in 0 .. max_addr :
            /\ free + lb_start + ALIGN_UP(most) <= end
            /\ free .. end - 1 \subseteq FreeRam
            /\ (end .. max_addr - 1) \cap FreeRam = {}
  BY <1>1 DEF Roomy
<1> HIDE DEF top
<1>4. free \in Nat /\ top <= free
  BY <1>2, AlignFact
<1>5. most \in Nat /\ size \in Nat \ {0} /\ size <= most
  BY <1>2, Numbers
<1>6. /\ A \in Nat /\ size <= A /\ A <= ALIGN_UP(most) /\ ALIGN_UP(most) \in Nat
  BY <1>5, AlignFact, AlignMonotone
<1> DEFINE M == ALIGN_UP(most)
<1>7. /\ lb_start \in Nat /\ lb_end \in Nat /\ max_addr \in Nat /\ lb_start < lb_end
      /\ lb_size \in Nat /\ lb_size = lb_end - lb_start /\ lb_size # 0
      /\ end \in Nat /\ end <= max_addr
  BY Numbers
<1>8. M \in Nat /\ A \in Nat /\ A <= M /\ free + lb_start + M <= end /\ size <= A
  BY <1>3, <1>6
<1> HIDE DEF free, most, M, A
<1>9. free < end /\ A <= end - free
  BY <1>4, <1>5, <1>7, <1>8
<1>10. \A a \in Int : free <= a /\ a < end => a \in FreeRam
  BY <1>3, <1>4, <1>7
<1>11. \A a \in Int : end <= a /\ a < max_addr => a \notin FreeRam
  <2> SUFFICES ASSUME NEW a \in Int, end <= a, a < max_addr PROVE a \notin FreeRam
    OBVIOUS
  <2>1. a \in end .. max_addr - 1
    BY <1>7
  <2> QED BY <1>3, <2>1
<1>12. \A a \in Int : free <= a /\ a < end => Gives(l, a, RAM)
  <2> SUFFICES ASSUME NEW a \in Int, free <= a, a < end PROVE Gives(l, a, RAM)
    OBVIOUS
  <2>1. a \in FreeRam /\ a >= free
    BY <1>4, <1>10
  <2> QED BY <2>1 DEF Reserving, free, top
<1>13. B = end - A
  <2>1. Proper(l) /\ \A a \in Int : Gives(l, a, RAM) => a \in FreeRam
    BY DEF Reserving
  <2>2. size \in Nat /\ ALIGN_UP(size) <= end - free /\ free \in Nat /\ end \in Nat
    BY <1>4, <1>5, <1>7, <1>9 DEF A
  <2> QED BY <1>7, <1>9, <1>11, <1>12, <2>1, <2>2, AllocateFact DEF A
<1>14. /\ B \in Nat /\ B + A = end /\ free + lb_start <= B /\ B + size <= end
  BY <1>4, <1>5, <1>7, <1>8, <1>13
<1>15. B # 0
  BY <1>2, <1>4, <1>7, <1>14
<1>16. \A a \in Int : B - lb_start <= a /\ a < B + size => a \in FreeRam
  <2> SUFFICES ASSUME NEW a \in Int, B - lb_start <= a, a < B + size PROVE a \in FreeRam
    OBVIOUS
  <2>1. free <= a /\ a < end
    BY <1>4, <1>5, <1>7, <1>14
  <2> QED BY <1>10, <2>1
<1>17. B \in FreeRam
  <2>1. B \in Int /\ B - lb_start <= B /\ B < B + size
    BY <1>5, <1>7, <1>14
  <2> QED BY <1>16, <2>1
<1>18. B \in Cells
  BY <1>17, Numbers
<1>19. BufferRoom(B)
  <2>1. lb_end + lb_start <= B
    BY <1>2, <1>4, <1>7, <1>14
  <2>2. ASSUME NEW a \in Int, B - lb_start <= a, a < B + (lb_size + lb_size) PROVE a \in FreeRam
    <3>1. lb_size + lb_size <= size
      BY <1>7
    <3>2. a < B + size
      BY <1>5, <1>7, <1>14, <2>2, <3>1
    <3> QED BY <1>16, <2>2, <3>2
  <2> QED BY <1>14, <2>1, <2>2 DEF BufferRoom
<1>20. ASSUME NEW i \in DOMAIN p PROVE RoomFor(p[i], B)
  <2> DEFINE b == p[i].load_addr
             n == p[i].mem_len
  <2>1. p[i] \in Segment /\ p[i].out <= n /\ b + n <= top
    BY <1>1, <1>2
  <2>2. b \in Nat /\ n \in Nat
    BY <2>1, SegmentFact
  <2> HIDE DEF b, n
  <2>3. (b + n) + lb_start <= B
    BY <1>2, <1>4, <1>7, <1>14, <2>1, <2>2
  <2>4. ASSUME NEW a \in Int, b <= a, a < b + n
        PROVE  a \in Cells /\ (a >= one_meg => a \in FreeRam)
    <3>1. CASE \A c \in Int : b <= c /\ c < b + n => c \in FreeRam
      BY <2>4, <3>1, Numbers
    <3>2. CASE b + n <= one_meg
      <4>1. 0 <= a /\ a < one_meg /\ ~(a >= one_meg)
        BY <2>2, <2>4, <3>2, Numbers
      <4>2. a < B /\ B < TOP
        BY <1>7, <1>14, <1>18, <2>2, <2>3, <2>4, Numbers
      <4>3. a < TOP
        BY <1>14, <4>2, Numbers
      <4> QED BY <4>1, <4>3, Numbers
    <3> QED BY <3>1, <3>2 DEF Checked, b, n
  <2>5. ASSUME overlaps_coreboot(segment(p[i])),
               NEW a \in Int, B - lb_start <= a, a < B + ((b + n) - lb_start)
        PROVE  a \in FreeRam
    <3>1. b + n <= high
      BY <2>5 DEF b, n
    <3>2. a < B + size
      BY <1>7, <1>14, <2>2, <2>5, <3>1
    <3> QED BY <1>16, <2>5, <3>2
  <2> QED BY <2>1, <2>3, <2>4, <2>5 DEF RoomFor, b, n
<1>21. Prepared(p, B)
  BY <1>1, <1>19, <1>20 DEF Prepared
<1>22. end <= TOP
  <2>1. end - 1 \in Int /\ free <= end - 1 /\ end - 1 < end
    BY <1>4, <1>7, <1>9
  <2>2. end - 1 \in Cells
    BY <1>10, <2>1, Numbers
  <2> QED BY <1>7, <2>1, <2>2, Numbers
<1>23. Proper(bootmem_add_range(l, B, A, UNUSABLE))
  <2>1. A \in Nat \ {0} /\ B + A <= TOP
    BY <1>5, <1>8, <1>14, <1>22
  <2>2. Proper(l) /\ UNUSABLE \in Tags
    BY AreasAssumption DEF Reserving
  <2> QED BY <1>14, <2>1, <2>2, InsertProper
<1> QED BY <1>15, <1>18, <1>21, <1>23 DEF A

\* The list of segments as it is built: each is one piece.
LEMMA FirstPieces ==
    ASSUME NEW p \in Seq(Segment), NEW sg, sg = [i \in DOMAIN p |-> segment(p[i])], NEW m, NEW B
    PROVE  Loading(sg, 1, p, m, B)
<1>1. Len(p) \in Nat /\ DOMAIN p = 1 .. Len(p) /\ \A i \in 1 .. Len(p) : p[i] \in Segment
  OBVIOUS
<1>2. \A i \in 1 .. Len(p) : segment(p[i]) \in SegRec
  BY <1>1, SegmentFact
<1>3. sg = [i \in 1 .. Len(p) |-> segment(p[i])]
  BY <1>1
<1>4. sg \in Seq(SegRec) /\ Len(sg) = Len(p)
  <2> DEFINE f(i) == segment(p[i])
  <2>1. sg = [i \in 1 .. Len(p) |-> f(i)] /\ \A i \in 1 .. Len(p) : f(i) \in SegRec
    BY <1>2, <1>3
  <2> HIDE DEF f
  <2> QED BY <1>1, <2>1
<1>5. ASSUME NEW i \in 1 .. Len(p) PROVE sg[i] = segment(p[i]) /\ Piece(sg[i], p[i], 0, B)
  <2> DEFINE s == p[i]
             g == segment(s)
  <2>1. s \in Segment /\ sg[i] = g
    BY <1>1, <1>3
  <2>2. /\ s.load_addr \in Nat /\ s.mem_len \in Nat \ {0} /\ s.offset \in Nat
        /\ g \in SegRec /\ g.dstaddr = s.load_addr
        /\ g.memsz = s.mem_len /\ g.srcaddr = s.offset
        /\ g.compression = s.compression /\ g.out = s.out
        /\ g.filesz \in Nat /\ g.filesz <= s.mem_len
    BY <2>1, SegmentFact
  <2> HIDE DEF s, g
  <2>3. 0 + s.mem_len = s.mem_len /\ s.offset + 0 = s.offset /\ s.load_addr + 0 = s.load_addr
    BY <2>2
  <2>4. \A d \in Nat : 0 + d = d
    OBVIOUS
  <2>5. Part(g, s, 0)
    BY <2>2, <2>3, <2>4 DEF Part, g
  <2>6. Stays(g, s, 0)
    BY <2>2, <2>3 DEF Stays
  <2> QED BY <2>1, <2>5, <2>6 DEF Piece, s, g
<1>6. ASSUME NEW i \in Wanted(p), NEW d \in Nat, d < p[i].mem_len
      PROVE  i \in 1 .. Len(p) /\ Covers(sg[i], p[i], 0, B, d)
  <2>1. i \in 1 .. Len(p)
    BY <1>1 DEF Wanted
  <2>2. sg[i].memsz = p[i].mem_len /\ p[i].mem_len \in Nat
    BY <1>1, <1>5, <2>1, SegmentFact
  <2>3. 0 <= d /\ d < 0 + sg[i].memsz
    BY <1>6, <2>2
  <2> QED BY <1>5, <2>1, <2>3 DEF Covers
<1>7. 1 \in 1 .. Len(sg) + 1
  BY <1>1, <1>4
<1>8. ASSUME NEW j \in 1 .. Len(sg) PROVE \E i \in DOMAIN p : \E k \in Nat : Piece(sg[j], p[i], k, B)
  <2>1. 0 \in Nat /\ j \in DOMAIN p /\ Piece(sg[j], p[j], 0, B)
    BY <1>1, <1>4, <1>5
  <2> QED BY <2>1
<1>9. ASSUME NEW i \in Wanted(p), NEW d \in Nat, d < p[i].mem_len
      PROVE  \E j \in 1 .. Len(sg) : \E k \in Nat : Covers(sg[j], p[i], k, B, d)
  <2>1. i \in 1 .. Len(sg) /\ 0 \in Nat /\ Covers(sg[i], p[i], 0, B, d)
    BY <1>4, <1>6, <1>9
  <2> QED BY <2>1
<1> QED BY <1>4, <1>7, <1>8, <1>9 DEF Loading

-----------------------------------------------------------------------------
(* The invariant of the loader, phase by phase *)

\* What PayloadInPlace says of memory m.
InPlace(m, p) ==
    \A i \in Wanted(p) : \A k \in 0 .. p[i].mem_len - 1 :
        LET len == IF p[i].compression = LZMA THEN p[i].out ELSE segment(p[i]).filesz
        IN  /\ k < len => m[p[i].load_addr + k] = Data(p[i].offset + k)
            /\ k >= len /\ (p[i].compression = LZMA \/ ~overlaps_coreboot(segment(p[i])))
                    => m[p[i].load_addr + k] = Zero

LEMMA AllDone ==
    ASSUME NEW p, NEW B, Prepared(p, B), NEW sg, NEW n, NEW m, Loading(sg, n, p, m, B), n > Len(sg),
           NEW m2, \A a \in Int : a \in Cells /\ a + lb_start < B => m2[a] = m[Loc(a, B)]
    PROVE  InPlace(m2, p)
<1> SUFFICES ASSUME NEW i \in Wanted(p), NEW k \in 0 .. p[i].mem_len - 1
             PROVE  LET len == IF p[i].compression = LZMA THEN p[i].out ELSE segment(p[i]).filesz
                    IN  /\ k < len => m2[p[i].load_addr + k] = Data(p[i].offset + k)
                        /\ k >= len /\ (p[i].compression = LZMA \/ ~overlaps_coreboot(segment(p[i])))
                                => m2[p[i].load_addr + k] = Zero
  BY DEF InPlace
<1> DEFINE s == p[i]
           x == s.load_addr + k
           len == IF s.compression = LZMA THEN s.out ELSE segment(s).filesz
<1>1. i \in DOMAIN p
  BY DEF Wanted
<1>2. RoomFor(s, B) /\ s \in Segment /\ B \in Nat
  BY <1>1 DEF Prepared, RoomFor, BufferRoom
<1>3. /\ s.load_addr \in Nat /\ s.mem_len \in Nat /\ s.out \in Nat /\ segment(s).filesz \in Nat
  BY <1>2, SegmentFact
<1>4. k \in Nat /\ k < s.mem_len /\ len \in Nat
  BY <1>3
<1>5. x \in Int /\ s.load_addr <= x /\ x < s.load_addr + s.mem_len
  BY <1>3, <1>4
<1>6. x \in Cells /\ x + lb_start < B
  <2>1. x \in Cells
    BY <1>2, <1>5 DEF RoomFor
  <2>2. (s.load_addr + s.mem_len) + lb_start <= B
    BY <1>2 DEF RoomFor
  <2>3. lb_start \in Nat
    BY Numbers
  <2> DEFINE e == s.load_addr + s.mem_len
  <2>4. e \in Nat /\ e + lb_start <= B /\ x < e
    BY <1>3, <1>5, <2>2
  <2> HIDE DEF e, x
  <2>5. x + lb_start < B
    BY <1>2, <1>5, <2>3, <2>4
  <2> QED BY <2>1, <2>5
<1>7. Done(m, s, k, B)
  <2>1. n .. Len(sg) = {}
    BY DEF Loading
  <2>2. \/ Done(m, s, k, B)
        \/ \E j \in n .. Len(sg) : \E e \in Nat : Covers(sg[j], s, e, B, k)
    BY <1>4 DEF Loading
  <2> QED BY <2>1, <2>2
<1>8. m2[x] = m[Loc(x, B)]
  BY <1>5, <1>6
<1>9. /\ k < len => m2[x] = Data(s.offset + k)
      /\ ~(k < len) /\ (s.compression = LZMA \/ ~overlaps_coreboot(segment(s))) => m2[x] = Zero
  BY <1>7, <1>8 DEF Done
<1>10. k >= len => ~(k < len)
  BY <1>4
<1> QED BY <1>9, <1>10

Listed == segs = [i \in DOMAIN payload |-> segment(payload[i])]

AtTables == pc = "tables" /\ Kept(mem)
AtBuild == pc = "build" /\ Kept(mem) /\ bootmem = table
AtCheck == pc = "check" /\ Kept(mem) /\ bootmem = table /\ Listed /\ ptr = 1
AtReserve ==
    /\ pc = "reserve" /\ Kept(mem) /\ Listed /\ ptr # 0
    /\ Checked(payload) /\ Reserving(bootmem, payload)
AtLoad ==
    /\ pc = "load" /\ Kept(mem)
    /\ Prepared(payload, bounce_buffer) /\ Loading(segs, ptr, payload, mem, bounce_buffer)
AtPayload ==
    /\ pc = "payload" /\ InPlace(mem, payload) /\ Prepared(payload, bounce_buffer)
    /\ OthersKept(mem) /\ CopyWhole(mem, bounce_buffer)
AtReturn ==
    /\ pc = "returned" /\ Prepared(payload, bounce_buffer)
    /\ OthersKept(mem) /\ CopyWhole(mem, bounce_buffer)
AtEnd == pc \in {"astray", "failed"} /\ Kept(mem)

Phase ==
    \/ AtTables \/ AtBuild \/ AtCheck \/ AtReserve \/ AtLoad \/ AtPayload \/ AtReturn \/ AtEnd

\* The inductive invariant.
LoaderInv ==
    /\ Fits(payload) /\ ptr \in Nat /\ bounce_buffer \in Cells
    /\ pc # "tables" => Proper(bootmem)
    /\ Phase

\* Which phase it is.
LEMMA PhaseFact ==
    ASSUME LoaderInv
    PROVE  /\ pc = "tables" => AtTables
           /\ pc = "build" => AtBuild
           /\ pc = "check" => AtCheck
           /\ pc = "reserve" => AtReserve
           /\ pc = "load" => AtLoad
           /\ pc = "payload" => AtPayload
           /\ pc = "returned" => AtReturn
<1>1. Phase
  BY DEF LoaderInv
<1> QED BY <1>1 DEF Phase, AtTables, AtBuild, AtCheck, AtReserve, AtLoad, AtPayload, AtReturn, AtEnd

LEMMA LoaderInit == ASSUME Init, Fits(payload) PROVE LoaderInv
<1>1. pc = "tables" /\ mem = [a \in Cells |-> Old(a)] /\ ptr = 1 /\ bounce_buffer = 0
  BY DEF Init
<1>2. lb_start \in Cells
  <2>1. lb_start \in Coreboot
    BY Numbers
  <2> QED BY <2>1, Numbers
<1>3. 0 \in Cells
  BY <1>2, Numbers
<1>4. Kept(mem)
  <2>1. ASSUME NEW a \in Coreboot PROVE mem[a] = Image(a)
    <3>1. a \in Cells
      BY Numbers
    <3> QED BY <1>1, <3>1 DEF Old
  <2> QED BY <1>1, <2>1 DEF Kept, OthersKept
<1> QED BY <1>1, <1>3, <1>4 DEF LoaderInv, Phase, AtTables

LEMMA AddLoader == ASSUME LoaderInv, AddToMap PROVE LoaderInv'
<1>1. /\ pc = "tables" /\ pc' = pc /\ mem' = mem /\ payload' = payload /\ ptr' = ptr + 1
      /\ bounce_buffer' = bounce_buffer
  BY DEF AddToMap
<1>2. Fits(payload) /\ ptr \in Nat /\ bounce_buffer \in Cells /\ AtTables
  BY <1>1, PhaseFact DEF LoaderInv
<1>3. AtTables' /\ ptr' \in Nat
  BY <1>1, <1>2 DEF AtTables
<1> QED BY <1>1, <1>2, <1>3 DEF LoaderInv, Phase

LEMMA TableLoader == ASSUME LoaderInv, MapInv, bootmem_write_memory_table PROVE LoaderInv'
<1>1. /\ pc = "tables" /\ pc' = "build" /\ mem' = mem /\ payload' = payload /\ ptr' = ptr
      /\ bounce_buffer' = bounce_buffer /\ bootmem' = bootmem /\ table' = bootmem
  BY DEF bootmem_write_memory_table
<1>2. Fits(payload) /\ ptr \in Nat /\ bounce_buffer \in Cells /\ AtTables
  BY <1>1, PhaseFact DEF LoaderInv
<1>3. Proper(bootmem')
  BY <1>1 DEF MapInv
<1>4. AtBuild'
  BY <1>1, <1>2 DEF AtTables, AtBuild
<1> QED BY <1>1, <1>2, <1>3, <1>4 DEF LoaderInv, Phase

LEMMA BuildLoader == ASSUME LoaderInv, build_self_segment_list PROVE LoaderInv'
<1>1. /\ pc = "build" /\ pc' = "check" /\ mem' = mem /\ payload' = payload /\ ptr' = 1
      /\ bounce_buffer' = bounce_buffer /\ bootmem' = bootmem /\ table' = table
      /\ segs' = [i \in DOMAIN payload |-> segment(payload[i])]
  BY DEF build_self_segment_list
<1>2. /\ Fits(payload) /\ bounce_buffer \in Cells /\ AtBuild /\ Proper(bootmem)
  BY <1>1, PhaseFact DEF LoaderInv
<1>3. AtCheck'
  BY <1>1, <1>2 DEF AtBuild, AtCheck, Listed
<1> QED BY <1>1, <1>2, <1>3 DEF LoaderInv, Phase

LEMMA CheckLoader == ASSUME LoaderInv, MapInv, check_segments PROVE LoaderInv'
<1>1. /\ pc = "check" /\ mem' = mem /\ payload' = payload /\ ptr' = ptr
      /\ bounce_buffer' = bounce_buffer /\ bootmem' = bootmem /\ table' = table /\ segs' = segs
      /\ pc' = IF \A i \in DOMAIN segs : TargetsRam(segs[i]) THEN "reserve" ELSE "failed"
  BY DEF check_segments
<1>2. /\ Fits(payload) /\ bounce_buffer \in Cells /\ AtCheck /\ Proper(bootmem) /\ ptr \in Nat
  BY <1>1, PhaseFact DEF LoaderInv
<1>3. CASE pc' = "failed"
  <2>1. AtEnd'
    BY <1>1, <1>2, <1>3 DEF AtCheck, AtEnd
  <2> QED BY <1>1, <1>2, <1>3, <2>1 DEF LoaderInv, Phase
<1>4. CASE \A i \in DOMAIN segs : TargetsRam(segs[i])
  <2>1. \A a \in Int : Gives(bootmem, a, RAM) <=> a \in FreeRam
    <3>1. bootmem = table /\ TrueBefore(table, Len(bootmem_plan) + 1)
      BY <1>1, <1>2 DEF AtCheck, MapInv
    <3> QED BY <1>2, <3>1, WholeMap
  <2>2. payload \in Seq(Segment)
    BY <1>2 DEF Fits
  <2>3. ASSUME NEW i \in DOMAIN payload
        PROVE  \/ \A a \in Int : payload[i].load_addr <= a
                                  /\ a < payload[i].load_addr + payload[i].mem_len => a \in FreeRam
               \/ payload[i].load_addr + payload[i].mem_len <= one_meg
    <3>1. payload[i] \in Segment
      BY <2>2
    <3>2. DOMAIN segs = DOMAIN payload /\ segs[i] = segment(payload[i])
      BY <1>2 DEF AtCheck, Listed
    <3>3. TargetsRam(segment(payload[i]))
      BY <1>4, <3>2
    <3> QED BY <1>2, <2>1, <3>1, <3>3, TargetFact
  <2>4. Checked(payload)
    BY <2>3 DEF Checked
  <2>5. Reserving(bootmem, payload)
    BY <1>2, <2>1 DEF Reserving
  <2>6. pc' = "reserve"
    BY <1>1, <1>4
  <2>7. AtReserve'
    BY <1>1, <1>2, <2>4, <2>5, <2>6 DEF AtReserve, AtCheck, Listed
  <2> QED BY <1>1, <1>2, <2>7 DEF LoaderInv, Phase
<1> QED BY <1>1, <1>3, <1>4

LEMMA ReserveLoader == ASSUME LoaderInv, reserve_segment PROVE LoaderInv'
<1>1. /\ pc = "reserve" /\ pc' = pc /\ mem' = mem /\ payload' = payload /\ ptr' = ptr + 1
      /\ bounce_buffer' = bounce_buffer /\ segs' = segs /\ ptr <= Len(segs)
      /\ bootmem' = bootmem_add_range(bootmem, segs[ptr].dstaddr, segs[ptr].memsz, UNUSABLE)
  BY DEF reserve_segment
<1>2. /\ Fits(payload) /\ bounce_buffer \in Cells /\ AtReserve /\ ptr \in Nat \ {0}
  BY <1>1, PhaseFact DEF LoaderInv, AtReserve
<1>3. payload \in Seq(Segment) /\ Checked(payload) /\ Reserving(bootmem, payload)
  BY <1>2 DEF Fits, AtReserve
<1>4. /\ DOMAIN payload = 1 .. Len(payload) /\ Len(payload) \in Nat
      /\ \A i \in DOMAIN payload : segs[i] = segment(payload[i])
      /\ Len(segs) = Len(payload)
  BY <1>2, <1>3 DEF AtReserve, Listed
<1>5. ptr \in DOMAIN payload
  BY <1>1, <1>2, <1>4
<1>6. bootmem' = bootmem_add_range(bootmem, payload[ptr].load_addr, payload[ptr].mem_len, UNUSABLE)
  <2>1. payload[ptr] \in Segment
    BY <1>3, <1>5
  <2>2. /\ segment(payload[ptr]).dstaddr = payload[ptr].load_addr
        /\ segment(payload[ptr]).memsz = payload[ptr].mem_len
    BY <2>1, SegmentFact
  <2> QED BY <1>1, <1>4, <1>5, <2>2
<1>7. Reserving(bootmem', payload)
  BY <1>3, <1>5, <1>6, ReserveFact
<1>8. ptr' \in Nat /\ ptr' # 0
  BY <1>1, <1>2
<1>9. AtReserve' /\ Proper(bootmem')
  BY <1>1, <1>2, <1>7, <1>8 DEF AtReserve, Listed, Reserving
<1> QED BY <1>1, <1>2, <1>8, <1>9 DEF LoaderInv, Phase

LEMMA BufferLoader == ASSUME LoaderInv, get_bounce_buffer PROVE LoaderInv'
<1> DEFINE over == {i \in DOMAIN segs : overlaps_coreboot(segs[i])}
           high == Max({lb_end} \cup {segs[i].dstaddr + segs[i].memsz : i \in over})
           size == (high - lb_start) + lb_size
           buffer == bootmem_allocate_buffer(bootmem, size)
<1>1. /\ pc = "reserve" /\ mem' = mem /\ payload' = payload /\ ptr' = 1 /\ segs' = segs
      /\ bounce_buffer' = buffer
      /\ bootmem' = IF buffer = 0 THEN bootmem
                    ELSE bootmem_add_range(bootmem, buffer, ALIGN_UP(size), UNUSABLE)
      /\ pc' = IF buffer = 0 THEN "failed" ELSE "load"
  BY DEF get_bounce_buffer
<1>2. /\ Fits(payload) /\ AtReserve
  BY <1>1, PhaseFact DEF LoaderInv
<1>3. /\ payload \in Seq(Segment) /\ Checked(payload) /\ Reserving(bootmem, payload)
      /\ Kept(mem) /\ segs = [i \in DOMAIN payload |-> segment(payload[i])]
  BY <1>2 DEF Fits, AtReserve, Listed
<1>4. DOMAIN segs = DOMAIN payload /\ \A i \in DOMAIN payload : segs[i] = segment(payload[i])
  BY <1>3
<1>5. over = {i \in DOMAIN payload : overlaps_coreboot(segment(payload[i]))}
  BY <1>4
<1>6. high = Max({lb_end} \cup {segment(payload[i]).dstaddr + segment(payload[i]).memsz : i \in over})
  <2>1. {segs[i].dstaddr + segs[i].memsz : i \in over}
          = {segment(payload[i]).dstaddr + segment(payload[i]).memsz : i \in over}
    BY <1>4
  <2> QED BY <2>1
<1> HIDE DEF over, high
<1>7. /\ high \in Nat /\ lb_end <= high /\ high <= PayloadTop(payload)
      /\ \A i \in DOMAIN payload : overlaps_coreboot(segment(payload[i]))
                                     => payload[i].load_addr + payload[i].mem_len <= high
  BY <1>3, <1>5, <1>6, HighFact
<1>8. /\ buffer # 0 /\ buffer \in Cells /\ Prepared(payload, buffer)
      /\ Proper(bootmem_add_range(bootmem, buffer, ALIGN_UP(size), UNUSABLE))
  BY <1>2, <1>3, <1>7, BufferFact
<1> HIDE DEF buffer, size
<1>9. Loading(segs, 1, payload, mem, buffer)
  BY <1>3, FirstPieces
<1>10. AtLoad' /\ Proper(bootmem') /\ bounce_buffer' \in Cells /\ ptr' \in Nat
  BY <1>1, <1>3, <1>8, <1>9 DEF AtLoad
<1> QED BY <1>1, <1>2, <1>10 DEF LoaderInv, Phase

LEMMA LoadLoader == ASSUME LoaderInv, load_self_segment PROVE LoaderInv'
<1>1. pc = "load"
  BY DEF load_self_segment
<1>2. Fits(payload) /\ bounce_buffer \in Cells /\ AtLoad /\ Proper(bootmem)
  BY <1>1, PhaseFact DEF LoaderInv
<1>3. /\ Prepared(payload, bounce_buffer) /\ Kept(mem)
      /\ Loading(segs, ptr, payload, mem, bounce_buffer)
  BY <1>2 DEF AtLoad
<1>4. /\ pc' = "load" => Loading(segs', ptr', payload, mem', bounce_buffer)
      /\ pc' \in {"load", "failed"} /\ Kept(mem') /\ ptr' \in Nat
      /\ payload' = payload /\ bounce_buffer' = bounce_buffer /\ bootmem' = bootmem
  BY <1>1, <1>3, LoadTurn
<1>5. AtLoad' \/ AtEnd'
  BY <1>3, <1>4 DEF AtLoad, AtEnd
<1> QED BY <1>2, <1>4, <1>5 DEF LoaderInv, Phase

LEMMA JumpLoader == ASSUME LoaderInv, jmp_payload PROVE LoaderInv'
<1>1. /\ pc = "load" /\ ptr > Len(segs) /\ pc' = "payload" /\ mem' = Jump_then(Jump_first(mem))
      /\ payload' = payload /\ bounce_buffer' = bounce_buffer /\ bootmem' = bootmem /\ ptr' = ptr
  BY DEF jmp_payload
<1>2. Fits(payload) /\ bounce_buffer \in Cells /\ AtLoad /\ Proper(bootmem) /\ ptr \in Nat
  BY <1>1, PhaseFact DEF LoaderInv
<1>3. /\ Prepared(payload, bounce_buffer) /\ Kept(mem) /\ BufferRoom(bounce_buffer)
      /\ Loading(segs, ptr, payload, mem, bounce_buffer)
  BY <1>2 DEF AtLoad, Prepared
<1>4. /\ \A a \in Int : a \in Cells /\ a + lb_start < bounce_buffer
                          => mem'[a] = mem[Loc(a, bounce_buffer)]
      /\ OthersKept(mem') /\ CopyWhole(mem', bounce_buffer)
  BY <1>1, <1>3, JumpFact
<1>5. InPlace(mem', payload)
  BY <1>1, <1>3, <1>4, AllDone
<1>6. AtPayload'
  BY <1>1, <1>3, <1>4, <1>5 DEF AtPayload
<1> QED BY <1>1, <1>2, <1>6 DEF LoaderInv, Phase

LEMMA ReturnLoader == ASSUME LoaderInv, PayloadReturns PROVE LoaderInv'
<1>1. /\ pc = "payload" /\ pc' = "returned"
      /\ mem' = [a \in Cells |-> IF \E i \in DOMAIN payload : a \in Span(payload[i])
                                 THEN <<"payload">> ELSE mem[a]]
      /\ payload' = payload /\ bounce_buffer' = bounce_buffer /\ bootmem' = bootmem /\ ptr' = ptr
  BY DEF PayloadReturns
<1>2. Fits(payload) /\ bounce_buffer \in Cells /\ AtPayload /\ Proper(bootmem) /\ ptr \in Nat
  BY <1>1, PhaseFact DEF LoaderInv
<1>3. /\ Prepared(payload, bounce_buffer) /\ OthersKept(mem) /\ CopyWhole(mem, bounce_buffer)
  BY <1>2 DEF AtPayload
<1>4. OthersKept(mem') /\ CopyWhole(mem', bounce_buffer)
  BY <1>1, <1>3, ReturnFact
<1>5. AtReturn'
  BY <1>1, <1>3, <1>4 DEF AtReturn
<1> QED BY <1>1, <1>2, <1>5 DEF LoaderInv, Phase

LEMMA RestoreLoader == ASSUME LoaderInv, restore_coreboot PROVE LoaderInv'
<1>1. /\ pc = "returned"
      /\ pc' = IF behind_call - adjust = behind_call THEN "back" ELSE "astray"
      /\ mem' = memcpy(mem, lb_start, bounce_buffer + lb_size, lb_size)
      /\ payload' = payload /\ bounce_buffer' = bounce_buffer /\ bootmem' = bootmem /\ ptr' = ptr
  BY DEF restore_coreboot
<1>2. Fits(payload) /\ bounce_buffer \in Cells /\ AtReturn /\ Proper(bootmem) /\ ptr \in Nat
  BY <1>1, PhaseFact DEF LoaderInv
<1>5. pc' = "astray"
  <2>1. bounce_buffer \in Nat /\ lb_end + lb_start <= bounce_buffer
    BY <1>2 DEF AtReturn, Prepared, BufferRoom
  <2>2. lb_start \in Nat /\ lb_end \in Nat /\ lb_start < lb_end
    BY Numbers
  <2>3. behind_call \in Int
    BY <2>2, MemoryAssumption DEF Coreboot
  <2>4. behind_call - adjust # behind_call
    BY <2>1, <2>2, <2>3 DEF adjust, lb_size
  <2> QED BY <1>1, <2>4
<1>3. Kept(mem')
  BY <1>1, <1>2, RestoreFact DEF AtReturn, Prepared
<1>4. AtEnd'
  BY <1>3, <1>5 DEF AtEnd
<1> QED BY <1>1, <1>2, <1>4, <1>5 DEF LoaderInv, Phase

LEMMA LoaderStep == LoaderInv /\ MapInv /\ [Next]_vars => LoaderInv'
<1> SUFFICES ASSUME LoaderInv, MapInv, [Next]_vars PROVE LoaderInv'
  OBVIOUS
<1>1. CASE UNCHANGED vars
  BY <1>1 DEF LoaderInv, Phase, AtTables, AtBuild, AtCheck, AtReserve, AtLoad, AtPayload, AtReturn,
              AtEnd, Listed, vars
<1> QED
  BY <1>1, AddLoader, TableLoader, BuildLoader, CheckLoader, ReserveLoader, BufferLoader,
     LoadLoader, JumpLoader, ReturnLoader, RestoreLoader DEF Next

\* For a payload that fits, its phases follow one another as they should.
LEMMA LoaderInvariance == Spec /\ Fits(payload) => [](LoaderInv /\ MapInv)
<1>1. Init /\ Fits(payload) => LoaderInv /\ MapInv
  BY LoaderInit, MapInit
<1>2. LoaderInv /\ MapInv /\ [Next]_vars => (LoaderInv /\ MapInv)'
  BY LoaderStep, MapStep
<1> QED BY <1>1, <1>2, PTL DEF Spec

-----------------------------------------------------------------------------
(* What the loader promises *)

\* Until the jump, and once the payload has returned, coreboot's memory is
\* whole, though the jump back to it goes astray: for every memory, every list of resources and every payload that fits, however
\* its segments lie to coreboot and whether they are compressed or not, no
\* segment is loaded over the code that loads it, and neither the buffer nor
\* the payload's run reaches the copy that is put back.
THEOREM CorebootStays == Spec /\ Fits(payload) => []CorebootKept
<1>1. ASSUME LoaderInv, MapInv PROVE CorebootKept
  <2>0. Phase /\ bounce_buffer \in Cells /\ ptr \in Nat /\ (pc # "tables" => Proper(bootmem))
    BY <1>1 DEF LoaderInv
  <2>1. pc \in {"tables", "build", "check", "reserve", "load", "payload", "returned", "astray",
                "failed"}
    BY <2>0 DEF Phase, AtTables, AtBuild, AtCheck, AtReserve, AtLoad, AtPayload, AtReturn, AtEnd
  <2>2. pc \notin {"payload", "returned"} => Kept(mem)
    BY <2>0 DEF Phase, AtTables, AtBuild, AtCheck, AtReserve, AtLoad, AtPayload, AtReturn, AtEnd
  <2>3. Proper(bootmem)
    BY <1>1, <2>0 DEF MapInv
  <2>4. ASSUME NEW i \in DOMAIN bootmem
        PROVE  bootmem[i].begin \in Cells /\ bootmem[i].end \in Cells
    <3>1. bootmem \in List /\ Sorted(bootmem) /\ i \in 1 .. Len(bootmem)
      BY <2>3 DEF Proper, List
    <3>2. /\ bootmem[i] \in Entry
          /\ Gives(bootmem, bootmem[i].begin, bootmem[i].tag)
          /\ Gives(bootmem, bootmem[i].end, bootmem[i].tag)
      BY <3>1, BoundsGiven
    <3>3. bootmem[i].begin \in Int /\ bootmem[i].end \in Int /\ bootmem[i].tag \in Tags
      BY <3>2, EntryFact
    <3> QED BY <2>3, <3>2, <3>3 DEF Proper
  <2>5. TypeOK
    BY <2>0, <2>1, <2>4 DEF TypeOK
  <2>6. CorebootIsWhole
    BY <2>2 DEF CorebootIsWhole, Kept
  <2>7. CorebootPutBack
    BY <2>1, <2>2 DEF CorebootPutBack, Kept
  <2> QED BY <2>5, <2>6, <2>7 DEF CorebootKept
<1> QED BY <1>1, LoaderInvariance, PTL

\* When the payload is entered its file is in place: every cell of every
\* segment holds what belongs there, for every payload that fits and every
\* way of cutting it at the bounds of coreboot, bouncing it and moving it on.
THEOREM PayloadArrives == Spec /\ Fits(payload) => []PayloadInPlace
<1>1. ASSUME LoaderInv PROVE PayloadInPlace
  <2>1. pc = "payload" => InPlace(mem, payload)
    BY <1>1, PhaseFact DEF AtPayload
  <2> QED BY <2>1 DEF PayloadInPlace, InPlace
<1> QED BY <1>1, LoaderInvariance, PTL

\* Reserved memory and CBMEM above 1 MiB keep what they hold through the
\* whole boot, for every payload that fits: no segment that passed
\* check_segments, no buffer and nothing moved around it lies there.
THEOREM TablesStay == Spec /\ Fits(payload) => []TablesKept
<1>1. ASSUME LoaderInv PROVE TablesKept
  <2>1. Phase
    BY <1>1 DEF LoaderInv
  <2>2. OthersKept(mem)
    BY <2>1 DEF Phase, AtTables, AtBuild, AtCheck, AtReserve, AtLoad, AtPayload, AtReturn, AtEnd,
                Kept, OthersKept
  <2>3. ASSUME NEW t \in Taken, NEW a \in Area(t) PROVE a \notin FreeRam
    <3>1. t \in Nat \X Nat
      BY AreasAssumption DEF Taken
    <3>2. a \in Pages(t)
      BY <3>1, PagesFact
    <3> QED BY <3>2 DEF FreeRam
  <2>4. CbmemArea \in Taken /\ \A i \in DOMAIN Reserved : Reserved[i] \in Taken
    BY DEF Taken
  <2> QED BY <2>2, <2>3, <2>4 DEF TablesKept, OthersKept
<1> QED BY <1>1, LoaderInvariance, PTL

=============================================================================
