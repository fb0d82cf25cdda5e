-------------------------- MODULE AgesaHeapProofs --------------------------
(***************************************************************************)
(* The invariant of the call-out heap, for every size of the heap, every   *)
(* set of handles and lengths and every caller, up to the first step that  *)
(* the code does not test for: the list of buffers and the list of freed   *)
(* nodes partition the words behind the manager (Good).  A list is a set   *)
(* of nodes with a rank that grows along the next offsets (Chain), so that *)
(* walks need no induction over paths: a walk climbs in rank and ends when *)
(* the nodes are used up.                                                  *)
(***************************************************************************)
EXTENDS AgesaHeap, FiniteSetTheorems, WellFoundedInduction, TLAPS

\* A set that holds 0, and with each number the next one, holds all up to n.
LEMMA UpTo ==
    ASSUME NEW n \in Nat, NEW T, 0 \in T,
           \A i \in 0 .. n : (i # n /\ i \in T) => i + 1 \in T
    PROVE  \A i \in 0 .. n : i \in T
<1> DEFINE U == {i \in 0 .. n : i \notin T}
<1> SUFFICES ASSUME U # {} PROVE FALSE
    OBVIOUS
<1>1. U \subseteq Nat
    OBVIOUS
<1>2. PICK x \in U : \A y \in U : <<y, x>> \notin OpToRel(<, Nat)
    BY <1>1, WFMin, NatLessThanWellFounded
<1>3. x # 0 /\ x \in 0 .. n
    OBVIOUS
<1>4. x - 1 \in 0 .. n /\ x - 1 # n /\ x - 1 + 1 = x
    BY <1>3
<1>5. x - 1 \in T
  <2> SUFFICES ASSUME x - 1 \in U PROVE FALSE
      BY <1>4
  <2>1. <<x - 1, x>> \in Nat \X Nat /\ <<x - 1, x>>[1] < <<x - 1, x>>[2]
      BY <1>3, <1>4
  <2>2. <<x - 1, x>> \in OpToRel(<, Nat)
      BY <2>1, Zenon DEF OpToRel
  <2> QED
      BY <1>2, <2>2
<1> QED
    BY <1>4, <1>5

\* Every set of natural numbers that is not empty has a least element.
LEMMA LeastFact ==
    ASSUME NEW S \in SUBSET Nat, S # {}
    PROVE  Least(S) \in S /\ \A j \in S : Least(S) <= j
<1>1. PICK x \in S : \A y \in S : <<y, x>> \notin OpToRel(<, Nat)
    BY WFMin, NatLessThanWellFounded
<1>2. ASSUME NEW y \in S PROVE x <= y
  <2> SUFFICES ASSUME y < x PROVE FALSE
      OBVIOUS
  <2>1. <<y, x>> \in Nat \X Nat /\ <<y, x>>[1] < <<y, x>>[2]
      OBVIOUS
  <2>2. <<y, x>> \in OpToRel(<, Nat)
      BY <2>1, Zenon DEF OpToRel
  <2> QED
      BY <1>1, <2>2
<1> QED
    BY <1>2 DEF Least

-----------------------------------------------------------------------------
\* The loops along the next offsets.

\* f starts at a and goes on as g says.
Iterates(n, a, g, f) ==
    /\ f \in [0 .. n -> Nat]
    /\ f = [i \in 0 .. n |-> IF i = 0 THEN a ELSE g[f[i - 1]]]

\* A function that iterates g from a exists: what a LET-defined recursion over
\* Steps chooses.
LEMMA IterationExists ==
    ASSUME NEW n \in Nat, NEW a \in Nat, NEW g \in [Nat -> Nat]
    PROVE  \E f : Iterates(n, a, g, f)
<1> DEFINE T == {i \in 0 .. n : \E f : Iterates(i, a, g, f)}
<1>1. 0 \in T
  <2> DEFINE f == [j \in 0 .. 0 |-> a]
  <2>1. f \in [0 .. 0 -> Nat]
      OBVIOUS
  <2>2. f = [j \in 0 .. 0 |-> IF j = 0 THEN a ELSE g[f[j - 1]]]
      OBVIOUS
  <2>3. Iterates(0, a, g, f)
      BY <2>1, <2>2 DEF Iterates
  <2> QED
      BY <2>3
<1>2. ASSUME NEW i \in 0 .. n, i # n, i \in T PROVE i + 1 \in T
  <2>1. PICK f : Iterates(i, a, g, f)
      BY <1>2
  <2>2. /\ f \in [0 .. i -> Nat]
        /\ \A j \in 0 .. i : f[j] = IF j = 0 THEN a ELSE g[f[j - 1]]
      BY <2>1 DEF Iterates
  <2> DEFINE e == [j \in 0 .. i + 1 |-> IF j = i + 1 THEN g[f[i]] ELSE f[j]]
  <2>3. g[f[i]] \in Nat
      BY <2>2
  <2>4. e \in [0 .. i + 1 -> Nat]
    <3>1. ASSUME NEW j \in 0 .. i + 1, j # i + 1 PROVE f[j] \in Nat
        BY <2>2, <3>1
    <3> QED
        BY <2>3, <3>1
  <2>5. ASSUME NEW j \in 0 .. i + 1 PROVE e[j] = IF j = 0 THEN a ELSE g[e[j - 1]]
    <3>1. CASE j = i + 1
      <4>1. j - 1 = i /\ j # 0 /\ i \in 0 .. i + 1 /\ i # i + 1
          BY <3>1
      <4>2. e[i] = f[i]
          BY <4>1
      <4> QED
          BY <3>1, <4>1, <4>2
    <3>2. CASE j # i + 1 /\ j # 0
      <4>1. j \in 0 .. i /\ j - 1 \in 0 .. i + 1 /\ j - 1 # i + 1
          BY <3>2
      <4>2. e[j] = f[j] /\ e[j - 1] = f[j - 1]
          BY <3>2, <4>1
      <4> HIDE DEF e
      <4> QED
          BY <2>2, <3>2, <4>1, <4>2
    <3>3. CASE j = 0
      <4>1. j \in 0 .. i /\ j # i + 1
          BY <3>3
      <4>2. e[j] = f[j]
          BY <4>1
      <4> HIDE DEF e
      <4> QED
          BY <2>2, <3>3, <4>1, <4>2
    <3> QED
        BY <3>1, <3>2, <3>3
  <2>6. Iterates(i + 1, a, g, e)
    <3> HIDE DEF e
    <3> QED
        BY <2>4, <2>5 DEF Iterates
  <2> QED
      BY <1>2, <2>6
<1> HIDE DEF T
<1>3. \A i \in 0 .. n : i \in T
    BY <1>1, <1>2, UpTo
<1> QED
    BY <1>3 DEF T

\* A walk that starts at a number and goes from number to number is one of numbers.
LEMMA StaysNat ==
    ASSUME NEW n \in Nat, NEW w, w = [i \in 0 .. n |-> w[i]], w[0] \in Nat,
           \A i \in 1 .. n : w[i - 1] \in Nat => w[i] \in Nat
    PROVE  w \in [0 .. n -> Nat]
<1> DEFINE T == {j \in 0 .. n : w[j] \in Nat}
<1>1. 0 \in T
    OBVIOUS
<1>2. ASSUME NEW i \in 0 .. n, i # n, i \in T PROVE i + 1 \in T
  <2>1. i + 1 \in 1 .. n /\ (i + 1) - 1 = i
      BY <1>2
  <2>2. w[i + 1] \in Nat
      BY <1>2, <2>1
  <2> QED
      BY <2>1, <2>2
<1>3. \A i \in 0 .. n : i \in T
  <2> HIDE DEF T
  <2> QED
      BY <1>1, <1>2, UpTo
<1> QED
    BY <1>3

Memory == [Words -> Nat]

\* Next offsets are numbers, inside and outside the heap.
LEMMA NextIsNat ==
    ASSUME NEW m \in Memory, NEW o \in Nat
    PROVE  NextNodeOffset(m, o) \in Nat
BY DEF NextNodeOffset, Rd, Memory

\* The loop along the next offsets, as a recursion equation.
LEMMA WalkFact ==
    ASSUME NEW m \in Memory, NEW o \in Nat
    PROVE  /\ Walk(m, o) \in [Steps -> Nat]
           /\ Walk(m, o)[0] = o
           /\ \A i \in 1 .. HEAP_SIZE :
                 Walk(m, o)[i] = IF Walk(m, o)[i - 1] = 0 THEN 0
                                 ELSE NextNodeOffset(m, Walk(m, o)[i - 1])
<1> DEFINE g == [x \in Nat |-> IF x = 0 THEN 0 ELSE NextNodeOffset(m, x)]
           W(f) == f = [i \in Steps |-> IF i = 0 THEN o
                                        ELSE IF f[i - 1] = 0 THEN 0
                                        ELSE NextNodeOffset(m, f[i - 1])]
<1>0. HEAP_SIZE \in Nat
    BY HeapAssumption
<1>1. g \in [Nat -> Nat]
    BY NextIsNat
<1>2. PICK f : Iterates(HEAP_SIZE, o, g, f)
  <2> HIDE DEF g
  <2> QED
      BY <1>0, <1>1, IterationExists
<1>3. W(f)
  <2>1. f \in [Steps -> Nat] /\ f = [i \in Steps |-> IF i = 0 THEN o ELSE g[f[i - 1]]]
      BY <1>2 DEF Iterates, Steps
  <2>2. \A x \in Nat : g[x] = IF x = 0 THEN 0 ELSE NextNodeOffset(m, x)
      OBVIOUS
  <2>3. \A i \in Steps : i # 0 => f[i - 1] \in Nat
    <3>1. f \in [Steps -> Nat]
        BY <2>1
    <3> QED
        BY <1>0, <3>1 DEF Steps
  <2> HIDE DEF g
  <2> QED
      BY <2>1, <2>2, <2>3
<1>4. W(Walk(m, o))
  <2>1. Walk(m, o) = CHOOSE w : W(w)
      BY Zenon DEF Walk
  <2> HIDE DEF W
  <2> QED
      BY <1>3, <2>1
<1> DEFINE w == Walk(m, o)
<1> HIDE DEF w
<1>5. /\ \A i \in Steps : w[i] = IF i = 0 THEN o ELSE IF w[i - 1] = 0 THEN 0
                                 ELSE NextNodeOffset(m, w[i - 1])
      /\ w = [i \in Steps |-> w[i]]
    BY <1>4 DEF w
<1>6. 0 \in Steps /\ \A i \in 1 .. HEAP_SIZE : i \in Steps /\ i # 0
    BY <1>0 DEF Steps
<1>7. w[0] \in Nat /\ \A i \in 1 .. HEAP_SIZE : w[i - 1] \in Nat => w[i] \in Nat
    BY <1>5, <1>6, NextIsNat
<1>8. w \in [Steps -> Nat]
  <2>1. w = [i \in 0 .. HEAP_SIZE |-> w[i]]
      BY <1>5 DEF Steps
  <2> QED
      BY <1>0, <1>7, <2>1, StaysNat DEF Steps
<1>9. w[0] = o /\ \A i \in 1 .. HEAP_SIZE :
          w[i] = IF w[i - 1] = 0 THEN 0 ELSE NextNodeOffset(m, w[i - 1])
    BY <1>5, <1>6
<1> QED
    BY <1>8, <1>9 DEF w

\* The same for the loop of BiosDeallocateBuffer, which does not stop at 0.
LEMMA BehindWalkFact ==
    ASSUME NEW m \in Memory, StartOfFreedNodes(m) \in Nat
    PROVE  /\ BehindWalk(m) \in [Steps -> Nat]
           /\ BehindWalk(m)[0] = StartOfFreedNodes(m)
           /\ \A i \in 1 .. HEAP_SIZE :
                 BehindWalk(m)[i] = NextNodeOffset(m, BehindWalk(m)[i - 1])
<1> DEFINE o == StartOfFreedNodes(m)
           g == [x \in Nat |-> NextNodeOffset(m, x)]
           W(f) == f = [i \in Steps |-> IF i = 0 THEN StartOfFreedNodes(m)
                                        ELSE NextNodeOffset(m, f[i - 1])]
<1>0. HEAP_SIZE \in Nat
    BY HeapAssumption
<1>1. g \in [Nat -> Nat]
    BY NextIsNat
<1>2. PICK f : Iterates(HEAP_SIZE, o, g, f)
  <2> HIDE DEF g
  <2> QED
      BY <1>0, <1>1, IterationExists
<1>3. W(f)
  <2>1. f \in [Steps -> Nat] /\ f = [i \in Steps |-> IF i = 0 THEN o ELSE g[f[i - 1]]]
      BY <1>2 DEF Iterates, Steps
  <2>2. \A x \in Nat : g[x] = NextNodeOffset(m, x)
      OBVIOUS
  <2>3. \A i \in Steps : i # 0 => f[i - 1] \in Nat
    <3>1. f \in [Steps -> Nat]
        BY <2>1
    <3> QED
        BY <1>0, <3>1 DEF Steps
  <2> HIDE DEF g
  <2> QED
      BY <2>1, <2>2, <2>3
<1>4. W(BehindWalk(m))
  <2>1. BehindWalk(m) = CHOOSE w : W(w)
      BY Zenon DEF BehindWalk
  <2> HIDE DEF W
  <2> QED
      BY <1>3, <2>1
<1> DEFINE w == BehindWalk(m)
<1> HIDE DEF w
<1>5. /\ \A i \in Steps : w[i] = IF i = 0 THEN o ELSE NextNodeOffset(m, w[i - 1])
      /\ w = [i \in Steps |-> w[i]]
    BY <1>4 DEF w
<1>6. 0 \in Steps /\ \A i \in 1 .. HEAP_SIZE : i \in Steps /\ i # 0
    BY <1>0 DEF Steps
<1>7. w[0] \in Nat /\ \A i \in 1 .. HEAP_SIZE : w[i - 1] \in Nat => w[i] \in Nat
    BY <1>5, <1>6, NextIsNat
<1>8. w \in [Steps -> Nat]
  <2>1. w = [i \in 0 .. HEAP_SIZE |-> w[i]]
      BY <1>5 DEF Steps
  <2> QED
      BY <1>0, <1>7, <2>1, StaysNat DEF Steps
<1>9. w[0] = o /\ \A i \in 1 .. HEAP_SIZE : w[i] = NextNodeOffset(m, w[i - 1])
    BY <1>5, <1>6
<1> QED
    BY <1>8, <1>9 DEF w

-----------------------------------------------------------------------------
\* A list of nodes: S are the nodes, in the order of their ranks r, and first
\* is the head.
Chain(m, first, S, r) ==
    /\ \A o \in S : o \in Nat /\ MANAGER <= o /\ o + NODE <= HEAP_SIZE
    /\ first \in S /\ \A p \in S : r[first] <= r[p]
    /\ \A o, p \in S : r[o] = r[p] => o = p
    /\ \A o \in S : m[o + 2] = 0 => \A p \in S : r[p] <= r[o]
    /\ \A o \in S : m[o + 2] # 0 => /\ m[o + 2] \in S
                                    /\ r[o] < r[m[o + 2]]
                                    /\ \A p \in S : r[p] <= r[o] \/ r[m[o + 2]] <= r[p]

Ranks == [Words -> Nat]

\* The header of a node on a list lies in the heap.
LEMMA ChainNext ==
    ASSUME NEW m \in Memory, NEW first, NEW S, NEW r \in Ranks,
           Chain(m, first, S, r), NEW o \in S
    PROVE  /\ NextNodeOffset(m, o) = m[o + 2]
           /\ o \in Words /\ o + 1 \in Words /\ o + 2 \in Words
           /\ o \in Nat /\ o # 0 /\ r[o] \in Nat /\ m[o + 2] \in Nat
<1>1. o \in Nat /\ 2 <= o /\ o + 3 <= HEAP_SIZE /\ HEAP_SIZE \in Nat
    BY HeapAssumption DEF Chain, MANAGER, NODE
<1>2. o \in Words /\ o + 1 \in Words /\ o + 2 \in Words /\ o # 0
    BY <1>1 DEF Words
<1> QED
    BY <1>1, <1>2 DEF NextNodeOffset, Rd, Memory, Ranks

\* What a list says of two of its nodes.
LEMMA ChainAt ==
    ASSUME NEW m, NEW first, NEW S, NEW r, Chain(m, first, S, r), NEW o \in S, NEW p \in S
    PROVE  /\ r[first] <= r[p]
           /\ r[o] = r[p] => o = p
           /\ m[o + 2] = 0 => r[p] <= r[o]
           /\ m[o + 2] # 0 => /\ m[o + 2] \in S
                              /\ r[o] < r[m[o + 2]]
                              /\ r[p] <= r[o] \/ r[m[o + 2]] <= r[p]
BY Zenon DEF Chain

\* What a walk along a list comes by.
Walks(w, m, S, r) ==
    /\ w \in [Steps -> Nat]
    /\ \A i \in Steps : w[i] # 0 => w[i] \in S
    /\ \A i \in 1 .. HEAP_SIZE :
          w[i] # 0 => /\ w[i - 1] \in S
                      /\ w[i] = m[w[i - 1] + 2]
                      /\ r[w[i - 1]] < r[w[i]]
    /\ \A i \in 1 .. HEAP_SIZE : w[i] = 0 /\ w[i - 1] # 0 => m[w[i - 1] + 2] = 0
    /\ Ends(w)
    /\ Nodes(w) = S

\* A walk along a list comes by all of its nodes, in order, and ends.
LEMMA WalkChain ==
    ASSUME NEW m \in Memory, NEW first \in Nat, NEW S, NEW r \in Ranks,
           Chain(m, first, S, r)
    PROVE  /\ Walks(Walk(m, first), m, S, r)
           /\ Walk(m, first)[0] = first
<1> DEFINE w == Walk(m, first)
<1>0. HEAP_SIZE \in Nat
    BY HeapAssumption
<1>1. /\ w \in [Steps -> Nat]
      /\ w[0] = first
      /\ \A i \in 1 .. HEAP_SIZE :
            w[i] = IF w[i - 1] = 0 THEN 0 ELSE NextNodeOffset(m, w[i - 1])
    BY WalkFact
<1> HIDE DEF w
<1>2. ASSUME NEW i \in Steps, i # HEAP_SIZE
      PROVE  /\ i \in 0 .. HEAP_SIZE
             /\ i + 1 \in 1 .. HEAP_SIZE /\ i + 1 \in Steps
             /\ w[i + 1] = IF w[i] = 0 THEN 0 ELSE NextNodeOffset(m, w[i])
  <2>1. i + 1 \in 1 .. HEAP_SIZE /\ (i + 1) - 1 = i /\ i + 1 \in Steps
      BY <1>0, <1>2 DEF Steps
  <2> QED
      BY <1>1, <2>1 DEF Steps
<1>3. ASSUME NEW i \in Steps PROVE w[i] # 0 => w[i] \in S
  <2> DEFINE T == {j \in Steps : w[j] # 0 => w[j] \in S}
  <2>1. 0 \in T
      BY <1>0, <1>1 DEF Chain, Steps
  <2>2. ASSUME NEW j \in 0 .. HEAP_SIZE, j # HEAP_SIZE, j \in T PROVE j + 1 \in T
    <3>1. j \in Steps
        BY <2>2
    <3>2. CASE w[j] = 0
        BY <1>2, <2>2, <3>1, <3>2
    <3>3. CASE w[j] # 0
      <4>1. w[j] \in S
          BY <2>2, <3>3
      <4>2. w[j + 1] = m[w[j] + 2]
          BY <1>2, <2>2, <3>1, <3>3, <4>1, ChainNext
      <4> QED
          BY <1>2, <2>2, <3>1, <4>1, <4>2 DEF Chain
    <3> QED
        BY <3>2, <3>3
  <2>3. \A j \in 0 .. HEAP_SIZE : j \in T
    <3> HIDE DEF T
    <3> QED
        BY <1>0, <2>1, <2>2, UpTo
  <2> QED
      BY <2>3 DEF Steps
<1>4. ASSUME NEW i \in 1 .. HEAP_SIZE, w[i] # 0
      PROVE  w[i - 1] \in S /\ w[i] = m[w[i - 1] + 2] /\ r[w[i - 1]] < r[w[i]]
  <2>1. i - 1 \in Steps
      BY <1>0 DEF Steps
  <2>2. w[i - 1] # 0 /\ w[i] = NextNodeOffset(m, w[i - 1])
      BY <1>1, <1>4
  <2>3. w[i - 1] \in S
      BY <1>3, <2>1, <2>2
  <2>4. w[i] = m[w[i - 1] + 2]
      BY <2>2, <2>3, ChainNext
  <2> QED
      BY <1>4, <2>3, <2>4 DEF Chain
<1>5. ASSUME NEW i \in 1 .. HEAP_SIZE, w[i] = 0, w[i - 1] # 0 PROVE m[w[i - 1] + 2] = 0
  <2>1. i - 1 \in Steps
      BY <1>0 DEF Steps
  <2>2. w[i - 1] \in S
      BY <1>3, <1>5, <2>1
  <2> QED
      BY <1>1, <1>5, <2>2, ChainNext
<1>6. w[HEAP_SIZE] = 0
  <2> DEFINE T == {j \in Steps : w[j] # 0 =>
                     \A i \in Steps : i < j => w[i] \in S /\ r[w[i]] < r[w[j]]}
  <2>1. 0 \in T
      BY <1>0 DEF Steps
  <2>2. ASSUME NEW j \in 0 .. HEAP_SIZE, j # HEAP_SIZE, j \in T PROVE j + 1 \in T
    <3>1. j \in Steps /\ j + 1 \in Steps /\ j + 1 \in 1 .. HEAP_SIZE /\ (j + 1) - 1 = j
        BY <1>0, <2>2 DEF Steps
    <3>2. SUFFICES ASSUME w[j + 1] # 0, NEW i \in Steps, i < j + 1
                   PROVE  w[i] \in S /\ r[w[i]] < r[w[j + 1]]
        BY <3>1
    <3>3. w[j] \in S /\ r[w[j]] < r[w[j + 1]] /\ w[j + 1] \in S
        BY <1>3, <1>4, <3>1, <3>2
    <3>4. CASE i = j
        BY <3>3, <3>4
    <3>5. CASE i # j
      <4>1. i < j /\ w[j] # 0
          BY <1>0, <3>1, <3>2, <3>3, <3>5, ChainNext DEF Steps
      <4>2. w[i] \in S /\ r[w[i]] < r[w[j]]
          BY <2>2, <4>1
      <4>3. r[w[i]] \in Nat /\ r[w[j]] \in Nat /\ r[w[j + 1]] \in Nat
          BY <3>3, <4>2, ChainNext
      <4> QED
          BY <3>3, <4>2, <4>3
    <3> QED
        BY <3>4, <3>5
  <2>3. \A j \in 0 .. HEAP_SIZE : j \in T
    <3> HIDE DEF T
    <3> QED
        BY <1>0, <2>1, <2>2, UpTo
  <2>4. ASSUME w[HEAP_SIZE] # 0 PROVE FALSE
    <3>1. HEAP_SIZE \in T /\ HEAP_SIZE \in Steps
        BY <1>0, <2>3 DEF Steps
    <3>2. ASSUME NEW i \in Steps PROVE w[i] \in S
      <4>1. CASE i = HEAP_SIZE
          BY <1>3, <2>4, <4>1
      <4>2. CASE i # HEAP_SIZE
        <5>1. i < HEAP_SIZE
            BY <1>0, <4>2 DEF Steps
        <5> QED
            BY <2>4, <3>1, <5>1
      <4> QED
          BY <4>1, <4>2
    <3>3. w \in [Steps -> Words]
        BY <1>1, <3>2, ChainNext
    <3>4. /\ IsFiniteSet(Steps) /\ Cardinality(Steps) = HEAP_SIZE + 1
          /\ IsFiniteSet(Words) /\ Cardinality(Words) = HEAP_SIZE
      <4>1. /\ IsFiniteSet(0 .. HEAP_SIZE)
            /\ Cardinality(0 .. HEAP_SIZE) = IF 0 > HEAP_SIZE THEN 0 ELSE HEAP_SIZE - 0 + 1
          BY <1>0, FS_Interval
      <4>2. /\ IsFiniteSet(0 .. HEAP_SIZE - 1)
            /\ Cardinality(0 .. HEAP_SIZE - 1)
                 = IF 0 > HEAP_SIZE - 1 THEN 0 ELSE HEAP_SIZE - 1 - 0 + 1
        <5>1. HEAP_SIZE - 1 \in Int
            BY <1>0
        <5> QED
            BY <5>1, FS_Interval
      <4> QED
          BY <1>0, <4>1, <4>2 DEF Steps, Words
    <3>5. PICK x \in Steps, y \in Steps : x # y /\ w[x] = w[y]
      <4>1. Cardinality(Words) < Cardinality(Steps)
          BY <1>0, <3>4
      <4> QED
          BY <3>3, <3>4, <4>1, FS_PigeonHole
    <3>6. ASSUME NEW a \in Steps, NEW b \in Steps, a < b, w[a] = w[b] PROVE FALSE
      <4>1. b \in T /\ w[b] \in S
          BY <2>3, <3>2 DEF Steps
      <4>2. w[b] # 0
          BY <4>1, ChainNext
      <4>3. r[w[a]] < r[w[b]] /\ r[w[b]] \in Nat
          BY <3>6, <4>1, <4>2, ChainNext
      <4> QED
          BY <3>6, <4>3
    <3> QED
        BY <1>0, <3>5, <3>6 DEF Steps
  <2> QED
      BY <2>4
<1>7. ASSUME NEW p \in S PROVE \E i \in Steps : w[i] = p
  <2> SUFFICES ASSUME \A i \in Steps : w[i] # p PROVE FALSE
      OBVIOUS
  <2> DEFINE T == {j \in Steps : w[j] \in S /\ r[w[j]] < r[p]}
  <2>1. 0 \in T
    <3>1. 0 \in Steps /\ first \in S /\ first # p
        BY <1>0, <1>1 DEF Steps, Chain
    <3>2. r[first] <= r[p] /\ r[first] # r[p]
        BY <3>1 DEF Chain
    <3>3. r[first] \in Nat /\ r[p] \in Nat
        BY <3>1, ChainNext
    <3> QED
        BY <1>1, <3>1, <3>2, <3>3
  <2>2. ASSUME NEW j \in 0 .. HEAP_SIZE, j # HEAP_SIZE, j \in T PROVE j + 1 \in T
    <3>1. j \in Steps /\ j + 1 \in Steps /\ w[j] \in S /\ r[w[j]] < r[p]
        BY <1>2, <2>2
    <3>2. r[w[j]] \in Nat /\ r[p] \in Nat /\ w[j] # 0
        BY <3>1, ChainNext
    <3>3. w[j + 1] = m[w[j] + 2]
        BY <1>2, <2>2, <3>1, <3>2, ChainNext
    <3>4. m[w[j] + 2] # 0
      <4>1. m[w[j] + 2] = 0 => r[p] <= r[w[j]]
          BY <3>1, ChainAt
      <4> QED
          BY <3>1, <3>2, <4>1
    <3>5. w[j + 1] \in S /\ (r[p] <= r[w[j]] \/ r[w[j + 1]] <= r[p])
        BY <3>1, <3>3, <3>4, ChainAt
    <3>6. r[w[j + 1]] \in Nat /\ r[w[j + 1]] # r[p]
        BY <3>1, <3>5, ChainNext, ChainAt
    <3> QED
        BY <3>1, <3>2, <3>5, <3>6
  <2>3. \A j \in 0 .. HEAP_SIZE : j \in T
    <3> HIDE DEF T
    <3> QED
        BY <1>0, <2>1, <2>2, UpTo
  <2>4. w[HEAP_SIZE] \in S
      BY <1>0, <2>3
  <2> QED
      BY <1>6, <2>4, ChainNext
<1>8. Nodes(w) = S
  <2>1. 0 \notin S
      BY ChainNext
  <2> QED
      BY <1>3, <1>7, <2>1 DEF Nodes
<1> QED
    BY <1>1, <1>3, <1>4, <1>5, <1>6, <1>8 DEF Walks, Ends, w

\* The node a walk comes by at step i, and the one before it.
LEMMA WalkIndex ==
    ASSUME NEW m, NEW first, NEW S, NEW r, NEW w, Walks(w, m, S, r), w[0] = first,
           NEW i \in Steps, w[i] # 0
    PROVE  /\ w[i] \in S
           /\ i = 0 => w[i] = first
           /\ i # 0 => w[i - 1] \in S /\ m[w[i - 1] + 2] = w[i]
<1>1. i # 0 => i \in 1 .. HEAP_SIZE
    BY HeapAssumption DEF Steps
<1> QED
    BY <1>1 DEF Walks

\* The last node of a list.
LEMMA LastFact ==
    ASSUME NEW m \in Memory, NEW first \in Nat, NEW S, NEW r \in Ranks,
           Chain(m, first, S, r)
    PROVE  LET l == LastNode(Walk(m, first)) IN
           l \in S /\ m[l + 2] = 0 /\ \A p \in S : r[p] <= r[l]
<1> DEFINE w == Walk(m, first)
           P(i) == w[i] # 0 /\ w[i + 1] = 0
<1>0. HEAP_SIZE \in Nat
    BY HeapAssumption
<1>1. Walks(w, m, S, r) /\ w[0] = first /\ first \in S
    BY WalkChain DEF Chain
<1>2. first # 0
    BY <1>1, ChainNext
<1> HIDE DEF w
<1>3. w[HEAP_SIZE] = 0
    BY <1>1 DEF Walks, Ends
<1>4. \E i \in Steps : P(i)
  <2> SUFFICES ASSUME \A i \in Steps : ~P(i) PROVE FALSE
      OBVIOUS
  <2> DEFINE T == {j \in Steps : w[j] # 0}
  <2>1. 0 \in T
      BY <1>0, <1>1, <1>2 DEF Steps
  <2>2. ASSUME NEW j \in 0 .. HEAP_SIZE, j # HEAP_SIZE, j \in T PROVE j + 1 \in T
    <3>1. j \in Steps /\ j + 1 \in Steps
        BY <1>0, <2>2 DEF Steps
    <3> QED
        BY <2>2, <3>1
  <2>3. \A j \in 0 .. HEAP_SIZE : j \in T
    <3> HIDE DEF T
    <3> QED
        BY <1>0, <2>1, <2>2, UpTo
  <2> QED
      BY <1>0, <1>3, <2>3
<1> DEFINE i == CHOOSE i \in Steps : w[i] # 0 /\ w[i + 1] = 0
<1>5. i \in Steps /\ w[i] # 0 /\ w[i + 1] = 0
    BY <1>4
<1> HIDE DEF i
<1>6. w[i] \in S
    BY <1>1, <1>5 DEF Walks
<1>7. i + 1 \in 1 .. HEAP_SIZE /\ (i + 1) - 1 = i
    BY <1>0, <1>3, <1>5 DEF Steps
<1>8. m[w[i] + 2] = 0
    BY <1>1, <1>5, <1>7 DEF Walks
<1>9. \A p \in S : r[p] <= r[w[i]]
    BY <1>6, <1>8, ChainAt
<1>10. LastNode(w) = w[i]
    BY DEF LastNode, i
<1> QED
    BY <1>6, <1>8, <1>9, <1>10 DEF w

\* The node found by a loop that remembers the one it came from.
FoundIn(S, m, first, e) ==
    /\ e.node \in S
    /\ e.node # first => e.prev \in S /\ m[e.prev + 2] = e.node

\* The best fit is on the list of freed nodes, with its predecessor, and fits.
LEMMA BestFitFact ==
    ASSUME NEW m \in Memory, NEW S, NEW r \in Ranks, m[1] \in Nat,
           Chain(m, m[1], S, r), NEW len \in Nat
    PROVE  LET e == BestFit(m, len) IN
           \/ e.node = 0
           \/ FoundIn(S, m, m[1], e) /\ m[e.node + 1] >= len + NODE
<1> DEFINE w == Walk(m, StartOfFreedNodes(m))
           fits == {i \in Steps : w[i] # 0 /\ BufferSize(m, w[i]) >= len + NODE}
           best == {i \in fits : \A j \in fits : BufferSize(m, w[i]) <= BufferSize(m, w[j])}
           i == Least(best)
<1>0. HEAP_SIZE \in Nat /\ Steps \subseteq Nat
    BY HeapAssumption DEF Steps
<1>1. Walks(w, m, S, r) /\ w[0] = m[1]
    BY WalkChain DEF StartOfFreedNodes
<1>2. BestFit(m, len) = IF fits = {} THEN [node |-> 0, prev |-> 0]
                        ELSE [node |-> w[i], prev |-> IF i = 0 THEN w[0] ELSE w[i - 1]]
    BY DEF BestFit
<1> HIDE DEF w
<1>3. ASSUME NEW o \in S PROVE BufferSize(m, o) = m[o + 1] /\ m[o + 1] \in Nat
    BY ChainNext DEF BufferSize, Rd, Memory
<1>4. ASSUME fits # {} PROVE i \in fits
  <2> DEFINE Z == {BufferSize(m, w[j]) : j \in fits}
  <2>1. \A j \in fits : w[j] \in S
      BY <1>1 DEF Walks
  <2>2. Z \subseteq Nat /\ Z # {}
      BY <1>3, <1>4, <2>1
  <2>3. Least(Z) \in Z /\ \A z \in Z : Least(Z) <= z
    <3> HIDE DEF Z
    <3> QED
        BY <2>2, LeastFact
  <2>4. best # {}
    <3>1. PICK j \in fits : Least(Z) = BufferSize(m, w[j])
        BY <2>3
    <3>2. ASSUME NEW l \in fits PROVE BufferSize(m, w[j]) <= BufferSize(m, w[l])
      <4>1. BufferSize(m, w[l]) \in Z
          OBVIOUS
      <4> HIDE DEF Z
      <4> QED
          BY <2>3, <3>1, <4>1
    <3>3. j \in best
      <4> HIDE DEF fits
      <4> QED
          BY <3>2
    <3> QED
        BY <3>3
  <2>5. best \in SUBSET Nat
      BY <1>0
  <2>6. Least(best) \in best
    <3> HIDE DEF best
    <3> QED
        BY <2>4, <2>5, LeastFact
  <2> QED
      BY <2>6
<1>5. ASSUME fits # {}
      PROVE  /\ w[i] \in S
             /\ i = 0 => w[i] = m[1]
             /\ i # 0 => w[i - 1] \in S /\ m[w[i - 1] + 2] = w[i]
             /\ m[w[i] + 1] >= len + NODE
  <2>1. i \in Steps /\ w[i] # 0 /\ BufferSize(m, w[i]) >= len + NODE
      BY <1>4, <1>5
  <2> HIDE DEF i
  <2>2. /\ w[i] \in S
        /\ i = 0 => w[i] = m[1]
        /\ i # 0 => w[i - 1] \in S /\ m[w[i - 1] + 2] = w[i]
      BY <1>1, <2>1, WalkIndex
  <2> QED
      BY <1>3, <2>1, <2>2
<1> HIDE DEF fits, i
<1> QED
    BY <1>2, <1>5 DEF FoundIn

\* The node found for a handle is on the list of buffers, with its predecessor;
\* if none is found, no buffer has the handle.
LEMMA FindFact ==
    ASSUME NEW m \in Memory, NEW S, NEW r \in Ranks, m[0] \in Nat,
           Chain(m, m[0], S, r), NEW h
    PROVE  LET e == Find(m, h) IN
           \/ e.node = 0 /\ \A o \in S : m[o] # h
           \/ FoundIn(S, m, m[0], e) /\ m[e.node] = h /\ e.node # 0
<1> DEFINE w == Allocated(m)
           is == {i \in Steps : w[i] # 0 /\ BufferHandle(m, w[i]) = h}
           i == Least(is)
<1>0. HEAP_SIZE \in Nat /\ Steps \subseteq Nat
    BY HeapAssumption DEF Steps
<1>1. Walks(w, m, S, r) /\ w[0] = m[0]
    BY WalkChain DEF StartOfAllocatedNodes, Allocated
<1>2. Find(m, h) = IF is = {} THEN [node |-> 0, prev |-> 0]
                   ELSE [node |-> w[i], prev |-> IF i = 0 THEN w[0] ELSE w[i - 1]]
    BY DEF Find
<1> HIDE DEF w
<1>3. ASSUME NEW o \in S PROVE BufferHandle(m, o) = m[o] /\ o # 0
    BY ChainNext DEF BufferHandle, Rd, Memory
<1>4. ASSUME is = {}, NEW o \in S PROVE m[o] # h
  <2>1. o \in Nodes(w)
      BY <1>1 DEF Walks
  <2>2. PICK j \in Steps : w[j] = o
      BY <2>1 DEF Nodes
  <2> QED
      BY <1>3, <1>4, <2>2
<1>5. ASSUME is # {}
      PROVE  /\ w[i] \in S
             /\ i = 0 => w[i] = m[0]
             /\ i # 0 => w[i - 1] \in S /\ m[w[i - 1] + 2] = w[i]
             /\ m[w[i]] = h /\ w[i] # 0
  <2>1. i \in Steps /\ w[i] # 0 /\ BufferHandle(m, w[i]) = h
    <3>1. is \in SUBSET Nat
        BY <1>0
    <3>2. Least(is) \in is
      <4> HIDE DEF is
      <4> QED
          BY <1>5, <3>1, LeastFact
    <3> QED
        BY <3>2
  <2> HIDE DEF i
  <2>2. /\ w[i] \in S
        /\ i = 0 => w[i] = m[0]
        /\ i # 0 => w[i - 1] \in S /\ m[w[i - 1] + 2] = w[i]
      BY <1>1, <2>1, WalkIndex
  <2> QED
      BY <1>3, <2>1, <2>2
<1> HIDE DEF is, i
<1> QED
    BY <1>2, <1>4, <1>5 DEF FoundIn

\* The list of freed nodes is ordered by offset.
Offsets == [o \in Words |-> o]

\* Offsets rank the nodes of the list of freed nodes.
LEMMA OffsetRank ==
    ASSUME NEW m \in Memory, NEW first, NEW S, Chain(m, first, S, Offsets), NEW o \in S
    PROVE  Offsets[o] = o /\ o \in Nat /\ o < HEAP_SIZE /\ Offsets \in Ranks
<1>1. Offsets \in Ranks
    BY HeapAssumption DEF Offsets, Ranks, Words
<1>2. o \in Words /\ o \in Nat
    BY <1>1, ChainNext
<1> QED
    BY <1>1, <1>2, HeapAssumption DEF Offsets, Words

\* The loop that looks for the place of a freed buffer stops at the first
\* freed node behind it, if there are nodes on both sides of it.
LEMMA BehindFact ==
    ASSUME NEW m \in Memory, NEW S, m[1] \in Nat, Chain(m, m[1], S, Offsets),
           NEW a \in Nat, m[1] < a, NEW z \in S, a < z
    PROVE  /\ Stops(m, a) # {}
           /\ LET b == Behind(m, a) IN
              /\ b.prev \in S /\ b.prev < a
              /\ b.next \in S /\ a <= b.next /\ m[b.prev + 2] = b.next
<1> DEFINE w == BehindWalk(m)
           Stop(i) == w[i] >= a \/ NextNodeOffset(m, w[i]) = 0
           i == Least(Stops(m, a))
<1>0. HEAP_SIZE \in Nat /\ 0 \in Steps
    BY HeapAssumption DEF Steps
<1>1. /\ w \in [Steps -> Nat] /\ w[0] = m[1]
      /\ \A k \in 1 .. HEAP_SIZE : w[k] = NextNodeOffset(m, w[k - 1])
    BY BehindWalkFact DEF StartOfFreedNodes
<1>2. Stops(m, a) = {k \in Steps : Stop(k)}
    BY DEF Stops
<1>3. Behind(m, a) = [next |-> w[i], prev |-> IF w[i] >= a /\ i > 0 THEN w[i - 1] ELSE w[i]]
    BY DEF Behind
<1> HIDE DEF w
<1>4. w[0] \in S /\ Offsets \in Ranks
    BY <1>1, OffsetRank DEF Chain
\* As long as the loop goes on it comes by the freed nodes in order.
<1>5. ASSUME NEW k \in Steps, k # HEAP_SIZE, w[k] \in S, ~Stop(k)
      PROVE  /\ k + 1 \in Steps /\ w[k + 1] \in S /\ w[k] < w[k + 1]
             /\ w[k] < a /\ w[k + 1] = m[w[k] + 2]
  <2>1. k + 1 \in Steps /\ k + 1 \in 1 .. HEAP_SIZE /\ (k + 1) - 1 = k
      BY <1>0, <1>5 DEF Steps
  <2>2. w[k + 1] = NextNodeOffset(m, w[k])
      BY <1>1, <2>1
  <2>3. NextNodeOffset(m, w[k]) = m[w[k] + 2]
      BY <1>4, <1>5, ChainNext
  <2>4. w[k + 1] \in S /\ Offsets[w[k]] < Offsets[w[k + 1]]
      BY <1>5, <2>2, <2>3, ChainAt
  <2>5. Offsets[w[k]] = w[k] /\ Offsets[w[k + 1]] = w[k + 1] /\ w[k] \in Nat
      BY <1>5, <2>4, OffsetRank
  <2> QED
      BY <1>5, <2>1, <2>2, <2>3, <2>4, <2>5
<1>6. Stops(m, a) # {}
  <2> SUFFICES ASSUME \A k \in Steps : ~Stop(k) PROVE FALSE
      BY <1>2
  <2> DEFINE T == {k \in Steps : w[k] \in S /\ k <= w[k]}
  <2>1. 0 \in T
    <3>1. 0 <= w[0]
        BY <1>1
    <3> QED
        BY <1>0, <1>4, <3>1
  <2>2. ASSUME NEW k \in 0 .. HEAP_SIZE, k # HEAP_SIZE, k \in T PROVE k + 1 \in T
    <3>1. k \in Steps /\ w[k] \in S /\ k <= w[k]
        BY <2>2
    <3>2. k + 1 \in Steps /\ w[k + 1] \in S /\ w[k] < w[k + 1]
        BY <1>5, <2>2, <3>1
    <3>3. w[k] \in Nat /\ w[k + 1] \in Nat
        BY <3>1, <3>2, OffsetRank
    <3>4. k + 1 <= w[k + 1]
        BY <2>2, <3>1, <3>2, <3>3
    <3> QED
        BY <3>2, <3>4
  <2>3. \A k \in 0 .. HEAP_SIZE : k \in T
    <3> HIDE DEF T
    <3> QED
        BY <1>0, <2>1, <2>2, UpTo
  <2>4. w[HEAP_SIZE] \in S /\ HEAP_SIZE <= w[HEAP_SIZE]
      BY <1>0, <2>3
  <2> QED
      BY <1>0, <2>4, OffsetRank
<1>7. i \in Steps /\ Stop(i) /\ \A k \in Steps : k < i => ~Stop(k)
  <2>1. Stops(m, a) \in SUBSET Nat
      BY <1>0, <1>2 DEF Steps
  <2>2. i \in Stops(m, a) /\ \A k \in Stops(m, a) : i <= k
      BY <1>6, <2>1, LeastFact
  <2>3. ASSUME NEW k \in Steps, k < i PROVE ~Stop(k)
    <3>1. ~(i <= k)
        BY <1>0, <2>1, <2>2, <2>3 DEF Steps
    <3> QED
        BY <1>2, <2>2, <3>1
  <2> QED
      BY <1>2, <2>2, <2>3
<1> HIDE DEF i
<1>8. ASSUME NEW k \in Steps, k <= i PROVE w[k] \in S
  <2> DEFINE T == {j \in Steps : j <= i => w[j] \in S}
  <2>1. 0 \in T
      BY <1>0, <1>4
  <2>2. ASSUME NEW j \in 0 .. HEAP_SIZE, j # HEAP_SIZE, j \in T PROVE j + 1 \in T
    <3>1. j \in Steps /\ j + 1 \in Steps
        BY <1>0, <2>2 DEF Steps
    <3>2. j + 1 <= i => j < i /\ j <= i
        BY <1>0, <1>7, <2>2 DEF Steps
    <3>3. j + 1 <= i => w[j + 1] \in S
        BY <1>5, <1>7, <2>2, <3>1, <3>2
    <3> QED
        BY <3>1, <3>3
  <2>3. \A j \in 0 .. HEAP_SIZE : j \in T
    <3> HIDE DEF T
    <3> QED
        BY <1>0, <2>1, <2>2, UpTo
  <2> QED
      BY <1>8, <2>3 DEF Steps
<1>9. w[i] \in S
    BY <1>0, <1>7, <1>8 DEF Steps
<1>10. w[i] >= a
  <2> SUFFICES ASSUME ~(w[i] >= a) PROVE FALSE
      OBVIOUS
  <2>1. m[w[i] + 2] = 0
      BY <1>4, <1>7, <1>9, ChainNext
  <2>2. Offsets[z] <= Offsets[w[i]]
      BY <1>9, <2>1, ChainAt
  <2>3. z <= w[i] /\ z \in Nat /\ w[i] \in Nat
      BY <1>9, <2>2, OffsetRank
  <2> QED
      BY <2>3
<1>11. i # 0
    BY <1>1, <1>10
<1>12. i - 1 \in Steps /\ i - 1 < i /\ i - 1 <= i /\ i - 1 # HEAP_SIZE /\ (i - 1) + 1 = i /\ i > 0
    BY <1>0, <1>7, <1>11 DEF Steps
<1>13. w[i - 1] \in S /\ w[i - 1] < a /\ w[i] = m[w[i - 1] + 2]
  <2>1. w[i - 1] \in S /\ ~Stop(i - 1)
      BY <1>7, <1>8, <1>12
  <2> QED
      BY <1>5, <1>12, <2>1
<1>14. a <= w[i]
  <2>1. w[i] \in Nat
      BY <1>9, OffsetRank
  <2> QED
      BY <1>10, <2>1
<1> QED
    BY <1>3, <1>6, <1>9, <1>10, <1>12, <1>13, <1>14

-----------------------------------------------------------------------------
\* What the operations do to a list.  In each lemma m is the heap before and n
\* the heap afterwards.

\* A node has one predecessor, and the head has none.
LEMMA OnePredecessor ==
    ASSUME NEW m \in Memory, NEW first, NEW S, NEW r \in Ranks, Chain(m, first, S, r),
           NEW p \in S, m[p + 2] # 0
    PROVE  /\ m[p + 2] \in S /\ m[p + 2] # first /\ m[p + 2] # p
           /\ \A q \in S : m[q + 2] = m[p + 2] => q = p
<1>1. /\ m[p + 2] \in S /\ r[p] < r[m[p + 2]] /\ r[first] <= r[p] /\ first \in S
    BY ChainAt DEF Chain
<1>2. r[p] \in Nat /\ r[m[p + 2]] \in Nat /\ r[first] \in Nat
    BY <1>1, ChainNext
<1>3. ASSUME NEW q \in S, m[q + 2] = m[p + 2] PROVE q = p
  <2>1. r[q] < r[m[p + 2]] /\ r[q] \in Nat
      BY <1>3, ChainAt, ChainNext
  <2>2. r[p] <= r[q] \/ r[m[q + 2]] <= r[p]
      BY <1>3, ChainAt
  <2>3. r[q] <= r[p] \/ r[m[p + 2]] <= r[q]
      BY <1>3, ChainAt
  <2>4. r[p] = r[q]
      BY <1>1, <1>2, <1>3, <2>1, <2>2, <2>3
  <2> QED
      BY <2>4, ChainAt
<1> QED
    BY <1>1, <1>2, <1>3

\* A node is taken off the list.
LEMMA ChainDrop ==
    ASSUME NEW m \in Memory, NEW first, NEW S, NEW r \in Ranks, Chain(m, first, S, r),
           NEW a \in S, first = a => m[a + 2] # 0,
           NEW n, \A p \in S \ {a} : n[p + 2] = IF m[p + 2] = a THEN m[a + 2] ELSE m[p + 2]
    PROVE  Chain(n, IF first = a THEN m[a + 2] ELSE first, S \ {a}, r)
<1> DEFINE f == IF first = a THEN m[a + 2] ELSE first
           R == S \ {a}
<1>0. \A p \in S : r[p] \in Nat
    BY ChainNext
<1>1. f \in R /\ \A p \in R : r[f] <= r[p]
  <2>1. first \in S /\ \A p \in S : r[first] <= r[p]
      BY DEF Chain
  <2>2. CASE first = a
    <3>1. m[a + 2] \in S /\ m[a + 2] # a
        BY <2>2, OnePredecessor
    <3>2. ASSUME NEW p \in R PROVE r[m[a + 2]] <= r[p]
      <4>1. (r[p] <= r[a] \/ r[m[a + 2]] <= r[p]) /\ (r[a] = r[p] => a = p) /\ r[a] <= r[p]
          BY <2>1, <2>2, ChainAt
      <4> QED
          BY <1>0, <3>1, <4>1
    <3> QED
        BY <2>2, <3>1, <3>2
  <2>3. CASE first # a
      BY <2>1, <2>3
  <2> QED
      BY <2>2, <2>3
<1>2. ASSUME NEW o \in R, n[o + 2] = 0, NEW p \in R PROVE r[p] <= r[o]
  <2>1. CASE m[o + 2] = a
    <3>1. m[a + 2] = 0 /\ a # 0
        BY <1>2, <2>1, ChainNext
    <3>2. (r[p] <= r[o] \/ r[a] <= r[p]) /\ r[p] <= r[a] /\ (r[p] = r[a] => p = a)
        BY <2>1, <3>1, ChainAt
    <3> QED
        BY <1>0, <3>2
  <2>2. CASE m[o + 2] # a
      BY <1>2, <2>2, ChainAt
  <2> QED
      BY <2>1, <2>2
<1>3. ASSUME NEW o \in R, n[o + 2] # 0, NEW p \in R
      PROVE  n[o + 2] \in R /\ r[o] < r[n[o + 2]] /\ (r[p] <= r[o] \/ r[n[o + 2]] <= r[p])
  <2>1. CASE m[o + 2] = a
    <3>1. n[o + 2] = m[a + 2] /\ m[a + 2] # 0 /\ a # 0
        BY <1>3, <2>1, ChainNext
    <3>2. m[a + 2] \in S /\ m[a + 2] # a /\ r[a] < r[m[a + 2]] /\ r[o] < r[a]
        BY <2>1, <3>1, OnePredecessor, ChainAt
    <3>3. /\ r[p] <= r[o] \/ r[a] <= r[p]
          /\ r[p] <= r[a] \/ r[m[a + 2]] <= r[p]
          /\ r[p] = r[a] => p = a
        BY <2>1, <3>1, ChainAt
    <3>4. r[o] < r[m[a + 2]] /\ (r[p] <= r[o] \/ r[m[a + 2]] <= r[p])
      <4>1. r[p] \in Nat /\ r[a] \in Nat /\ r[o] \in Nat /\ r[m[a + 2]] \in Nat
          BY <1>0, <3>2
      <4> QED
          BY <3>2, <3>3, <4>1
    <3> QED
        BY <3>1, <3>2, <3>4
  <2>2. CASE m[o + 2] # a
      BY <1>3, <2>2, ChainAt
  <2> QED
      BY <2>1, <2>2
<1>4. /\ \A o \in R : o \in Nat /\ MANAGER <= o /\ o + NODE <= HEAP_SIZE
      /\ \A o, p \in R : r[o] = r[p] => o = p
    BY DEF Chain
<1> HIDE DEF f, R
<1>5. Chain(n, f, R, r)
    BY <1>1, <1>2, <1>3, <1>4 DEF Chain
<1> QED
    BY <1>5 DEF f, R

\* A node is put at the end of the list.
LEMMA ChainAppend ==
    ASSUME NEW m \in Memory, NEW first, NEW S, NEW r \in Ranks, Chain(m, first, S, r),
           NEW l \in S, m[l + 2] = 0,
           NEW x \in Words, x \notin S, MANAGER <= x, x + NODE <= HEAP_SIZE,
           NEW n, \A p \in S : n[p + 2] = IF p = l THEN x ELSE m[p + 2], n[x + 2] = 0
    PROVE  /\ Chain(n, first, S \cup {x}, [r EXCEPT ![x] = r[l] + 1])
           /\ [r EXCEPT ![x] = r[l] + 1] \in Ranks
<1> DEFINE k == [r EXCEPT ![x] = r[l] + 1]
           R == S \cup {x}
<1>0. \A p \in S : r[p] \in Nat /\ p \in Words
    BY ChainNext
<1>1. k \in Ranks
    BY <1>0 DEF Ranks
<1>2. /\ \A p \in S : k[p] = r[p]
      /\ k[x] = r[l] + 1
    BY <1>0 DEF Ranks
<1>3. \A p \in S : r[p] <= r[l]
    BY ChainAt
<1>4. ASSUME NEW o \in R, n[o + 2] = 0, NEW p \in R PROVE k[p] <= k[o]
  <2>1. o = x
    <3>1. SUFFICES ASSUME o \in S PROVE FALSE
        OBVIOUS
    <3>2. x # 0
        BY DEF MANAGER
    <3>3. o # l
        BY <1>4, <3>1, <3>2
    <3>4. m[o + 2] = 0
        BY <1>4, <3>1, <3>3
    <3>5. r[l] <= r[o] /\ r[o] <= r[l] /\ (r[o] = r[l] => o = l)
        BY <1>3, <3>1, <3>4, ChainAt
    <3> QED
        BY <1>0, <3>1, <3>3, <3>5
  <2>2. CASE p \in S
    <3>1. k[p] = r[p] /\ k[o] = r[l] + 1 /\ r[p] <= r[l] /\ r[p] \in Nat /\ r[l] \in Nat
        BY <1>0, <1>2, <1>3, <2>1, <2>2
    <3> QED
        BY <3>1
  <2>3. CASE p = x
    <3>1. k[p] = k[o] /\ k[o] = r[l] + 1 /\ r[l] \in Nat
        BY <1>0, <1>2, <2>1, <2>3
    <3> QED
        BY <3>1
  <2> QED
      BY <2>2, <2>3
<1>5. ASSUME NEW o \in R, n[o + 2] # 0, NEW p \in R
      PROVE  n[o + 2] \in R /\ k[o] < k[n[o + 2]] /\ (k[p] <= k[o] \/ k[n[o + 2]] <= k[p])
  <2>1. o \in S /\ k[o] = r[o]
      BY <1>2, <1>5
  <2>2. CASE o = l
    <3>1. n[o + 2] = x /\ k[x] = r[l] + 1 /\ k[l] = r[l] /\ r[l] \in Nat
        BY <1>0, <1>2, <2>2
    <3>2. k[p] <= k[l] \/ p = x
        BY <1>2, <1>3
    <3> QED
        BY <2>2, <3>1, <3>2
  <2>3. CASE o # l
    <3>1. n[o + 2] = m[o + 2]
        BY <2>1, <2>3
    <3>2. /\ m[o + 2] \in S /\ r[o] < r[m[o + 2]] /\ r[o] <= r[l]
          /\ r[o] \in Nat /\ r[l] \in Nat /\ r[m[o + 2]] <= r[l]
        BY <1>0, <1>3, <1>5, <2>1, <3>1, ChainAt
    <3>3. k[m[o + 2]] = r[m[o + 2]] /\ r[m[o + 2]] \in Nat
        BY <1>0, <1>2, <3>2
    <3>4. CASE p \in S
      <4>1. k[p] = r[p] /\ (r[p] <= r[o] \/ r[m[o + 2]] <= r[p])
          BY <1>2, <1>5, <2>1, <3>1, <3>4, ChainAt
      <4> QED
          BY <2>1, <3>1, <3>2, <3>3, <4>1
    <3>5. CASE p = x
        BY <1>2, <2>1, <3>1, <3>2, <3>3, <3>5
    <3> QED
        BY <3>4, <3>5
  <2> QED
      BY <2>2, <2>3
<1>6. \A o \in R : o \in Nat /\ MANAGER <= o /\ o + NODE <= HEAP_SIZE
    BY HeapAssumption DEF Chain, Words
<1>7. ASSUME NEW o \in R, NEW p \in R, k[o] = k[p] PROVE o = p
  <2>1. \A q \in S : k[q] # k[x]
    <3> SUFFICES ASSUME NEW q \in S PROVE k[q] # k[x]
        OBVIOUS
    <3>1. k[q] = r[q] /\ r[q] <= r[l] /\ r[q] \in Nat /\ r[l] \in Nat /\ k[x] = r[l] + 1
        BY <1>0, <1>2, <1>3
    <3> QED
        BY <3>1
  <2>2. CASE o \in S /\ p \in S
      BY <1>2, <1>7, <2>2, ChainAt
  <2> QED
      BY <1>7, <2>1, <2>2
<1>8. first \in R /\ \A p \in R : k[first] <= k[p]
  <2>1. first \in S /\ \A p \in S : r[first] <= r[p]
      BY DEF Chain
  <2>2. k[first] <= k[x]
    <3>1. k[first] = r[first] /\ r[first] <= r[l] /\ k[x] = r[l] + 1 /\ r[first] \in Nat /\ r[l] \in Nat
        BY <1>0, <1>2, <1>3, <2>1
    <3> QED
        BY <3>1
  <2> QED
      BY <1>2, <2>1, <2>2
<1> HIDE DEF k, R
<1>9. Chain(n, first, R, k)
    BY <1>4, <1>5, <1>6, <1>7, <1>8 DEF Chain
<1> QED
    BY <1>1, <1>9 DEF k, R

\* The list of freed nodes, without its ranks.
Sorted(m, first, S) ==
    /\ \A o \in S : o \in Nat /\ MANAGER <= o /\ o + NODE <= HEAP_SIZE
    /\ first \in S /\ \A p \in S : first <= p
    /\ \A o \in S : m[o + 2] = 0 => \A p \in S : p <= o
    /\ \A o \in S : m[o + 2] # 0 => /\ m[o + 2] \in S
                                    /\ o < m[o + 2]
                                    /\ \A p \in S : p <= o \/ m[o + 2] <= p

\* What an ordered list says of two of its nodes.
LEMMA SortedAt ==
    ASSUME NEW m, NEW first, NEW S, Sorted(m, first, S), NEW o \in S, NEW p \in S
    PROVE  /\ o \in Nat /\ MANAGER <= o /\ o + NODE <= HEAP_SIZE
           /\ first \in S /\ first <= p
           /\ m[o + 2] = 0 => p <= o
           /\ m[o + 2] # 0 => m[o + 2] \in S /\ o < m[o + 2] /\ (p <= o \/ m[o + 2] <= p)
BY Zenon DEF Sorted

\* A list ranked by offsets is an ordered list.
LEMMA OffsetChain ==
    ASSUME NEW m \in Memory, NEW first, NEW S
    PROVE  Chain(m, first, S, Offsets) <=> Sorted(m, first, S)
<1>1. ASSUME Chain(m, first, S, Offsets) PROVE Sorted(m, first, S)
  <2>1. \A o \in S : Offsets[o] = o
      BY <1>1, OffsetRank
  <2>2. first \in S
      BY <1>1 DEF Chain
  <2>3. ASSUME NEW o \in S, NEW p \in S
        PROVE  /\ o \in Nat /\ MANAGER <= o /\ o + NODE <= HEAP_SIZE
               /\ first <= p
               /\ m[o + 2] = 0 => p <= o
               /\ m[o + 2] # 0 => m[o + 2] \in S /\ o < m[o + 2] /\ (p <= o \/ m[o + 2] <= p)
    <3>1. o \in Nat /\ MANAGER <= o /\ o + NODE <= HEAP_SIZE
        BY <1>1 DEF Chain
    <3>2. first <= p
        BY <1>1, <2>1, <2>2, ChainAt
    <3>3. m[o + 2] = 0 => p <= o
        BY <1>1, <2>1, <2>2, ChainAt
    <3>4. m[o + 2] # 0 => m[o + 2] \in S /\ o < m[o + 2] /\ (p <= o \/ m[o + 2] <= p)
        BY <1>1, <2>1, <2>2, ChainAt
    <3> QED
        BY <3>1, <3>2, <3>3, <3>4
  <2> QED
      BY <2>2, <2>3, Zenon DEF Sorted
<1>2. ASSUME Sorted(m, first, S) PROVE Chain(m, first, S, Offsets)
  <2>1. \A o \in S : Offsets[o] = o
    <3>1. ASSUME NEW o \in S PROVE o \in Words
      <4>1. o \in Nat /\ o + 3 <= HEAP_SIZE
          BY <1>2, SortedAt DEF NODE
      <4> QED
          BY <4>1, HeapAssumption DEF Words
    <3> QED
        BY <3>1 DEF Offsets
  <2>2. first \in S
      BY <1>2 DEF Sorted
  <2>3. ASSUME NEW o \in S, NEW p \in S
        PROVE  /\ o \in Nat /\ MANAGER <= o /\ o + NODE <= HEAP_SIZE
               /\ Offsets[first] <= Offsets[p]
               /\ Offsets[o] = Offsets[p] => o = p
               /\ m[o + 2] = 0 => Offsets[p] <= Offsets[o]
               /\ m[o + 2] # 0 => /\ m[o + 2] \in S /\ Offsets[o] < Offsets[m[o + 2]]
                                  /\ Offsets[p] <= Offsets[o] \/ Offsets[m[o + 2]] <= Offsets[p]
      BY <1>2, <2>1, <2>2, SortedAt
  <2> QED
      BY <2>2, <2>3, Zenon DEF Chain
<1> QED
    BY <1>1, <1>2

\* A node takes the place of another one between the same neighbours.
LEMMA SortedReplace ==
    ASSUME NEW m, NEW first, NEW S, Sorted(m, first, S), NEW o \in S,
           NEW x \in Nat, x \notin S, MANAGER <= x, x + NODE <= HEAP_SIZE,
           \A p \in S : p < o => p < x,
           \A p \in S : o < p => x < p,
           NEW n, n[x + 2] = m[o + 2],
           \A p \in S \ {o} : n[p + 2] = IF m[p + 2] = o THEN x ELSE m[p + 2]
    PROVE  Sorted(n, IF first = o THEN x ELSE first, (S \ {o}) \cup {x})
<1> DEFINE f == IF first = o THEN x ELSE first
           R == (S \ {o}) \cup {x}
<1>0. /\ o # 0 /\ x # 0 /\ o \in Nat
      /\ \A p \in S : p \in Nat
    BY SortedAt DEF MANAGER
<1>1. \A p \in R : p \in Nat /\ MANAGER <= p /\ p + NODE <= HEAP_SIZE
    BY SortedAt
<1>2. f \in R /\ \A p \in R : f <= p
  <2>1. first \in S /\ \A p \in S : first <= p
      BY DEF Sorted
  <2>2. CASE first = o
    <3>1. ASSUME NEW p \in R PROVE x <= p
      <4>1. CASE p \in S /\ p # o
          BY <1>0, <2>1, <2>2, <4>1
      <4> QED
          BY <4>1
    <3> QED
        BY <2>2, <3>1
  <2>3. CASE first # o
    <3>1. first < o
        BY <1>0, <2>1, <2>3
    <3> QED
        BY <1>0, <2>1, <2>3, <3>1
  <2> QED
      BY <2>2, <2>3
<1>3. ASSUME NEW q \in R, n[q + 2] = 0, NEW p \in R PROVE p <= q
  <2>1. CASE q = x
    <3>1. \A t \in S : t <= o
        BY <1>3, <2>1, SortedAt
    <3> QED
        BY <1>0, <2>1, <3>1
  <2>2. CASE q # x
    <3>1. q \in S /\ q # o /\ m[q + 2] = 0
        BY <1>0, <1>3, <2>2
    <3>2. \A t \in S : t <= q
        BY <3>1, SortedAt
    <3>3. x < q
        BY <1>0, <3>1, <3>2
    <3> QED
        BY <1>0, <3>2, <3>3
  <2> QED
      BY <2>1, <2>2
<1>4. ASSUME NEW q \in R, n[q + 2] # 0, NEW p \in R
      PROVE  n[q + 2] \in R /\ q < n[q + 2] /\ (p <= q \/ n[q + 2] <= p)
  <2>1. CASE q = x
    <3>1. m[o + 2] \in S /\ o < m[o + 2] /\ \A t \in S : t <= o \/ m[o + 2] <= t
        BY <1>4, <2>1, SortedAt
    <3>2. x < m[o + 2] /\ m[o + 2] # o /\ n[q + 2] = m[o + 2]
      <4>1. m[o + 2] \in Nat
          BY <1>0, <3>1
      <4> QED
          BY <1>0, <2>1, <3>1, <4>1
    <3>3. p <= x \/ m[o + 2] <= p
      <4>1. CASE p = x
          BY <4>1
      <4>2. CASE p \in S /\ p # o
          BY <1>0, <3>1, <4>2
      <4> QED
          BY <4>1, <4>2
    <3> QED
        BY <2>1, <3>1, <3>2, <3>3
  <2>2. CASE q # x /\ m[q + 2] = o
    <3>1. q \in S /\ q # o /\ n[q + 2] = x /\ q < o /\ \A t \in S : t <= q \/ o <= t
        BY <1>0, <2>2, SortedAt
    <3>2. q < x
        BY <3>1
    <3>3. p <= q \/ x <= p
      <4>1. CASE p \in S /\ p # o
          BY <1>0, <3>1, <4>1
      <4> QED
          BY <4>1
    <3> QED
        BY <3>1, <3>2, <3>3
  <2>3. CASE q # x /\ m[q + 2] # o
    <3>1. q \in S /\ q # o /\ n[q + 2] = m[q + 2]
        BY <2>3
    <3>2. m[q + 2] \in S /\ q < m[q + 2] /\ \A t \in S : t <= q \/ m[q + 2] <= t
        BY <1>4, <3>1, SortedAt
    <3>3. x <= q \/ m[q + 2] <= x
      <4>1. q \in Nat /\ m[q + 2] \in Nat /\ (o <= q \/ m[q + 2] <= o)
          BY <1>0, <3>1, <3>2
      <4>2. (o < q => x < q) /\ (m[q + 2] < o => m[q + 2] < x)
          BY <3>1, <3>2
      <4> QED
          BY <1>0, <2>3, <3>1, <4>1, <4>2
    <3> QED
        BY <2>3, <3>1, <3>2, <3>3
  <2> QED
      BY <2>1, <2>2, <2>3
<1> HIDE DEF f, R
<1>5. Sorted(n, f, R)
    BY <1>1, <1>2, <1>3, <1>4, Zenon DEF Sorted
<1> QED
    BY <1>5 DEF f, R

\* A node is put between two neighbours.
LEMMA SortedInsert ==
    ASSUME NEW m, NEW first, NEW S, Sorted(m, first, S), NEW o \in S,
           NEW x \in Nat, MANAGER <= x, x + NODE <= HEAP_SIZE,
           o < x, m[o + 2] # 0, x < m[o + 2],
           NEW n, n[x + 2] = m[o + 2],
           \A p \in S : n[p + 2] = IF p = o THEN x ELSE m[p + 2]
    PROVE  Sorted(n, first, S \cup {x})
<1> DEFINE R == S \cup {x}
<1>0. /\ x # 0 /\ o \in Nat
      /\ \A p \in S : p \in Nat
      /\ \A p \in S : p <= o \/ m[o + 2] <= p
      /\ m[o + 2] \in S
    BY SortedAt DEF MANAGER
<1>1. \A p \in R : p \in Nat /\ MANAGER <= p /\ p + NODE <= HEAP_SIZE
    BY SortedAt
<1>2. first \in R /\ \A p \in R : first <= p
  <2>1. first \in S /\ \A p \in S : first <= p
      BY DEF Sorted
  <2> QED
      BY <1>0, <2>1
<1>3. ASSUME NEW q \in R, n[q + 2] = 0, NEW p \in R PROVE p <= q
  <2>1. q \in S /\ q # o /\ m[q + 2] = 0
      BY <1>0, <1>3
  <2>2. \A t \in S : t <= q
      BY <2>1, SortedAt
  <2>3. x <= q
    <3>1. m[o + 2] <= q /\ q \in Nat /\ m[o + 2] \in Nat
        BY <1>0, <2>1, <2>2
    <3> QED
        BY <3>1
  <2> QED
      BY <2>2, <2>3
<1>4. ASSUME NEW q \in R, n[q + 2] # 0, NEW p \in R
      PROVE  n[q + 2] \in R /\ q < n[q + 2] /\ (p <= q \/ n[q + 2] <= p)
  <2>1. CASE q = x
      BY <1>0, <2>1
  <2>2. CASE q = o
    <3>1. n[q + 2] = x
        BY <2>2
    <3>2. p <= o \/ x <= p
      <4>1. CASE p \in S
        <5>1. p \in Nat /\ m[o + 2] \in Nat /\ (p <= o \/ m[o + 2] <= p)
            BY <1>0, <4>1
        <5> QED
            BY <5>1
      <4> QED
          BY <4>1
    <3> QED
        BY <1>0, <2>2, <3>1, <3>2
  <2>3. CASE q # x /\ q # o
    <3>1. q \in S /\ n[q + 2] = m[q + 2]
        BY <2>3
    <3>2. m[q + 2] \in S /\ q < m[q + 2] /\ \A t \in S : t <= q \/ m[q + 2] <= t
        BY <1>4, <3>1, SortedAt
    <3>3. x <= q \/ m[q + 2] <= x
      <4>1. /\ q \in Nat /\ m[q + 2] \in Nat /\ m[o + 2] \in Nat
            /\ o <= q \/ m[q + 2] <= o
            /\ q <= o \/ m[o + 2] <= q
          BY <1>0, <3>1, <3>2
      <4> QED
          BY <1>0, <2>3, <4>1
    <3> QED
        BY <2>3, <3>1, <3>2, <3>3
  <2> QED
      BY <2>1, <2>2, <2>3
<1> HIDE DEF R
<1>5. Sorted(n, first, R)
    BY <1>1, <1>2, <1>3, <1>4, Zenon DEF Sorted
<1> QED
    BY <1>5 DEF R

\* A node is put in front of the list.
LEMMA SortedPrepend ==
    ASSUME NEW m, NEW first, NEW S, Sorted(m, first, S),
           NEW x \in Nat, MANAGER <= x, x + NODE <= HEAP_SIZE, x < first,
           NEW n, n[x + 2] = first, \A p \in S : n[p + 2] = m[p + 2]
    PROVE  Sorted(n, x, S \cup {x})
<1> DEFINE R == S \cup {x}
<1>0. /\ \A p \in S : p \in Nat /\ first <= p
      /\ first \in S /\ first # 0
    <2>1. first \in S
        BY DEF Sorted
    <2> QED
        BY <2>1, SortedAt DEF MANAGER
<1>1. \A p \in R : p \in Nat /\ MANAGER <= p /\ p + NODE <= HEAP_SIZE
    BY SortedAt
<1>2. x \in R /\ \A p \in R : x <= p
    BY <1>0
<1>3. ASSUME NEW q \in R, n[q + 2] = 0, NEW p \in R PROVE p <= q
  <2>1. q \in S /\ m[q + 2] = 0
      BY <1>0, <1>3
  <2>2. \A t \in S : t <= q
      BY <2>1, SortedAt
  <2> QED
      BY <1>0, <2>1, <2>2
<1>4. ASSUME NEW q \in R, n[q + 2] # 0, NEW p \in R
      PROVE  n[q + 2] \in R /\ q < n[q + 2] /\ (p <= q \/ n[q + 2] <= p)
  <2>1. CASE q = x
      BY <1>0, <2>1
  <2>3. CASE q # x
    <3>1. q \in S /\ n[q + 2] = m[q + 2]
        BY <2>3
    <3>2. m[q + 2] \in S /\ q < m[q + 2] /\ \A t \in S : t <= q \/ m[q + 2] <= t
        BY <1>4, <3>1, SortedAt
    <3> QED
        BY <1>0, <2>3, <3>1, <3>2
  <2> QED
      BY <2>1, <2>3
<1> HIDE DEF R
<1>5. Sorted(n, x, R)
    BY <1>1, <1>2, <1>3, <1>4, Zenon DEF Sorted
<1> QED
    BY <1>5 DEF R

-----------------------------------------------------------------------------
\* The blocks of the heap: buffers with their headers, and freed nodes.

Sizes == [Words -> Nat]

\* The blocks at B, of the sizes s, fill the heap behind the manager.
Tiles(B, s) ==
    /\ \A o \in B : /\ o \in Nat /\ MANAGER <= o
                    /\ s[o] \in Nat /\ NODE <= s[o]
                    /\ o + s[o] <= HEAP_SIZE
    /\ \A o, p \in B : o < p => o + s[o] <= p
    /\ \A x \in MANAGER .. HEAP_SIZE - 1 : \E o \in B : o <= x /\ x < o + s[o]

\* A block lies behind the manager and in the heap, its header too.
LEMMA TileAt ==
    ASSUME NEW B, NEW s, Tiles(B, s), NEW o \in B
    PROVE  /\ o \in Nat /\ 2 <= o /\ s[o] \in Nat /\ 3 <= s[o]
           /\ o + s[o] <= HEAP_SIZE /\ o + 3 <= HEAP_SIZE /\ HEAP_SIZE \in Nat
           /\ o \in Words /\ o + 1 \in Words /\ o + 2 \in Words
<1>1. /\ o \in Nat /\ 2 <= o /\ s[o] \in Nat /\ 3 <= s[o]
      /\ o + s[o] <= HEAP_SIZE
    BY DEF Tiles, MANAGER, NODE
<1> QED
    BY <1>1, HeapAssumption DEF Words

\* Two blocks do not even share a header.
LEMMA TilesApart ==
    ASSUME NEW B, NEW s, Tiles(B, s), NEW o \in B, NEW p \in B, o # p
    PROVE  o + s[o] <= p \/ p + s[p] <= o
<1>1. o \in Nat /\ p \in Nat
    BY TileAt
<1>2. (o < p => o + s[o] <= p) /\ (p < o => p + s[p] <= o)
    BY DEF Tiles
<1> QED
    BY <1>1, <1>2

\* A block is split.
LEMMA TilesSplit ==
    ASSUME NEW B, NEW s \in Sizes, Tiles(B, s), NEW o \in B,
           NEW k \in Nat, NODE <= k, k + NODE <= s[o]
    PROVE  /\ o + k \in Words /\ o + k \notin B /\ s[o] - k \in Nat
           /\ [s EXCEPT ![o] = k, ![o + k] = s[o] - k] \in Sizes
           /\ Tiles(B \cup {o + k}, [s EXCEPT ![o] = k, ![o + k] = s[o] - k])
<1> DEFINE p == o + k
           e == s[o] - k
           t == [s EXCEPT ![o] = k, ![p] = e]
           R == B \cup {p}
<1>0. /\ o \in Nat /\ 2 <= o /\ s[o] \in Nat /\ o + s[o] <= HEAP_SIZE
      /\ o \in Words /\ HEAP_SIZE \in Nat /\ 3 <= k /\ k < s[o]
  <2>1. /\ o \in Nat /\ 2 <= o /\ s[o] \in Nat /\ o + s[o] <= HEAP_SIZE
        /\ o \in Words /\ HEAP_SIZE \in Nat
      BY TileAt
  <2> QED
      BY <2>1 DEF NODE
<1>1. p \in Nat /\ o < p /\ p < o + s[o] /\ e \in Nat /\ p + e = o + s[o] /\ p \in Words /\ p # o
    BY <1>0 DEF Words, NODE
<1>2. 3 <= e
    BY <1>0 DEF NODE
<1>3. p \notin B
  <2> SUFFICES ASSUME p \in B PROVE FALSE
      OBVIOUS
  <2>1. o + s[o] <= p
      BY <1>1 DEF Tiles
  <2> QED
      BY <1>0, <1>1, <2>1
<1>4. /\ t \in Sizes /\ t[o] = k /\ t[p] = e
      /\ \A q \in B \ {o} : t[q] = s[q]
  <2>1. \A q \in B : q \in Words
      BY TileAt
  <2> HIDE DEF p, e
  <2> QED
      BY <1>0, <1>1, <1>3, <2>1 DEF Sizes
<1> HIDE DEF t, e, p
<1>5. ASSUME NEW q \in R
      PROVE  /\ q \in Nat /\ 2 <= q /\ t[q] \in Nat /\ 3 <= t[q]
             /\ q + t[q] <= HEAP_SIZE
  <2>1. CASE q = o
      BY <1>0, <1>1, <1>4, <2>1
  <2>2. CASE q = p
      BY <1>0, <1>1, <1>2, <1>4, <2>2
  <2>3. CASE q \in B \ {o}
      BY <1>4, <2>3, TileAt
  <2> QED
      BY <2>1, <2>2, <2>3
<1>6. ASSUME NEW q \in R, NEW u \in R, q < u PROVE q + t[q] <= u
  <2>1. CASE q \in B \ {o} /\ u \in B
    <3>1. q + s[q] <= u
        BY <1>6, <2>1 DEF Tiles
    <3> QED
        BY <1>4, <2>1, <3>1
  <2>2. CASE q \in B \ {o} /\ u = p
    <3>1. q + s[q] <= o \/ o + s[o] <= q
        BY <2>2, TilesApart
    <3>2. q \in Nat /\ s[q] \in Nat
        BY <2>2, TileAt
    <3> QED
        BY <1>0, <1>1, <1>4, <1>6, <2>2, <3>1, <3>2
  <2>3. CASE q = o /\ u \in B
    <3>1. o + s[o] <= u /\ u \in Nat
        BY <1>6, <2>3, TileAt DEF Tiles
    <3> QED
        BY <1>0, <1>1, <1>2, <1>4, <2>3, <3>1
  <2>4. CASE q = o /\ u = p
      BY <1>4, <2>4 DEF p
  <2>5. CASE q = p
    <3>1. u \in B /\ u # o /\ u \in Nat
        BY <1>0, <1>1, <1>6, <2>5, TileAt
    <3>2. o < u
        BY <1>0, <1>1, <1>6, <2>5, <3>1
    <3>3. o + s[o] <= u
        BY <3>1, <3>2 DEF Tiles
    <3> QED
        BY <1>1, <1>4, <2>5, <3>3
  <2> QED
      BY <2>1, <2>2, <2>3, <2>4, <2>5
<1>7. ASSUME NEW x \in MANAGER .. HEAP_SIZE - 1 PROVE \E q \in R : q <= x /\ x < q + t[q]
  <2>1. PICK q \in B : q <= x /\ x < q + s[q]
      BY DEF Tiles
  <2>2. CASE q # o
      BY <1>4, <2>1, <2>2
  <2>3. CASE q = o
    <3>1. x \in Int
        BY HeapAssumption DEF MANAGER
    <3>2. x < p \/ p <= x
        BY <1>1, <3>1
    <3>3. CASE x < p
        BY <1>4, <2>1, <2>3, <3>3 DEF p
    <3>4. CASE p <= x
        BY <1>1, <1>4, <2>1, <2>3, <3>4
    <3> QED
        BY <3>2, <3>3, <3>4
  <2> QED
      BY <2>2, <2>3
<1> HIDE DEF R
<1>8. Tiles(R, t)
    BY <1>5, <1>6, <1>7 DEF Tiles, MANAGER, NODE
<1> QED
    BY <1>1, <1>3, <1>4, <1>8 DEF R, t, p, e

\* Two blocks are joined.
LEMMA TilesJoin ==
    ASSUME NEW B, NEW s \in Sizes, Tiles(B, s), NEW o \in B, NEW p \in B,
           o + s[o] = p
    PROVE  /\ [s EXCEPT ![o] = s[o] + s[p]] \in Sizes
           /\ Tiles(B \ {p}, [s EXCEPT ![o] = s[o] + s[p]])
<1> DEFINE e == s[o] + s[p]
           t == [s EXCEPT ![o] = e]
           R == B \ {p}
<1>0. /\ o \in Nat /\ 2 <= o /\ s[o] \in Nat /\ 3 <= s[o] /\ o \in Words
      /\ p \in Nat /\ s[p] \in Nat /\ 3 <= s[p] /\ p + s[p] <= HEAP_SIZE
    BY TileAt
<1>1. e \in Nat /\ 3 <= e /\ o + e = p + s[p] /\ o < p /\ o \in R
    BY <1>0
<1>4. /\ t \in Sizes /\ t[o] = e
      /\ \A q \in B \ {o} : t[q] = s[q]
  <2>1. \A q \in B : q \in Words
      BY TileAt
  <2> HIDE DEF e
  <2> QED
      BY <1>0, <1>1, <2>1 DEF Sizes
<1> HIDE DEF t, e
<1>5. ASSUME NEW q \in R
      PROVE  /\ q \in Nat /\ 2 <= q /\ t[q] \in Nat /\ 3 <= t[q]
             /\ q + t[q] <= HEAP_SIZE
  <2>1. CASE q = o
      BY <1>0, <1>1, <1>4, <2>1
  <2>3. CASE q \in B \ {o}
      BY <1>4, <2>3, TileAt
  <2> QED
      BY <2>1, <2>3
<1>6. ASSUME NEW q \in R, NEW u \in R, q < u PROVE q + t[q] <= u
  <2>1. CASE q # o
    <3>1. q + s[q] <= u
        BY <1>6 DEF Tiles
    <3> QED
        BY <1>4, <2>1, <3>1
  <2>2. CASE q = o
    <3>1. u \in Nat /\ u # p /\ o + s[o] <= u
        BY <1>6, <2>2, TileAt DEF Tiles
    <3>2. p < u
        BY <1>0, <3>1
    <3>3. p + s[p] <= u
        BY <3>2 DEF Tiles
    <3> QED
        BY <1>1, <1>4, <2>2, <3>3
  <2> QED
      BY <2>1, <2>2
<1>7. ASSUME NEW x \in MANAGER .. HEAP_SIZE - 1 PROVE \E q \in R : q <= x /\ x < q + t[q]
  <2>1. PICK q \in B : q <= x /\ x < q + s[q]
      BY DEF Tiles
  <2>2. CASE q # o /\ q # p
      BY <1>4, <2>1, <2>2
  <2>3. CASE q = o \/ q = p
    <3>1. x \in Int
        BY HeapAssumption DEF MANAGER
    <3>2. o <= x /\ x < o + e
        BY <1>0, <1>1, <2>1, <2>3, <3>1
    <3> QED
        BY <1>1, <1>4, <3>2
  <2> QED
      BY <2>2, <2>3
<1> HIDE DEF R
<1>8. Tiles(R, t)
    BY <1>5, <1>6, <1>7 DEF Tiles, MANAGER, NODE
<1> QED
    BY <1>4, <1>8 DEF R, t, e

-----------------------------------------------------------------------------
\* The inductive invariant of a heap in use.  A are the offsets of the buffers,
\* F those of the freed nodes, s the sizes of both with their headers, r the
\* order of allocation.

Allocs(m, A, s) ==
    /\ \A o \in A : m[o] \in Handles /\ m[o + 1] \in Lengths /\ s[o] = m[o + 1] + NODE
    /\ \A o, p \in A : m[o] = m[p] => o = p

\* Neighbours are joined.
Frees(m, F, s) ==
    /\ \A o \in F : m[o + 1] = s[o]
    /\ \A o, p \in F : o < p => o + s[o] < p

\* The list of freed nodes, which may be empty.
FreeList(m, F) ==
    /\ F = {} => m[1] = 0
    /\ F # {} => Chain(m, m[1], F, Offsets)

Good(m, A, F, s, r) ==
    /\ m \in Memory /\ s \in Sizes /\ r \in Ranks
    /\ A \cap F = {}
    /\ Tiles(A \cup F, s)
    /\ Chain(m, m[0], A, r)
    /\ FreeList(m, F)
    /\ Allocs(m, A, s)
    /\ Frees(m, F, s)

\* The history variable is what the list of buffers says.
Live(m, A) == {Buffer(m[o], o, m[o + 1]) : o \in A}

Written(n, m, o, v) ==
    /\ n \in Memory
    /\ \A x \in Words : n[x] = IF x = o THEN v ELSE m[x]

\* What a write leaves.
LEMMA WrFact ==
    ASSUME NEW m \in Memory, NEW o \in Words, NEW v \in Nat
    PROVE  Written(Wr(m, o, v), m, o, v)
BY DEF Wr, Memory, Written

\* A memory is a memory after a write.
LEMMA WrMemory ==
    ASSUME NEW n, NEW m, NEW o, NEW v, Written(n, m, o, v)
    PROVE  n \in Memory
BY DEF Written

\* Reads inside the heap.
LEMMA RdFact ==
    ASSUME NEW m, NEW o \in Nat, o + 1 \in Words, o + 2 \in Words
    PROVE  BufferSize(m, o) = m[o + 1] /\ NextNodeOffset(m, o) = m[o + 2]
BY DEF BufferSize, NextNodeOffset, Rd

\* Blocks of a heap in use: headers in the heap and apart.
LEMMA GoodNodes ==
    ASSUME NEW m, NEW A, NEW F, NEW s, NEW r, Good(m, A, F, s, r),
           NEW o \in A \cup F, NEW p \in A \cup F
    PROVE  /\ o \in Nat /\ 2 <= o /\ o + 3 <= HEAP_SIZE /\ HEAP_SIZE \in Nat
           /\ o \in Words /\ o + 1 \in Words /\ o + 2 \in Words
           /\ m[o] \in Nat /\ m[o + 1] \in Nat /\ m[o + 2] \in Nat
           /\ o # p => o + 3 <= p \/ p + 3 <= o
<1>1. /\ o \in Nat /\ 2 <= o /\ o + 3 <= HEAP_SIZE /\ HEAP_SIZE \in Nat
      /\ o \in Words /\ o + 1 \in Words /\ o + 2 \in Words /\ 3 <= s[o] /\ s[o] \in Nat
      /\ p \in Nat /\ 3 <= s[p] /\ s[p] \in Nat
    BY TileAt DEF Good
<1>2. o # p => o + s[o] <= p \/ p + s[p] <= o
    BY TilesApart DEF Good
<1> QED
    BY <1>1, <1>2 DEF Good, Memory

\* The manager of a heap in use points to nodes.
LEMMA GoodHeads ==
    ASSUME NEW m, NEW A, NEW F, NEW s, NEW r, Good(m, A, F, s, r)
    PROVE  /\ 0 \in Words /\ 1 \in Words /\ HEAP_SIZE \in Nat
           /\ m[0] \in A /\ m[0] \in Nat /\ m[1] \in Nat /\ m[0] # 0
<1>1. 0 \in Words /\ 1 \in Words /\ HEAP_SIZE \in Nat
    BY HeapAssumption DEF Words
<1>2. m[0] \in A /\ m \in Memory
    BY DEF Good, Chain
<1> QED
    BY <1>1, <1>2, GoodNodes DEF Memory

\* So does a list of freed nodes that is not empty.
LEMMA GoodFreed ==
    ASSUME NEW m, NEW A, NEW F, NEW s, NEW r, Good(m, A, F, s, r), NEW o \in F
    PROVE  /\ Chain(m, m[1], F, Offsets) /\ Sorted(m, m[1], F)
           /\ m[1] \in F /\ Offsets \in Ranks
<1>1. m \in Memory /\ Chain(m, m[1], F, Offsets)
    BY DEF Good, FreeList
<1> QED
    BY <1>1, OffsetRank, OffsetChain DEF Chain

\* What TakeNode leaves in the words that matter: best has become a buffer,
\* and next has taken its place among the freed nodes.
Taken(n, m, A, F, h, len, best, next, last) ==
    /\ n \in Memory
    /\ n[0] = m[0] /\ n[1] = IF m[1] = best THEN next ELSE m[1]
    /\ n[best] = h /\ n[best + 1] = len /\ n[best + 2] = 0
    /\ \A o \in A : /\ n[o] = m[o] /\ n[o + 1] = m[o + 1]
                    /\ n[o + 2] = IF o = last THEN best ELSE m[o + 2]
    /\ \A o \in F \ {best} : /\ n[o + 1] = m[o + 1]
                             /\ n[o + 2] = IF m[o + 2] = best THEN next ELSE m[o + 2]

\* What the search has found: the node, the one in front of it, and the last
\* buffer of the list.
CanTake(m, A, F, h, len, best, prev, last) ==
    /\ h \in Handles /\ len \in Lengths
    /\ \A o \in A : m[o] # h
    /\ best \in F
    /\ best # m[1] => prev \in F /\ m[prev + 2] = best
    /\ last \in A /\ m[last + 2] = 0

\* The same when what is left of best is a node of its own.
TakenPart(n, m, A, F, s, h, len, best, last) ==
    /\ Taken(n, m, A, F, h, len, best, best + len + NODE, last)
    /\ n[best + len + NODE + 1] = s[best] - (len + NODE)
    /\ n[best + len + NODE + 2] = m[best + 2]

\* TakeNode when the best fit is split.
LEMMA TakeSplit ==
    ASSUME NEW m, NEW A, NEW F, NEW s, NEW r, Good(m, A, F, s, r),
           NEW h, NEW len, NEW best, NEW prev, NEW last,
           CanTake(m, A, F, h, len, best, prev, last), len + 2 * NODE <= s[best]
    PROVE  TakenPart(TakeNode(m, h, len, best, prev, last).heap,
                     m, A, F, s, h, len, best, last)
<1>a. /\ h \in Nat /\ len \in Nat /\ best \in F /\ last \in A
      /\ best # m[1] => prev \in F /\ m[prev + 2] = best
    BY HeapAssumption, HandlesAssumption DEF CanTake
<1> USE <1>a
<1> DEFINE next == best + len + NODE
           rest == s[best] - (len + NODE)
           hd == IF best = m[1] THEN 1 ELSE prev + 2
           m1 == Wr(m, next + 1, rest)
           m2 == Wr(m1, next + 2, m[best + 2])
           m3 == Wr(m2, hd, next)
           m4 == Wr(m3, last + 2, best)
           m5 == Wr(m4, best + 1, len)
           m6 == Wr(m5, best, h)
           n == Wr(m6, best + 2, 0)
<1>0. /\ m \in Memory /\ Tiles(A \cup F, s) /\ A \cap F = {}
      /\ m[best + 1] = s[best] /\ Chain(m, m[1], F, Offsets) /\ Offsets \in Ranks
    BY GoodFreed DEF Good, Frees
<1>1. /\ best \in Nat /\ 2 <= best /\ best + s[best] <= HEAP_SIZE /\ s[best] \in Nat
      /\ best \in Words /\ best + 1 \in Words /\ best + 2 \in Words /\ HEAP_SIZE \in Nat
      /\ m[best + 2] \in Nat
    BY <1>0, TileAt, GoodNodes
<1>2. /\ next \in Nat /\ best + 3 <= next /\ next + 3 <= best + s[best] /\ rest \in Nat
      /\ next + 1 \in Words /\ next + 2 \in Words
    BY <1>1 DEF NODE, Words
<1>3. /\ last \in Nat /\ last + 2 \in Words /\ last # best /\ 2 <= last
      /\ last + 3 <= best \/ best + s[best] <= last
  <2>1. last # best
      BY <1>0
  <2>2. last \in Nat /\ last + 2 \in Words /\ s[last] \in Nat /\ 3 <= s[last] /\ 2 <= last
      BY <1>0, TileAt
  <2>3. last + s[last] <= best \/ best + s[best] <= last
      BY <1>0, <2>1, TilesApart
  <2> QED
      BY <1>1, <2>1, <2>2, <2>3
<1>4. /\ hd \in Nat /\ hd \in Words
      /\ best # m[1] => /\ prev \in F /\ prev # best /\ m[prev + 2] = best /\ prev \in Nat
                        /\ prev + 3 <= best \/ best + 3 <= prev
  <2>1. CASE best = m[1]
      BY <2>1, GoodHeads
  <2>2. CASE best # m[1]
    <3>1. prev \in F /\ m[prev + 2] = best /\ best # 0
        BY <1>1, <2>2
    <3>2. prev # best
        BY <1>0, <3>1, OnePredecessor
    <3> QED
        BY <2>2, <3>1, <3>2, GoodNodes
  <2> QED
      BY <2>1, <2>2
<1>5. TakeNode(m, h, len, best, prev, last).heap = n
  <2>1. BufferSize(m, best) = s[best] /\ NextNodeOffset(m, best) = m[best + 2]
      BY <1>0, <1>1, RdFact
  <2>2. s[best] > len + NODE
      BY <1>1 DEF NODE
  <2> QED
      BY <2>1, <2>2 DEF TakeNode, Result, StartOfFreedNodes
<1>6. /\ n \in Memory
      /\ \A x \in Words : n[x] = IF x = best + 2 THEN 0 ELSE IF x = best THEN h
                                 ELSE IF x = best + 1 THEN len ELSE IF x = last + 2 THEN best
                                 ELSE IF x = hd THEN next ELSE IF x = next + 2 THEN m[best + 2]
                                 ELSE IF x = next + 1 THEN rest ELSE m[x]
  <2> HIDE DEF next, rest, hd
  <2>0. 0 \in Nat
      OBVIOUS
  <2>1. Written(m1, m, next + 1, rest)
      BY <1>0, <1>2, WrFact, Zenon
  <2>2. Written(m2, m1, next + 2, m[best + 2])
    <3> HIDE DEF m1
    <3> QED
        BY <1>1, <1>2, <2>1, WrFact, WrMemory, Zenon
  <2>3. Written(m3, m2, hd, next)
    <3> HIDE DEF m2
    <3> QED
        BY <1>2, <1>4, <2>2, WrFact, WrMemory, Zenon
  <2>4. Written(m4, m3, last + 2, best)
    <3> HIDE DEF m3
    <3> QED
        BY <1>1, <1>3, <2>3, WrFact, WrMemory, Zenon
  <2>5. Written(m5, m4, best + 1, len)
    <3> HIDE DEF m4
    <3> QED
        BY <1>1, <2>4, WrFact, WrMemory, Zenon
  <2>6. Written(m6, m5, best, h)
    <3> HIDE DEF m5
    <3> QED
        BY <1>1, <2>5, WrFact, WrMemory, Zenon
  <2>7. Written(n, m6, best + 2, 0)
    <3> HIDE DEF m6
    <3> QED
        BY <1>1, <2>0, <2>6, WrFact, WrMemory, Zenon
  <2> HIDE DEF m1, m2, m3, m4, m5, m6, n
  <2> QED
      BY <2>1, <2>2, <2>3, <2>4, <2>5, <2>6, <2>7 DEF Written
<1> HIDE DEF n, next, rest, m1, m2, m3, m4, m5, m6
<1>7. n[best] = h /\ n[best + 1] = len /\ n[best + 2] = 0
    BY <1>1, <1>6
<1>8. n[next + 1] = rest /\ n[next + 2] = m[best + 2]
  <2>1. hd # next + 1 /\ hd # next + 2
    <3>1. CASE best = m[1]
        BY <1>1, <1>2, <3>1
    <3>2. CASE best # m[1]
      <4>1. prev + 3 <= best \/ best + s[best] <= prev
        <5>1. prev \in F /\ prev # best
            BY <1>4, <3>2
        <5>2. prev + s[prev] <= best \/ best + s[best] <= prev
            BY <1>0, <5>1, TilesApart
        <5>3. s[prev] \in Nat /\ 3 <= s[prev] /\ prev \in Nat
            BY <1>0, <5>1, TileAt
        <5> QED
            BY <1>1, <5>2, <5>3
      <4> QED
          BY <1>1, <1>2, <1>4, <3>2, <4>1
    <3> QED
        BY <3>1, <3>2
  <2> HIDE DEF hd
  <2> QED
      BY <1>1, <1>2, <1>3, <1>6, <2>1
<1>9. n[0] = m[0] /\ n[1] = IF m[1] = best THEN next ELSE m[1]
  <2>1. 0 \in Words /\ 1 \in Words /\ hd # 0 /\ (best # m[1] => hd # 1)
    <3>1. best # m[1] => 2 <= prev /\ prev \in Nat
        BY <1>4, GoodNodes
    <3> QED
        BY <3>1, GoodHeads
  <2>2. best = m[1] => hd = 1
      OBVIOUS
  <2> HIDE DEF hd
  <2> QED
      BY <1>1, <1>2, <1>3, <1>6, <2>1, <2>2
\* A word of another node.
<1>10. ASSUME NEW o \in A \cup F, o # best
       PROVE  /\ o \in Nat /\ o \in Words /\ o + 1 \in Words /\ o + 2 \in Words
              /\ o + 3 <= best \/ best + s[best] <= o
  <2>1. o + s[o] <= best \/ best + s[best] <= o
      BY <1>0, <1>10, TilesApart
  <2>2. s[o] \in Nat /\ 3 <= s[o] /\ o \in Nat /\ o \in Words /\ o + 1 \in Words /\ o + 2 \in Words
      BY <1>0, TileAt
  <2> QED
      BY <1>1, <2>1, <2>2
<1>11. ASSUME NEW o \in A
       PROVE  /\ n[o] = m[o] /\ n[o + 1] = m[o + 1]
              /\ n[o + 2] = IF o = last THEN best ELSE m[o + 2]
  <2>1. o # best
      BY <1>0
  <2>2. hd # o /\ hd # o + 1 /\ hd # o + 2
    <3>1. o \in Nat /\ 2 <= o
        BY GoodNodes
    <3>2. best # m[1] => o + 3 <= prev \/ prev + 3 <= o
        BY <1>0, <1>4, GoodNodes
    <3> QED
        BY <1>4, <3>1, <3>2
  <2>3. o # last => o + 3 <= last \/ last + 3 <= o
      BY GoodNodes
  <2> HIDE DEF hd
  <2>4. /\ o \in Nat /\ o \in Words /\ o + 1 \in Words /\ o + 2 \in Words
        /\ o + 3 <= best \/ best + s[best] <= o
      BY <1>10, <2>1
  <2> QED
      BY <1>1, <1>2, <1>3, <1>6, <2>2, <2>3, <2>4
<1>12. ASSUME NEW o \in F \ {best}
       PROVE  /\ n[o + 1] = m[o + 1]
              /\ n[o + 2] = IF m[o + 2] = best THEN next ELSE m[o + 2]
  <2>1. o # last /\ (o + 3 <= last \/ last + 3 <= o)
      BY <1>0, GoodNodes
  <2>2. hd # o + 1
    <3>1. o \in Nat /\ 2 <= o
        BY GoodNodes
    <3>2. best # m[1] /\ o # prev => o + 3 <= prev \/ prev + 3 <= o
        BY <1>0, <1>4, GoodNodes
    <3> QED
        BY <1>4, <3>1, <3>2
  <2>3. m[o + 2] = best <=> hd = o + 2
    <3>1. CASE best = m[1]
      <4>1. m[o + 2] # best
        <5>1. m[o + 2] # 0 => m[o + 2] # m[1]
            BY <1>0, OnePredecessor
        <5> QED
            BY <1>1, <3>1, <5>1
      <4>2. o \in Nat /\ 2 <= o
          BY GoodNodes
      <4> QED
          BY <3>1, <4>1, <4>2
    <3>2. CASE best # m[1]
      <4>1. m[o + 2] = best => o = prev
        <5>1. prev \in F /\ m[prev + 2] = best /\ best # 0
            BY <1>1, <1>4, <3>2
        <5> QED
            BY <1>0, <5>1, OnePredecessor
      <4>2. o \in Nat /\ prev \in Nat
          BY <1>4, <3>2, GoodNodes
      <4> QED
          BY <1>4, <3>2, <4>1, <4>2
    <3> QED
        BY <3>1, <3>2
  <2> HIDE DEF hd
  <2>4. /\ o \in Nat /\ o \in Words /\ o + 1 \in Words /\ o + 2 \in Words
        /\ o + 3 <= best \/ best + s[best] <= o
      BY <1>10
  <2> QED
      BY <1>1, <1>2, <1>3, <1>6, <2>1, <2>2, <2>3, <2>4
<1>13. Taken(n, m, A, F, h, len, best, next, last)
    BY <1>6, <1>7, <1>9, <1>11, <1>12 DEF Taken
<1>14. next = best + len + NODE /\ next + 1 = best + len + NODE + 1
       /\ next + 2 = best + len + NODE + 2
    BY DEF next
<1> QED
    BY <1>5, <1>8, <1>13, <1>14 DEF TakenPart, rest

\* The same when nothing is left of the node.
LEMMA TakeWhole ==
    ASSUME NEW m, NEW A, NEW F, NEW s, NEW r, Good(m, A, F, s, r),
           NEW h, NEW len, NEW best, NEW prev, NEW last,
           CanTake(m, A, F, h, len, best, prev, last), ~(len + NODE < s[best])
    PROVE  Taken(TakeNode(m, h, len, best, prev, last).heap,
                 m, A, F, h, len, best, m[best + 2], last)
<1>a. /\ h \in Nat /\ len \in Nat /\ best \in F /\ last \in A
      /\ best # m[1] => prev \in F /\ m[prev + 2] = best
    BY HeapAssumption, HandlesAssumption DEF CanTake
<1> USE <1>a
<1> DEFINE next == m[best + 2]
           hd == IF best = m[1] THEN 1 ELSE prev + 2
           m3 == Wr(m, hd, next)
           m4 == Wr(m3, last + 2, best)
           m5 == Wr(m4, best + 1, len)
           m6 == Wr(m5, best, h)
           n == Wr(m6, best + 2, 0)
<1>0. /\ m \in Memory /\ Tiles(A \cup F, s) /\ A \cap F = {}
      /\ m[best + 1] = s[best] /\ Chain(m, m[1], F, Offsets) /\ Offsets \in Ranks
    BY GoodFreed DEF Good, Frees
<1>1. /\ best \in Nat /\ 2 <= best /\ s[best] \in Nat
      /\ best \in Words /\ best + 1 \in Words /\ best + 2 \in Words
      /\ next \in Nat
    BY <1>0, TileAt, GoodNodes
<1>3. /\ last \in Nat /\ last + 2 \in Words /\ last # best /\ 2 <= last
      /\ last + 3 <= best \/ best + 3 <= last
  <2>1. last # best
      BY <1>0
  <2> QED
      BY <2>1, GoodNodes
<1>4. /\ hd \in Nat /\ hd \in Words
      /\ best # m[1] => /\ prev \in F /\ prev # best /\ m[prev + 2] = best /\ prev \in Nat
                        /\ prev + 3 <= best \/ best + 3 <= prev
  <2>1. CASE best = m[1]
      BY <2>1, GoodHeads
  <2>2. CASE best # m[1]
    <3>1. prev \in F /\ m[prev + 2] = best /\ best # 0
        BY <1>1, <2>2
    <3>2. prev # best
        BY <1>0, <3>1, OnePredecessor
    <3> QED
        BY <2>2, <3>1, <3>2, GoodNodes
  <2> QED
      BY <2>1, <2>2
<1>5. TakeNode(m, h, len, best, prev, last).heap = n
  <2>1. BufferSize(m, best) = s[best] /\ NextNodeOffset(m, best) = m[best + 2]
      BY <1>0, <1>1, RdFact
  <2>2. ~(s[best] > len + NODE)
      BY <1>1 DEF NODE
  <2> QED
      BY <2>1, <2>2 DEF TakeNode, Result, StartOfFreedNodes
<1>6. /\ n \in Memory
      /\ \A x \in Words : n[x] = IF x = best + 2 THEN 0 ELSE IF x = best THEN h
                                 ELSE IF x = best + 1 THEN len ELSE IF x = last + 2 THEN best
                                 ELSE IF x = hd THEN next ELSE m[x]
  <2> HIDE DEF next, hd
  <2>0. 0 \in Nat
      OBVIOUS
  <2>3. Written(m3, m, hd, next)
      BY <1>0, <1>1, <1>4, WrFact, Zenon
  <2>4. Written(m4, m3, last + 2, best)
    <3> HIDE DEF m3
    <3> QED
        BY <1>1, <1>3, <2>3, WrFact, WrMemory, Zenon
  <2>5. Written(m5, m4, best + 1, len)
    <3> HIDE DEF m4
    <3> QED
        BY <1>1, <2>4, WrFact, WrMemory, Zenon
  <2>6. Written(m6, m5, best, h)
    <3> HIDE DEF m5
    <3> QED
        BY <1>1, <2>5, WrFact, WrMemory, Zenon
  <2>7. Written(n, m6, best + 2, 0)
    <3> HIDE DEF m6
    <3> QED
        BY <1>1, <2>0, <2>6, WrFact, WrMemory, Zenon
  <2> HIDE DEF m3, m4, m5, m6, n
  <2> QED
      BY <2>3, <2>4, <2>5, <2>6, <2>7 DEF Written
<1> HIDE DEF n, next, m3, m4, m5, m6
<1>7. n[best] = h /\ n[best + 1] = len /\ n[best + 2] = 0
    BY <1>1, <1>6
<1>9. n[0] = m[0] /\ n[1] = IF m[1] = best THEN next ELSE m[1]
  <2>1. 0 \in Words /\ 1 \in Words /\ hd # 0 /\ (best # m[1] => hd # 1)
    <3>1. best # m[1] => 2 <= prev /\ prev \in Nat
        BY <1>4, GoodNodes
    <3> QED
        BY <3>1, GoodHeads
  <2>2. best = m[1] => hd = 1
      OBVIOUS
  <2> HIDE DEF hd
  <2> QED
      BY <1>1, <1>3, <1>6, <2>1, <2>2
<1>11. ASSUME NEW o \in A
       PROVE  /\ n[o] = m[o] /\ n[o + 1] = m[o + 1]
              /\ n[o + 2] = IF o = last THEN best ELSE m[o + 2]
  <2>1. o # best
      BY <1>0
  <2>2. hd # o /\ hd # o + 1 /\ hd # o + 2
    <3>1. o \in Nat /\ 2 <= o
        BY GoodNodes
    <3>2. best # m[1] => o + 3 <= prev \/ prev + 3 <= o
        BY <1>0, <1>4, GoodNodes
    <3> QED
        BY <1>4, <3>1, <3>2
  <2>3. o # last => o + 3 <= last \/ last + 3 <= o
      BY GoodNodes
  <2> HIDE DEF hd
  <2>4. /\ o \in Nat /\ o \in Words /\ o + 1 \in Words /\ o + 2 \in Words
        /\ o + 3 <= best \/ best + 3 <= o
      BY <2>1, GoodNodes
  <2> QED
      BY <1>1, <1>3, <1>6, <2>2, <2>3, <2>4
<1>12. ASSUME NEW o \in F \ {best}
       PROVE  /\ n[o + 1] = m[o + 1]
              /\ n[o + 2] = IF m[o + 2] = best THEN next ELSE m[o + 2]
  <2>1. o # last /\ (o + 3 <= last \/ last + 3 <= o)
      BY <1>0, GoodNodes
  <2>2. hd # o + 1
    <3>1. o \in Nat /\ 2 <= o
        BY GoodNodes
    <3>2. best # m[1] /\ o # prev => o + 3 <= prev \/ prev + 3 <= o
        BY <1>0, <1>4, GoodNodes
    <3> QED
        BY <1>4, <3>1, <3>2
  <2>3. m[o + 2] = best <=> hd = o + 2
    <3>1. CASE best = m[1]
      <4>1. m[o + 2] # best
        <5>1. m[o + 2] # 0 => m[o + 2] # m[1]
            BY <1>0, OnePredecessor
        <5> QED
            BY <1>1, <3>1, <5>1
      <4>2. o \in Nat /\ 2 <= o
          BY GoodNodes
      <4> QED
          BY <3>1, <4>1, <4>2
    <3>2. CASE best # m[1]
      <4>1. m[o + 2] = best => o = prev
        <5>1. prev \in F /\ m[prev + 2] = best /\ best # 0
            BY <1>1, <1>4, <3>2
        <5> QED
            BY <1>0, <5>1, OnePredecessor
      <4>2. o \in Nat /\ prev \in Nat
          BY <1>4, <3>2, GoodNodes
      <4> QED
          BY <1>4, <3>2, <4>1, <4>2
    <3> QED
        BY <3>1, <3>2
  <2> HIDE DEF hd
  <2>4. /\ o \in Nat /\ o \in Words /\ o + 1 \in Words /\ o + 2 \in Words
        /\ o + 3 <= best \/ best + 3 <= o
      BY GoodNodes
  <2> QED
      BY <1>1, <1>3, <1>6, <2>1, <2>2, <2>3, <2>4
<1>13. Taken(n, m, A, F, h, len, best, next, last)
    BY <1>6, <1>7, <1>9, <1>11, <1>12 DEF Taken
<1> QED
    BY <1>5, <1>13 DEF next

\* The buffers once best is one, of the sizes t.
Sized(t, s, A, best, len) == t[best] = len + NODE /\ \A o \in A : t[o] = s[o]
NewBuffers(n, m, A, h, len, best, t) ==
    /\ \E k \in Ranks : Chain(n, n[0], A \cup {best}, k)
    /\ Allocs(n, A \cup {best}, t)
    /\ Live(n, A \cup {best}) = Live(m, A) \cup {Buffer(h, best, len)}

\* The buffers after TakeNode.
LEMMA TakenBuffers ==
    ASSUME NEW m, NEW A, NEW F, NEW s, NEW r, Good(m, A, F, s, r),
           NEW h, NEW len, NEW best, NEW prev, NEW last,
           CanTake(m, A, F, h, len, best, prev, last),
           NEW n, NEW next, Taken(n, m, A, F, h, len, best, next, last),
           NEW t, Sized(t, s, A, best, len)
    PROVE  NewBuffers(n, m, A, h, len, best, t)
<1>a. /\ h \in Handles /\ len \in Lengths /\ best \in F /\ last \in A /\ m[last + 2] = 0
      /\ \A o \in A : m[o] # h
      /\ t[best] = len + NODE /\ \A o \in A : t[o] = s[o]
    BY DEF CanTake, Sized
<1> USE <1>a
<1>0. m \in Memory /\ r \in Ranks /\ Chain(m, m[0], A, r) /\ best \notin A /\ Allocs(m, A, s)
    BY DEF Good
<1>1. best \in Words /\ MANAGER <= best /\ best + NODE <= HEAP_SIZE
    BY GoodNodes DEF MANAGER, NODE
<1>2. \A o \in A : /\ n[o] = m[o] /\ n[o + 1] = m[o + 1]
                   /\ n[o + 2] = IF o = last THEN best ELSE m[o + 2]
    BY DEF Taken
<1>3. n[0] = m[0] /\ n[best] = h /\ n[best + 1] = len /\ n[best + 2] = 0
    BY DEF Taken
<1>4. /\ Chain(n, m[0], A \cup {best}, [r EXCEPT ![best] = r[last] + 1])
      /\ [r EXCEPT ![best] = r[last] + 1] \in Ranks
    BY <1>0, <1>1, <1>2, <1>3, ChainAppend
<1>5. Allocs(n, A \cup {best}, t)
  <2>1. ASSUME NEW o \in A \cup {best}
        PROVE  n[o] \in Handles /\ n[o + 1] \in Lengths /\ t[o] = n[o + 1] + NODE
      BY <1>0, <1>2, <1>3 DEF Allocs
  <2>2. ASSUME NEW o \in A \cup {best}, NEW p \in A \cup {best}, n[o] = n[p] PROVE o = p
    <3>1. CASE o \in A /\ p \in A
        BY <1>0, <1>2, <2>2, <3>1 DEF Allocs
    <3>2. CASE o = best /\ p \in A
        BY <1>2, <1>3, <2>2, <3>2
    <3>3. CASE o \in A /\ p = best
        BY <1>2, <1>3, <2>2, <3>3
    <3> QED
        BY <3>1, <3>2, <3>3
  <2> QED
      BY <2>1, <2>2 DEF Allocs
<1>6. Live(n, A \cup {best}) = Live(m, A) \cup {Buffer(h, best, len)}
    BY <1>2, <1>3 DEF Live
<1> QED
    BY <1>3, <1>4, <1>5, <1>6 DEF NewBuffers

\* The freed nodes G, once best is a buffer, and the sizes t of all blocks.
NewFrees(n, A, s, best, len, G, t) ==
    /\ t \in Sizes /\ t[best] = len + NODE /\ \A o \in A : t[o] = s[o]
    /\ (A \cup {best}) \cap G = {}
    /\ Tiles((A \cup {best}) \cup G, t)
    /\ FreeList(n, G)
    /\ Frees(n, G, t)

\* The freed nodes when the best fit was split.
LEMMA TakenSplitFrees ==
    ASSUME NEW m, NEW A, NEW F, NEW s, NEW r, Good(m, A, F, s, r),
           NEW h, NEW len, NEW best, NEW prev, NEW last,
           CanTake(m, A, F, h, len, best, prev, last), len + 2 * NODE <= s[best],
           NEW n, TakenPart(n, m, A, F, s, h, len, best, last)
    PROVE  \E G, t : NewFrees(n, A, s, best, len, G, t)
<1>a. /\ len \in Nat /\ best \in F
      /\ Taken(n, m, A, F, h, len, best, best + len + NODE, last)
      /\ n[best + len + NODE + 1] = s[best] - (len + NODE)
      /\ n[best + len + NODE + 2] = m[best + 2]
    BY HeapAssumption DEF CanTake, TakenPart
<1> USE <1>a
<1> DEFINE k == len + NODE
           next == best + k
           t == [s EXCEPT ![best] = k, ![best + k] = s[best] - k]
           G == (F \ {best}) \cup {next}
<1>0. /\ m \in Memory /\ s \in Sizes /\ Tiles(A \cup F, s) /\ A \cap F = {}
      /\ Sorted(m, m[1], F) /\ Frees(m, F, s) /\ n \in Memory
    BY GoodFreed DEF Good, Taken
<1>1. k \in Nat /\ NODE <= k /\ k + NODE <= s[best] /\ k < s[best] /\ s[best] \in Nat
  <2>1. s[best] \in Nat
      BY <1>0, TileAt
  <2> QED
      BY <2>1 DEF NODE
<1>2. /\ next \in Words /\ next \notin A \cup F /\ s[best] - k \in Nat
      /\ t \in Sizes
      /\ Tiles((A \cup F) \cup {next}, t)
  <2> HIDE DEF k
  <2> QED
      BY <1>0, <1>1, TilesSplit
<1>3. next = best + len + NODE /\ next + 1 = best + len + NODE + 1
      /\ next + 2 = best + len + NODE + 2 /\ 3 <= k
  <2>1. best \in Nat
      BY GoodNodes
  <2> QED
      BY <2>1 DEF NODE
<1>4. /\ n[1] = IF m[1] = best THEN next ELSE m[1]
      /\ \A o \in F \ {best} : /\ n[o + 1] = m[o + 1]
                               /\ n[o + 2] = IF m[o + 2] = best THEN next ELSE m[o + 2]
      /\ n[next + 1] = s[best] - k
      /\ n[next + 2] = m[best + 2]
    BY <1>3 DEF Taken
<1>5. /\ best \in Nat /\ s[best] \in Nat /\ best \in Words /\ best + s[best] <= HEAP_SIZE
      /\ \A o \in A \cup F : o \in Words /\ o \in Nat /\ s[o] \in Nat
      /\ HEAP_SIZE \in Nat
    BY <1>0, TileAt
<1>6. next \in Nat /\ best < next /\ next < best + s[best]
    BY <1>1, <1>3, <1>5
<1>7. /\ t[best] = k /\ t[next] = s[best] - k
      /\ \A o \in (A \cup F) \ {best} : t[o] = s[o]
  <2>1. next # best
      BY <1>2
  <2> HIDE DEF next, k
  <2> QED
      BY <1>2, <1>5, <2>1 DEF Sizes, next
<1> HIDE DEF t, next
<1>8. (A \cup {best}) \cap G = {} /\ (A \cup {best}) \cup G = (A \cup F) \cup {next}
    BY <1>0, <1>2
<1>9. \A o \in A : t[o] = s[o]
    BY <1>0, <1>7
<1>10. Sorted(n, n[1], G)
  <2>1. Sorted(m, m[1], F)
      BY <1>0
  <2>2. MANAGER <= next /\ next + NODE <= HEAP_SIZE /\ next \notin F
    <3>1. 2 <= next /\ next + 3 <= HEAP_SIZE
        BY <1>2, TileAt
    <3> QED
        BY <1>2, <3>1 DEF MANAGER, NODE
  <2>3. ASSUME NEW p \in F, p < best PROVE p < next
      BY <1>5, <1>6, <2>3
  <2>4. ASSUME NEW p \in F, best < p PROVE next < p
    <3>1. best + s[best] <= p
        BY <1>0, <2>4 DEF Tiles
    <3> QED
        BY <1>5, <1>6, <3>1
  <2>5. Sorted(n, IF m[1] = best THEN next ELSE m[1], (F \ {best}) \cup {next})
    <3>1. \A p \in F \ {best} : n[p + 2] = IF m[p + 2] = best THEN next ELSE m[p + 2]
        BY <1>4
    <3> QED
        BY <1>4, <1>6, <2>1, <2>2, <2>3, <2>4, <3>1, SortedReplace, Zenon
  <2> QED
      BY <1>4, <2>5
<1>11. FreeList(n, G)
  <2>1. Chain(n, n[1], G, Offsets) /\ G # {}
      BY <1>0, <1>10, OffsetChain
  <2> HIDE DEF G
  <2> QED
      BY <2>1 DEF FreeList
<1>12. Frees(n, G, t)
  <2>1. ASSUME NEW o \in G PROVE n[o + 1] = t[o]
      BY <1>0, <1>4, <1>7 DEF Frees
  <2>2. ASSUME NEW o \in G, NEW p \in G, o < p PROVE o + t[o] < p
    <3>1. CASE o # next /\ p # next
        BY <1>0, <1>7, <2>2, <3>1 DEF Frees
    <3>2. CASE o = next /\ p # next
      <4>1. best < p
          BY <1>5, <1>6, <2>2, <3>2
      <4>2. best + s[best] < p
          BY <1>0, <3>2, <4>1 DEF Frees
      <4>3. next + (s[best] - k) = best + s[best]
          BY <1>1, <1>5 DEF next
      <4> QED
          BY <1>7, <3>2, <4>2, <4>3
    <3>3. CASE o # next /\ p = next
      <4>1. o \in F /\ o # best /\ o \in Nat /\ s[o] \in Nat /\ t[o] = s[o]
          BY <1>5, <1>7, <3>3
      <4>2. o < best
        <5> SUFFICES ASSUME best < o PROVE FALSE
            BY <1>5, <4>1
        <5>1. best + s[best] <= o
            BY <1>0, <4>1 DEF Tiles
        <5> QED
            BY <1>5, <1>6, <2>2, <3>3, <4>1, <5>1
      <4>3. o + s[o] < best
          BY <1>0, <4>1, <4>2 DEF Frees
      <4> QED
          BY <1>5, <1>6, <3>3, <4>1, <4>3
    <3>4. CASE o = next /\ p = next
        BY <1>6, <2>2, <3>4
    <3> QED
        BY <3>1, <3>2, <3>3, <3>4
  <2> HIDE DEF G
  <2> QED
      BY <2>1, <2>2 DEF Frees
<1>13. t[best] = len + NODE
    BY <1>7
<1>14. Tiles((A \cup {best}) \cup G, t)
    BY <1>2, <1>8
<1> HIDE DEF G
<1> QED
    BY <1>2, <1>8, <1>9, <1>11, <1>12, <1>13, <1>14 DEF NewFrees

\* The freed nodes when the best fit was taken as a whole.
LEMMA TakenWholeFrees ==
    ASSUME NEW m, NEW A, NEW F, NEW s, NEW r, Good(m, A, F, s, r),
           NEW h, NEW len, NEW best \in F, s[best] = len + NODE, NEW last,
           NEW n, Taken(n, m, A, F, h, len, best, m[best + 2], last)
    PROVE  NewFrees(n, A, s, best, len, F \ {best}, s)
<1>0. /\ m \in Memory /\ s \in Sizes /\ Tiles(A \cup F, s) /\ A \cap F = {}
      /\ Chain(m, m[1], F, Offsets) /\ Sorted(m, m[1], F) /\ Frees(m, F, s)
      /\ Offsets \in Ranks /\ m[1] \in F
    BY GoodFreed DEF Good
<1>1. (A \cup {best}) \cap (F \ {best}) = {} /\ (A \cup {best}) \cup (F \ {best}) = A \cup F
    BY <1>0
<1>4. /\ n[1] = IF m[1] = best THEN m[best + 2] ELSE m[1]
      /\ \A o \in F \ {best} :
            /\ n[o + 1] = m[o + 1]
            /\ n[o + 2] = IF m[o + 2] = best THEN m[best + 2] ELSE m[o + 2]
    BY DEF Taken
\* It was the only one.
<1>2. ASSUME F \ {best} = {} PROVE n[1] = 0
  <2>1. m[1] = best
      BY <1>0, <1>2
  <2>2. m[best + 2] # 0 => m[best + 2] \in F /\ m[best + 2] # best
      BY <1>0, OnePredecessor
  <2> QED
      BY <1>2, <1>4, <2>1, <2>2
<1>5. ASSUME NEW q \in F \ {best} PROVE Chain(n, n[1], F \ {best}, Offsets)
  <2>0. m[1] = best => m[best + 2] # 0
    <3> SUFFICES ASSUME m[1] = best, m[best + 2] = 0 PROVE FALSE
        OBVIOUS
    <3>1. best <= q /\ q <= best /\ q \in Nat /\ best \in Nat
        BY <1>0, SortedAt
    <3> QED
        BY <3>1
  <2>1. \A p \in F \ {best} : n[p + 2] = IF m[p + 2] = best THEN m[best + 2] ELSE m[p + 2]
      BY <1>4
  <2>2. Chain(n, IF m[1] = best THEN m[best + 2] ELSE m[1], F \ {best}, Offsets)
      BY <1>0, <2>0, <2>1, ChainDrop, Zenon
  <2> QED
      BY <1>4, <2>2
<1>3. FreeList(n, F \ {best})
    BY <1>2, <1>5 DEF FreeList
<1>6. Frees(n, F \ {best}, s)
  <2>1. \A o \in F \ {best} : n[o + 1] = s[o]
      BY <1>0, <1>4 DEF Frees
  <2>2. \A o, p \in F \ {best} : o < p => o + s[o] < p
      BY <1>0 DEF Frees
  <2> QED
      BY <2>1, <2>2 DEF Frees
<1> QED
    BY <1>0, <1>1, <1>3, <1>6 DEF NewFrees

\* A heap in use whose buffers are those of L.
InUse(m, L) == \E A, F, s, r : Good(m, A, F, s, r) /\ L = Live(m, A)

\* A taken node leaves a heap in use, by one more buffer.
LEMMA TakenGood ==
    ASSUME NEW m, NEW A, NEW F, NEW s, NEW r, Good(m, A, F, s, r),
           NEW h, NEW len, NEW best, NEW prev, NEW last,
           CanTake(m, A, F, h, len, best, prev, last),
           NEW n, NEW next, Taken(n, m, A, F, h, len, best, next, last),
           NEW G, NEW t, NewFrees(n, A, s, best, len, G, t)
    PROVE  InUse(n, Live(m, A) \cup {Buffer(h, best, len)})
<1>0. /\ t \in Sizes /\ t[best] = len + NODE /\ \A o \in A : t[o] = s[o]
      /\ (A \cup {best}) \cap G = {} /\ Tiles((A \cup {best}) \cup G, t)
      /\ FreeList(n, G) /\ Frees(n, G, t) /\ n \in Memory
    BY DEF NewFrees, Taken
<1>1. /\ \E k \in Ranks : Chain(n, n[0], A \cup {best}, k)
      /\ Allocs(n, A \cup {best}, t)
      /\ Live(n, A \cup {best}) = Live(m, A) \cup {Buffer(h, best, len)}
  <2>1. Sized(t, s, A, best, len)
      BY <1>0 DEF Sized
  <2>2. NewBuffers(n, m, A, h, len, best, t)
      BY <2>1, TakenBuffers, Zenon
  <2> QED
      BY <2>2 DEF NewBuffers
<1>2. PICK k \in Ranks : Chain(n, n[0], A \cup {best}, k)
    BY <1>1
<1>3. Good(n, A \cup {best}, G, t, k)
    BY <1>0, <1>1, <1>2 DEF Good
<1> QED
    BY <1>1, <1>3 DEF InUse

\* TakeNode leaves a heap in use, by one more buffer.
LEMMA TakeGood ==
    ASSUME NEW m, NEW A, NEW F, NEW s, NEW r, Good(m, A, F, s, r),
           NEW h, NEW len, NEW best, NEW prev, NEW last,
           CanTake(m, A, F, h, len, best, prev, last),
           s[best] = len + NODE \/ len + 2 * NODE <= s[best]
    PROVE  InUse(TakeNode(m, h, len, best, prev, last).heap,
                 Live(m, A) \cup {Buffer(h, best, len)})
<1> DEFINE n == TakeNode(m, h, len, best, prev, last).heap
<1>0. len \in Nat /\ best \in F
    BY HeapAssumption DEF CanTake
<1>3. CASE len + 2 * NODE <= s[best]
  <2>2. TakenPart(n, m, A, F, s, h, len, best, last)
      BY <1>3, TakeSplit, Zenon
  <2> HIDE DEF n
  <2>3. PICK G, t : NewFrees(n, A, s, best, len, G, t)
      BY <1>3, <2>2, TakenSplitFrees, Zenon
  <2>4. Taken(n, m, A, F, h, len, best, best + len + NODE, last)
      BY <2>2 DEF TakenPart
  <2>5. InUse(n, Live(m, A) \cup {Buffer(h, best, len)})
      BY <2>3, <2>4, TakenGood, Zenon
  <2> QED
      BY <2>5 DEF n
<1>4. CASE s[best] = len + NODE
  <2>2. ~(len + NODE < s[best])
      BY <1>0, <1>4 DEF NODE
  <2>3. Taken(n, m, A, F, h, len, best, m[best + 2], last)
      BY <2>2, TakeWhole, Zenon
  <2> HIDE DEF n
  <2>4. NewFrees(n, A, s, best, len, F \ {best}, s)
      BY <1>0, <1>4, <2>3, TakenWholeFrees, Zenon
  <2>6. InUse(n, Live(m, A) \cup {Buffer(h, best, len)})
      BY <2>3, <2>4, TakenGood, Zenon
  <2> QED
      BY <2>6 DEF n
<1> QED
    BY <1>3, <1>4

\* A walk that starts at the end stays there.
LEMMA WalkNone ==
    ASSUME NEW m \in Memory
    PROVE  /\ \A i \in Steps : Walk(m, 0)[i] = 0
           /\ Ends(Walk(m, 0))
<1>0. HEAP_SIZE \in Nat /\ HEAP_SIZE \in Steps
    BY HeapAssumption DEF Steps
<1> DEFINE w == Walk(m, 0)
           T == {i \in 0 .. HEAP_SIZE : w[i] = 0}
<1>2. /\ w[0] = 0
      /\ \A i \in 1 .. HEAP_SIZE : w[i] = IF w[i - 1] = 0 THEN 0
                                          ELSE NextNodeOffset(m, w[i - 1])
    BY WalkFact
<1> HIDE DEF w
<1>3. 0 \in T
    BY <1>0, <1>2
<1>4. ASSUME NEW i \in 0 .. HEAP_SIZE, i # HEAP_SIZE, i \in T PROVE i + 1 \in T
  <2>1. i + 1 \in 1 .. HEAP_SIZE /\ (i + 1) - 1 = i /\ w[i] = 0
      BY <1>0, <1>4
  <2>2. w[i + 1] = 0
      BY <1>2, <2>1
  <2> QED
      BY <1>0, <2>1, <2>2
<1>5. \A i \in 0 .. HEAP_SIZE : i \in T
  <2> HIDE DEF T
  <2> QED
      BY <1>0, <1>3, <1>4, UpTo
<1>6. \A i \in Steps : w[i] = 0
    BY <1>5 DEF Steps
<1> QED
    BY <1>0, <1>6 DEF Ends, w

\* Both lists of a heap in use can be walked.
LEMMA GoodWalks ==
    ASSUME NEW m, NEW A, NEW F, NEW s, NEW r, Good(m, A, F, s, r)
    PROVE  /\ Walks(Allocated(m), m, A, r)
           /\ Walks(Walk(m, StartOfFreedNodes(m)), m, F, Offsets)
<1> DEFINE w == Walk(m, m[1])
<1>0. m \in Memory /\ r \in Ranks /\ Chain(m, m[0], A, r) /\ FreeList(m, F)
      /\ m[0] \in Nat /\ m[1] \in Nat
    BY GoodHeads DEF Good
<1>1. Walks(Allocated(m), m, A, r)
    BY <1>0, WalkChain DEF Allocated, StartOfAllocatedNodes
<1>2. CASE F = {}
  <2>1. m[1] = 0
      BY <1>0, <1>2 DEF FreeList
  <2>2. w \in [Steps -> Nat] /\ (\A i \in Steps : w[i] = 0) /\ Ends(w)
      BY <1>0, <2>1, WalkFact, WalkNone
  <2> HIDE DEF w
  <2>3. Nodes(w) = {}
      BY <2>2 DEF Nodes
  <2>4. \A i \in 1 .. HEAP_SIZE : i \in Steps /\ i - 1 \in Steps
      BY HeapAssumption DEF Steps
  <2>5. Walks(w, m, F, Offsets)
      BY <1>2, <2>2, <2>3, <2>4 DEF Walks
  <2> QED
      BY <1>1, <2>5 DEF w, StartOfFreedNodes
<1>3. CASE F # {}
  <2>1. Chain(m, m[1], F, Offsets) /\ Offsets \in Ranks
      BY <1>3, GoodFreed
  <2>2. Walks(w, m, F, Offsets)
      BY <1>0, <2>1, WalkChain
  <2> QED
      BY <1>1, <2>2 DEF StartOfFreedNodes
<1> QED
    BY <1>2, <1>3

\* Without freed nodes there is no fit.
LEMMA NoFit ==
    ASSUME NEW m \in Memory, m[1] = 0, NEW len
    PROVE  BestFit(m, len).node = 0
<1> DEFINE w == Walk(m, StartOfFreedNodes(m))
<1>1. \A i \in Steps : w[i] = 0
    BY WalkNone DEF StartOfFreedNodes
<1> HIDE DEF w
<1>2. {i \in Steps : w[i] # 0 /\ BufferSize(m, w[i]) >= len + NODE} = {}
    BY <1>1
<1> QED
    BY <1>2 DEF BestFit, w

\* BiosAllocateBuffer on a heap in use: nothing changes or the heap is in use by
\* one more buffer.
LEMMA AllocateGood ==
    ASSUME NEW m, NEW A, NEW F, NEW s, NEW r, Good(m, A, F, s, r),
           NEW h \in Handles, NEW len \in Lengths, ~SmallRest(m, h, len)
    PROVE  LET e == Allocate(m, h, len) IN
           \/ e = Result(m, 0)
           \/ e.node # 0 /\ InUse(e.heap, Live(m, A) \cup {Buffer(h, e.node, len)})
<1> DEFINE w == Allocated(m)
           fit == BestFit(m, len)
           last == LastNode(w)
           Refuse == \/ \E o \in Nodes(w) : BufferHandle(m, o) = h
                     \/ fit.node = 0
<1>0. m \in Memory /\ r \in Ranks /\ Chain(m, m[0], A, r) /\ FreeList(m, F) /\ len \in Nat
    BY HeapAssumption DEF Good
<1>1. m[0] \in Nat /\ m[1] \in Nat /\ m[0] # 0
    BY GoodHeads
<1>2. Allocate(m, h, len) = IF Refuse THEN Result(m, 0)
                            ELSE TakeNode(m, h, len, fit.node, fit.prev, last)
    BY <1>1 DEF Allocate, StartOfAllocatedNodes
<1>3. CASE Refuse
  <2> HIDE DEF Refuse
  <2> QED
      BY <1>2, <1>3
<1>4. CASE ~Refuse
  <2>1. \A o \in A : m[o] # h
    <3>1. Nodes(w) = A
        BY GoodWalks DEF Walks
    <3>2. \A o \in A : BufferHandle(m, o) = m[o]
        BY GoodNodes DEF BufferHandle, Rd
    <3> QED
        BY <1>4, <3>1, <3>2
  <2>2. /\ fit.node \in F
        /\ fit.node # m[1] => fit.prev \in F /\ m[fit.prev + 2] = fit.node
        /\ m[fit.node + 1] >= len + NODE
    <3>2. fit.node # 0
        BY <1>4
    <3>3. F # {}
        BY <1>0, <3>2, NoFit DEF FreeList
    <3>4. Chain(m, m[1], F, Offsets) /\ Offsets \in Ranks
        BY <3>3, GoodFreed
    <3>1. \/ fit.node = 0
          \/ FoundIn(F, m, m[1], fit) /\ m[fit.node + 1] >= len + NODE
        BY <1>0, <1>1, <3>4, BestFitFact
    <3> HIDE DEF fit
    <3> QED
        BY <3>1, <3>2 DEF FoundIn
  <2>3. last \in A /\ m[last + 2] = 0
      BY <1>0, <1>1, LastFact DEF Allocated, StartOfAllocatedNodes
  <2>4. Allocate(m, h, len) = TakeNode(m, h, len, fit.node, fit.prev, last)
    <3> HIDE DEF Refuse
    <3> QED
        BY <1>2, <1>4
  <2>9. /\ Allocate(m, h, len).node # 0
        => ~(len + NODE < BufferSize(m, fit.node) /\ BufferSize(m, fit.node) < len + NODE + NODE)
      BY <1>1 DEF SmallRest, StartOfAllocatedNodes
  <2> HIDE DEF fit, last
  <2>7. TakeNode(m, h, len, fit.node, fit.prev, last).node = fit.node
      BY DEF TakeNode, Result
  <2>8. fit.node # 0
      BY <2>2, GoodNodes
  <2>5. s[fit.node] = len + NODE \/ len + 2 * NODE <= s[fit.node]
    <3>1. BufferSize(m, fit.node) = m[fit.node + 1] /\ m[fit.node + 1] \in Nat
        BY <2>2, GoodNodes, RdFact
    <3>2. s[fit.node] = m[fit.node + 1]
        BY <2>2 DEF Good, Frees
    <3> QED
        BY <1>0, <2>2, <2>4, <2>7, <2>8, <2>9, <3>1, <3>2 DEF NODE
  <2>6. InUse(TakeNode(m, h, len, fit.node, fit.prev, last).heap,
              Live(m, A) \cup {Buffer(h, fit.node, len)})
    <3>1. CanTake(m, A, F, h, len, fit.node, fit.prev, last)
        BY <2>1, <2>2, <2>3 DEF CanTake
    <3> QED
        BY <2>5, <3>1, TakeGood, Zenon
  <2> QED
      BY <2>4, <2>6, <2>7, <2>8
<1> QED
    BY <1>3, <1>4

\* The first buffer, on an empty heap.
LEMMA FirstGood ==
    ASSUME NEW m, m = [o \in Words |-> 0],
           NEW h \in Handles, NEW len \in Lengths,
           ~SmallRest(m, h, len)
    PROVE  LET e == Allocate(m, h, len) IN
           e.node # 0 /\ InUse(e.heap, {Buffer(h, e.node, len)})
<1> DEFINE f == 2 + len + 3
           rest == HEAP_SIZE - 2 - 3 - len
           m1 == Wr(m, 2, h)
           m2 == Wr(m1, 3, len)
           m3 == Wr(m2, 4, 0)
           m4 == Wr(m3, f + 1, rest)
           m5 == Wr(m4, f + 2, 0)
           m6 == Wr(m5, 0, 2)
           n == Wr(m6, 1, f)
<1>0. /\ h \in Nat /\ len \in Nat /\ HEAP_SIZE \in Nat /\ len + 8 <= HEAP_SIZE
      /\ f \in Nat /\ rest \in Nat /\ 3 <= rest /\ f + rest = HEAP_SIZE
      /\ \A x \in {0, 1, 2, 3, 4, f, f + 1, f + 2} : x \in Words
  <2>1. h \in Nat /\ len \in Nat /\ HEAP_SIZE \in Nat
      BY HeapAssumption, HandlesAssumption
  <2>2. StartOfAllocatedNodes(m) = 0
      BY HeapAssumption DEF StartOfAllocatedNodes, Words
  <2>3. ~(HEAP_SIZE < MANAGER + NODE + len + NODE)
      BY <2>2 DEF SmallRest
  <2>4. len + 8 <= HEAP_SIZE
      BY <2>1, <2>3 DEF MANAGER, NODE
  <2> QED
      BY <2>1, <2>4 DEF Words
<1>1. m \in Memory /\ \A x \in Words : m[x] = 0
    BY DEF Memory
<1>2. Allocate(m, h, len) = Result(n, 2)
  <2>1. StartOfAllocatedNodes(m) = 0
      BY <1>0, <1>1 DEF StartOfAllocatedNodes
  <2>2. Allocate(m, h, len) = FirstAllocation(m, h, len)
      BY <2>1 DEF Allocate
  <2>3. MANAGER = 2 /\ NODE = 3 /\ 2 + 1 = 3 /\ 2 + 2 = 4
      BY DEF MANAGER, NODE
  <2>4. FirstAllocation(m, h, len) = Result(n, 2)
      BY <2>3 DEF FirstAllocation
  <2> QED
      BY <2>2, <2>4
<1>3. /\ n \in Memory
      /\ \A x \in Words : n[x] = IF x = 1 THEN f ELSE IF x = 0 THEN 2 ELSE IF x = f + 2 THEN 0
                                 ELSE IF x = f + 1 THEN rest ELSE IF x = 4 THEN 0
                                 ELSE IF x = 3 THEN len ELSE IF x = 2 THEN h ELSE m[x]
  <2> HIDE DEF f, rest
  <2>0. /\ 0 \in Nat /\ 2 \in Nat /\ 0 \in Words /\ 1 \in Words /\ 2 \in Words /\ 3 \in Words
        /\ 4 \in Words /\ f + 1 \in Words /\ f + 2 \in Words
      BY <1>0
  <2>1. Written(m1, m, 2, h)
      BY <1>0, <1>1, <2>0, WrFact, Zenon
  <2>2. Written(m2, m1, 3, len)
    <3> HIDE DEF m1
    <3> QED
        BY <1>0, <2>0, <2>1, WrFact, WrMemory, Zenon
  <2>3. Written(m3, m2, 4, 0)
    <3> HIDE DEF m2
    <3> QED
        BY <2>0, <2>2, WrFact, WrMemory, Zenon
  <2>4. Written(m4, m3, f + 1, rest)
    <3> HIDE DEF m3
    <3> QED
        BY <1>0, <2>0, <2>3, WrFact, WrMemory, Zenon
  <2>5. Written(m5, m4, f + 2, 0)
    <3> HIDE DEF m4
    <3> QED
        BY <2>0, <2>4, WrFact, WrMemory, Zenon
  <2>6. Written(m6, m5, 0, 2)
    <3> HIDE DEF m5
    <3> QED
        BY <2>0, <2>5, WrFact, WrMemory, Zenon
  <2>7. Written(n, m6, 1, f)
    <3> HIDE DEF m6
    <3> QED
        BY <1>0, <2>0, <2>6, WrFact, WrMemory, Zenon
  <2> HIDE DEF m1, m2, m3, m4, m5, m6, n
  <2> QED
      BY <2>1, <2>2, <2>3, <2>4, <2>5, <2>6, <2>7 DEF Written
<1> HIDE DEF n, m1, m2, m3, m4, m5, m6
<1>4. /\ n[0] = 2 /\ n[1] = f /\ n[2] = h /\ n[3] = len /\ n[4] = 0
      /\ n[f + 1] = rest /\ n[f + 2] = 0
    BY <1>0, <1>3
<1> DEFINE s == [o \in Words |-> IF o = 2 THEN len + 3 ELSE rest]
           r == [o \in Words |-> 0]
<1>5. /\ s \in Sizes /\ r \in Ranks /\ s[2] = len + 3 /\ s[f] = rest /\ f # 2
      /\ r[2] = 0
    BY <1>0 DEF Sizes, Ranks
<1> HIDE DEF s, r
<1>6. Tiles({2} \cup {f}, s)
  <2>2. ASSUME NEW o \in {2} \cup {f}
        PROVE  /\ o \in Nat /\ 2 <= o /\ s[o] \in Nat /\ 3 <= s[o]
               /\ o + s[o] <= HEAP_SIZE
    <3> HIDE DEF rest
    <3>1. CASE o = 2
        BY <1>0, <1>5, <3>1
    <3>2. CASE o = f
      <4> HIDE DEF f
      <4> QED
          BY <1>0, <1>5, <3>2 DEF f
    <3> QED
        BY <3>1, <3>2
  <2>3. ASSUME NEW o \in {2} \cup {f}, NEW p \in {2} \cup {f}, o < p PROVE o + s[o] <= p
      BY <1>0, <1>5, <2>3
  <2>4. ASSUME NEW x \in MANAGER .. HEAP_SIZE - 1
        PROVE  \E o \in {2} \cup {f} : o <= x /\ x < o + s[o]
    <3>1. x \in Int /\ 2 <= x /\ x < HEAP_SIZE
        BY <1>0 DEF MANAGER
    <3>2. CASE x < f
        BY <1>0, <1>5, <3>1, <3>2
    <3>3. CASE ~(x < f)
        BY <1>0, <1>5, <3>1, <3>3
    <3> QED
        BY <3>2, <3>3
  <2> QED
      BY <2>2, <2>3, <2>4 DEF Tiles, MANAGER, NODE
<1>7. Chain(n, n[0], {2}, r)
  <2>1. 2 + 2 = 4
      OBVIOUS
  <2> QED
      BY <1>0, <1>4, <1>5, <2>1 DEF Chain, MANAGER, NODE
<1>8. FreeList(n, {f})
  <2>1. Sorted(n, f, {f})
      BY <1>0, <1>4 DEF Sorted, MANAGER, NODE
  <2> QED
      BY <1>3, <1>4, <2>1, OffsetChain DEF FreeList
<1>9. Allocs(n, {2}, s)
  <2>1. 2 + 1 = 3
      OBVIOUS
  <2> QED
      BY <1>4, <1>5, <2>1 DEF Allocs, NODE
<1>10. Frees(n, {f}, s)
    BY <1>0, <1>4, <1>5 DEF Frees
<1>11. Good(n, {2}, {f}, s, r)
    BY <1>3, <1>5, <1>6, <1>7, <1>8, <1>9, <1>10 DEF Good
<1>12. Live(n, {2}) = {Buffer(h, 2, len)}
  <2>1. 2 + 1 = 3
      OBVIOUS
  <2> QED
      BY <1>4, <2>1 DEF Live
<1>13. Allocate(m, h, len).node = 2 /\ Allocate(m, h, len).heap = n
    BY <1>2 DEF Result
<1> QED
    BY <1>11, <1>12, <1>13 DEF InUse

-----------------------------------------------------------------------------
\* Deallocation.  In between, node a is on neither list.
Half(u, A, F, s, r, a) ==
    /\ u \in Memory /\ s \in Sizes /\ r \in Ranks
    /\ A \cap F = {} /\ a \notin A \cup F
    /\ Tiles((A \cup F) \cup {a}, s)
    /\ Chain(u, u[0], A, r)
    /\ Chain(u, u[1], F, Offsets)
    /\ Allocs(u, A, s)
    /\ Frees(u, F, s)
    /\ u[a + 1] = s[a]

\* A list whose next offsets are left alone is a list.
LEMMA ChainSame ==
    ASSUME NEW m, NEW first, NEW S, NEW r, Chain(m, first, S, r),
           NEW n, \A o \in S : n[o + 2] = m[o + 2]
    PROVE  Chain(n, first, S, r)
BY Zenon DEF Chain

\* The words that matter when a buffer has been taken off its list and cleared.
LEMMA UnlinkFact ==
    ASSUME NEW m, NEW A, NEW F, NEW s, NEW r, Good(m, A, F, s, r),
           NEW a \in A, a # m[0], NEW prev \in A, m[prev + 2] = a
    PROVE  LET u == Unlink(m, a, prev) IN
           /\ u \in Memory
           /\ u[0] = m[0] /\ u[1] = m[1] /\ u[a + 1] = s[a]
           /\ \A o \in A \ {a} : /\ u[o] = m[o] /\ u[o + 1] = m[o + 1]
                                 /\ u[o + 2] = IF m[o + 2] = a THEN m[a + 2] ELSE m[o + 2]
           /\ \A o \in F : u[o + 1] = m[o + 1] /\ u[o + 2] = m[o + 2]
<1> DEFINE len == m[a + 1]
           m1 == Wr(m, prev + 2, m[a + 2])
           m2 == [o \in Words |-> IF o \in a + 3 .. a + 3 + len - 1 THEN 0 ELSE m1[o]]
           m3 == Wr(m2, a, 0)
           u == Wr(m3, a + 1, len + 3)
<1>0. /\ m \in Memory /\ Tiles(A \cup F, s) /\ A \cap F = {} /\ r \in Ranks
      /\ Chain(m, m[0], A, r) /\ s[a] = len + 3
    BY DEF Good, Allocs, NODE
<1>1. /\ a \in Nat /\ 2 <= a /\ a \in Words /\ a + 1 \in Words /\ a + 2 \in Words
      /\ len \in Nat /\ m[a + 2] \in Nat
    BY GoodNodes
<1>2. /\ prev # a /\ prev \in Nat /\ 2 <= prev /\ prev + 2 \in Words
      /\ prev + 3 <= a \/ a + s[a] <= prev
  <2>1. prev # a
      BY <1>0, <1>1, OnePredecessor
  <2>2. prev + s[prev] <= a \/ a + s[a] <= prev
      BY <1>0, <2>1, TilesApart
  <2>3. prev \in Nat /\ 2 <= prev /\ prev + 2 \in Words /\ s[prev] \in Nat /\ 3 <= s[prev]
        /\ s[a] \in Nat
      BY <1>0, TileAt
  <2> QED
      BY <1>1, <2>1, <2>2, <2>3
<1>3. Written(m1, m, prev + 2, m[a + 2])
    BY <1>0, <1>1, <1>2, WrFact, Zenon
<1>4. m1 \in Memory /\ m1[a + 1] = len
  <2>1. prev + 2 # a + 1
      BY <1>0, <1>1, <1>2
  <2> HIDE DEF m1
  <2> QED
      BY <1>1, <1>3, <2>1 DEF Written
<1>5. m2 \in Memory /\ m2[a + 1] = len
  <2> HIDE DEF m1
  <2>1. m2 \in Memory
      BY <1>4 DEF Memory
  <2>2. a + 1 \notin a + 3 .. a + 3 + len - 1
      BY <1>1
  <2> QED
      BY <1>1, <1>4, <2>1, <2>2
<1>6. Unlink(m, a, prev) = u
  <2>1. NextNodeOffset(m, a) = m[a + 2] /\ BufferSize(m1, a) = m1[a + 1]
        /\ BufferSize(m2, a) = m2[a + 1]
      BY <1>1, RdFact
  <2>2. NODE = 3
      BY DEF NODE
  <2> QED
      BY <1>4, <1>5, <2>1, <2>2 DEF Unlink
<1>7. /\ u \in Memory
      /\ \A x \in Words : u[x] = IF x = a + 1 THEN len + 3 ELSE IF x = a THEN 0
                                 ELSE IF x \in a + 3 .. a + 3 + len - 1 THEN 0
                                 ELSE IF x = prev + 2 THEN m[a + 2] ELSE m[x]
  <2>0. 0 \in Nat /\ len + 3 \in Nat
      BY <1>1
  <2>1. Written(m3, m2, a, 0)
    <3> HIDE DEF m2
    <3> QED
        BY <1>1, <1>5, <2>0, WrFact, Zenon
  <2>2. Written(u, m3, a + 1, len + 3)
    <3> HIDE DEF m3, len
    <3> QED
        BY <1>1, <2>0, <2>1, WrFact, WrMemory, Zenon
  <2>3. \A x \in Words : m2[x] = IF x \in a + 3 .. a + 3 + len - 1 THEN 0 ELSE m1[x]
      OBVIOUS
  <2> HIDE DEF m1, m2, m3, u
  <2> QED
      BY <1>3, <2>1, <2>2, <2>3 DEF Written
<1> HIDE DEF u, m1, m2, m3, len
<1>8. u[0] = m[0] /\ u[1] = m[1] /\ u[a + 1] = s[a]
    BY <1>0, <1>1, <1>2, <1>7, GoodHeads
<1>9. ASSUME NEW o \in A \cup F, o # a
      PROVE  /\ o \in Nat /\ o \in Words /\ o + 1 \in Words /\ o + 2 \in Words
             /\ o + 3 <= a \/ a + len + 3 <= o
  <2>1. o + s[o] <= a \/ a + s[a] <= o
      BY <1>0, <1>9, TilesApart
  <2>2. s[o] \in Nat /\ 3 <= s[o] /\ o \in Nat /\ o \in Words /\ o + 1 \in Words /\ o + 2 \in Words
      BY <1>0, TileAt
  <2> QED
      BY <1>0, <1>1, <2>1, <2>2
<1>10. ASSUME NEW o \in A \ {a}
       PROVE  /\ u[o] = m[o] /\ u[o + 1] = m[o + 1]
              /\ u[o + 2] = IF m[o + 2] = a THEN m[a + 2] ELSE m[o + 2]
  <2>1. o = prev \/ o + 3 <= prev \/ prev + 3 <= o
      BY GoodNodes
  <2>2. m[o + 2] = a <=> o = prev
      BY <1>0, <1>1, OnePredecessor
  <2>3. /\ o \in Nat /\ o \in Words /\ o + 1 \in Words /\ o + 2 \in Words
        /\ o + 3 <= a \/ a + len + 3 <= o
      BY <1>9
  <2> QED
      BY <1>1, <1>2, <1>7, <2>1, <2>2, <2>3
<1>11. ASSUME NEW o \in F PROVE u[o + 1] = m[o + 1] /\ u[o + 2] = m[o + 2]
  <2>1. o + 3 <= prev \/ prev + 3 <= o
      BY <1>0, GoodNodes
  <2>3. /\ o \in Nat /\ o \in Words /\ o + 1 \in Words /\ o + 2 \in Words
        /\ o + 3 <= a \/ a + len + 3 <= o
      BY <1>0, <1>9
  <2> QED
      BY <1>1, <1>2, <1>7, <2>1, <2>3
<1> QED
    BY <1>6, <1>7, <1>8, <1>10, <1>11

Unlinked(u, m, A, F, s, r, a) ==
    /\ Half(u, A \ {a}, F, s, r, a)
    /\ Live(u, A \ {a}) = {b \in Live(m, A) : b.handle # m[a]}
    /\ u[1] = m[1]

\* Unlink leaves the node on neither list, and the others as they were.
LEMMA UnlinkGood ==
    ASSUME NEW m, NEW A, NEW F, NEW s, NEW r, Good(m, A, F, s, r), NEW z \in F,
           NEW a \in A, a # m[0], NEW prev \in A, m[prev + 2] = a
    PROVE  Unlinked(Unlink(m, a, prev), m, A, F, s, r, a)
<1> DEFINE u == Unlink(m, a, prev)
<1>0. /\ m \in Memory /\ s \in Sizes /\ Tiles(A \cup F, s) /\ A \cap F = {} /\ r \in Ranks
      /\ Chain(m, m[0], A, r) /\ Chain(m, m[1], F, Offsets) /\ Allocs(m, A, s) /\ Frees(m, F, s)
    BY GoodFreed DEF Good
<1>1. /\ u \in Memory
      /\ u[0] = m[0] /\ u[1] = m[1] /\ u[a + 1] = s[a]
      /\ \A o \in A \ {a} : /\ u[o] = m[o] /\ u[o + 1] = m[o + 1]
                            /\ u[o + 2] = IF m[o + 2] = a THEN m[a + 2] ELSE m[o + 2]
      /\ \A o \in F : u[o + 1] = m[o + 1] /\ u[o + 2] = m[o + 2]
    BY UnlinkFact
<1> HIDE DEF u
<1>2. Chain(u, u[0], A \ {a}, r)
  <2>1. m[0] = a => m[a + 2] # 0
      OBVIOUS
  <2>2. \A p \in A \ {a} : u[p + 2] = IF m[p + 2] = a THEN m[a + 2] ELSE m[p + 2]
      BY <1>1
  <2>3. Chain(u, IF m[0] = a THEN m[a + 2] ELSE m[0], A \ {a}, r)
      BY <1>0, <2>1, <2>2, ChainDrop, Zenon
  <2> QED
      BY <1>1, <2>3
<1>3. Chain(u, u[1], F, Offsets)
    BY <1>0, <1>1, ChainSame
<1>4. Allocs(u, A \ {a}, s)
    BY <1>0, <1>1 DEF Allocs
<1>5. Frees(u, F, s)
    BY <1>0, <1>1 DEF Frees
<1>6. (A \ {a}) \cap F = {} /\ a \notin (A \ {a}) \cup F
      /\ ((A \ {a}) \cup F) \cup {a} = A \cup F
    BY <1>0
<1>7. Half(u, A \ {a}, F, s, r, a)
    BY <1>0, <1>1, <1>2, <1>3, <1>4, <1>5, <1>6 DEF Half
<1>8. Live(u, A \ {a}) = {b \in Live(m, A) : b.handle # m[a]}
  <2>1. \A o \in A : o # a <=> Buffer(m[o], o, m[o + 1]).handle # m[a]
      BY <1>0 DEF Allocs, Buffer
  <2>2. \A o \in A \ {a} : Buffer(u[o], o, u[o + 1]) = Buffer(m[o], o, m[o + 1])
      BY <1>1
  <2>3. Live(u, A \ {a}) = {Buffer(m[o], o, m[o + 1]) : o \in A \ {a}}
      BY <2>2 DEF Live
  <2> QED
      BY <2>1, <2>3 DEF Live
<1>9. Unlinked(u, m, A, F, s, r, a)
    BY <1>1, <1>7, <1>8 DEF Unlinked
<1> QED
    BY <1>9 DEF u

\* A heap in use, but for freed nodes that may still be side by side.
Loose(v, A, G, s, r) ==
    /\ v \in Memory /\ s \in Sizes /\ r \in Ranks
    /\ A \cap G = {}
    /\ Tiles(A \cup G, s)
    /\ Chain(v, v[0], A, r)
    /\ Chain(v, v[1], G, Offsets)
    /\ Allocs(v, A, s)
    /\ \A o \in G : v[o + 1] = s[o]

\* The node is not side by side with the next one.
Tight(v, s, o) == v[o + 2] # 0 => o + s[o] # v[o + 2]

\* If no two freed nodes are side by side, the heap is in use.
LEMMA LooseGood ==
    ASSUME NEW v, NEW A, NEW G, NEW s, NEW r, Loose(v, A, G, s, r),
           \A o \in G : Tight(v, s, o)
    PROVE  Good(v, A, G, s, r)
<1>0. /\ v \in Memory /\ Tiles(A \cup G, s) /\ Chain(v, v[1], G, Offsets)
      /\ Sorted(v, v[1], G)
    BY OffsetChain DEF Loose
<1>1. ASSUME NEW o \in G, NEW p \in G, o < p PROVE o + s[o] < p
  <2>1. o \in Nat /\ p \in Nat /\ s[o] \in Nat
      BY <1>0, TileAt
  <2>2. v[o + 2] # 0 /\ v[o + 2] \in G /\ v[o + 2] <= p /\ o < v[o + 2]
    <3>1. /\ v[o + 2] = 0 => p <= o
          /\ v[o + 2] # 0 => v[o + 2] \in G /\ o < v[o + 2] /\ (p <= o \/ v[o + 2] <= p)
        BY <1>0, SortedAt
    <3> QED
        BY <1>1, <2>1, <3>1
  <2>3. v[o + 2] \in Nat
      BY <1>0, <2>2, TileAt
  <2>4. o + s[o] <= v[o + 2]
      BY <1>0, <2>2 DEF Tiles
  <2>5. o + s[o] # v[o + 2]
      BY <2>2 DEF Tight
  <2> QED
      BY <2>1, <2>2, <2>3, <2>4, <2>5
<1>2. Frees(v, G, s)
    BY <1>1 DEF Frees, Loose
<1>3. FreeList(v, G)
  <2>1. G # {}
      BY <1>0 DEF Sorted
  <2> QED
      BY <1>0, <2>1 DEF FreeList
<1> QED
    BY <1>2, <1>3 DEF Good, Loose

\* What joining node p to node o leaves.
Joins(n, v, o, p) ==
    /\ n \in Memory
    /\ \A x \in Words : n[x] = IF x = p + 2 \/ x = p + 1 THEN 0
                               ELSE IF x = o + 2 THEN v[p + 2]
                               ELSE IF x = o + 1 THEN v[o + 1] + v[p + 1]
                               ELSE v[x]

\* Join does so.
LEMMA JoinFact ==
    ASSUME NEW m \in Memory, NEW o \in Nat, NEW p \in Nat,
           o + 1 \in Words, o + 2 \in Words, p + 1 \in Words, p + 2 \in Words,
           o + 3 <= p \/ p + 3 <= o
    PROVE  Joins(Join(m, o, p), m, o, p)
<1> DEFINE m1 == Wr(m, o + 1, m[o + 1] + m[p + 1])
           m2 == Wr(m1, o + 2, m[p + 2])
           m3 == Wr(m2, p + 1, 0)
           n == Wr(m3, p + 2, 0)
<1>0. m[o + 1] + m[p + 1] \in Nat /\ m[p + 2] \in Nat /\ 0 \in Nat
    BY DEF Memory
<1>1. Join(m, o, p) = n
    BY RdFact DEF Join
<1>2. Written(m1, m, o + 1, m[o + 1] + m[p + 1])
    BY <1>0, WrFact, Zenon
<1>3. Written(m2, m1, o + 2, m[p + 2])
  <2> HIDE DEF m1
  <2> QED
      BY <1>0, <1>2, WrFact, WrMemory, Zenon
<1>4. Written(m3, m2, p + 1, 0)
  <2> HIDE DEF m2
  <2> QED
      BY <1>0, <1>3, WrFact, WrMemory, Zenon
<1>5. Written(n, m3, p + 2, 0)
  <2> HIDE DEF m3
  <2> QED
      BY <1>0, <1>4, WrFact, WrMemory, Zenon
<1> HIDE DEF m1, m2, m3, n
<1>6. Joins(n, m, o, p)
    BY <1>2, <1>3, <1>4, <1>5 DEF Written, Joins
<1> QED
    BY <1>1, <1>6

\* Headers of different blocks have no word in common.
LEMMA LooseNodes ==
    ASSUME NEW v, NEW B, NEW s, v \in Memory, Tiles(B, s), NEW o \in B, NEW p \in B
    PROVE  /\ o \in Nat /\ 2 <= o /\ o \in Words /\ o + 1 \in Words /\ o + 2 \in Words
           /\ v[o] \in Nat /\ v[o + 1] \in Nat /\ v[o + 2] \in Nat /\ s[o] \in Nat
           /\ o # p => o + 3 <= p \/ p + 3 <= o
<1>1. /\ o \in Nat /\ 2 <= o /\ o \in Words /\ o + 1 \in Words /\ o + 2 \in Words
      /\ 3 <= s[o] /\ s[o] \in Nat /\ p \in Nat /\ 3 <= s[p] /\ s[p] \in Nat
    BY TileAt
<1>2. o # p => o + s[o] <= p \/ p + s[p] <= o
    BY TilesApart
<1> QED
    BY <1>1, <1>2 DEF Memory

JoinedCells(n, v, A, G, o, p) ==
    /\ n \in Memory /\ n[0] = v[0] /\ n[1] = v[1]
    /\ \A q \in A : n[q] = v[q] /\ n[q + 1] = v[q + 1] /\ n[q + 2] = v[q + 2]
    /\ \A q \in G \ {p} : /\ n[q + 1] = IF q = o THEN v[o + 1] + v[p + 1] ELSE v[q + 1]
                          /\ n[q + 2] = IF q = o THEN v[p + 2] ELSE v[q + 2]

\* Joining leaves all other headers alone.
LEMMA JoinedFact ==
    ASSUME NEW v, NEW A, NEW G, NEW s, NEW r, Loose(v, A, G, s, r),
           NEW o \in G, NEW p \in G, o # p, NEW n, Joins(n, v, o, p)
    PROVE  JoinedCells(n, v, A, G, o, p)
<1>0. v \in Memory /\ Tiles(A \cup G, s) /\ A \cap G = {}
    BY DEF Loose
<1>1. /\ o \in Nat /\ 2 <= o /\ p \in Nat /\ 2 <= p /\ 0 \in Words /\ 1 \in Words
      /\ o + 3 <= p \/ p + 3 <= o
  <2>1. o \in A \cup G /\ p \in A \cup G
      OBVIOUS
  <2>2. o \in Nat /\ 2 <= o /\ (o + 3 <= p \/ p + 3 <= o)
      BY <1>0, <2>1, LooseNodes, Zenon
  <2>3. p \in Nat /\ 2 <= p
      BY <1>0, <2>1, LooseNodes, Zenon
  <2> QED
      BY <2>2, <2>3, HeapAssumption DEF Words
<1>2. n \in Memory /\ n[0] = v[0] /\ n[1] = v[1]
    BY <1>1 DEF Joins
<1>3. ASSUME NEW q \in A
      PROVE  n[q] = v[q] /\ n[q + 1] = v[q + 1] /\ n[q + 2] = v[q + 2]
  <2>1. /\ q \in Nat /\ q \in Words /\ q + 1 \in Words /\ q + 2 \in Words
        /\ o + 3 <= q \/ q + 3 <= o
        /\ p + 3 <= q \/ q + 3 <= p
    <3>1. q \in A \cup G /\ o \in A \cup G /\ p \in A \cup G /\ q # p /\ (q \in A => q # o)
        BY <1>0
    <3> QED
        BY <1>0, <3>1, LooseNodes, Zenon
  <2> QED
      BY <1>1, <2>1 DEF Joins
<1>4. ASSUME NEW q \in G \ {p}
      PROVE  /\ n[q + 1] = IF q = o THEN v[o + 1] + v[p + 1] ELSE v[q + 1]
             /\ n[q + 2] = IF q = o THEN v[p + 2] ELSE v[q + 2]
  <2>1. /\ q \in Nat /\ q \in Words /\ q + 1 \in Words /\ q + 2 \in Words
        /\ q # o => o + 3 <= q \/ q + 3 <= o
        /\ p + 3 <= q \/ q + 3 <= p
    <3>1. q \in A \cup G /\ o \in A \cup G /\ p \in A \cup G /\ q # p /\ (q \in A => q # o)
        BY <1>0
    <3> QED
        BY <1>0, <3>1, LooseNodes, Zenon
  <2> QED
      BY <1>1, <2>1 DEF Joins
<1> QED
    BY <1>2, <1>3, <1>4 DEF JoinedCells

Joined(n, v, A, G, s, t, r, o, p) ==
    /\ Loose(n, A, G \ {p}, t, r)
    /\ Live(n, A) = Live(v, A)
    /\ \A q \in G \ {o, p} : Tight(v, s, q) => Tight(n, t, q)
    /\ Tight(v, s, p) => Tight(n, t, o)

\* Two freed nodes side by side are joined.
LEMMA JoinedLoose ==
    ASSUME NEW v, NEW A, NEW G, NEW s, NEW r, Loose(v, A, G, s, r),
           NEW o \in G, NEW p \in G, v[o + 2] = p, o + s[o] = p,
           NEW n, Joins(n, v, o, p)
    PROVE  Joined(n, v, A, G, s, [s EXCEPT ![o] = s[o] + s[p]], r, o, p)
<1> DEFINE t == [s EXCEPT ![o] = s[o] + s[p]]
           R == G \ {p}
<1>0. /\ v \in Memory /\ Tiles(A \cup G, s) /\ A \cap G = {} /\ s \in Sizes /\ r \in Ranks
      /\ Chain(v, v[0], A, r) /\ Chain(v, v[1], G, Offsets) /\ Allocs(v, A, s)
      /\ \A q \in G : v[q + 1] = s[q]
    BY DEF Loose
<1>1. /\ o \in Nat /\ s[o] \in Nat /\ 3 <= s[o] /\ p \in Nat /\ s[p] \in Nat /\ 3 <= s[p]
      /\ p + s[p] <= HEAP_SIZE /\ HEAP_SIZE \in Nat /\ 2 <= p /\ o \in Words /\ p # 0
    BY <1>0, TileAt
<1>2. o # p
    BY <1>1
<1>3. JoinedCells(n, v, A, G, o, p)
    BY <1>2, JoinedFact, Zenon
<1>4. t \in Sizes /\ Tiles(A \cup R, t)
  <2>1. o \in A \cup G /\ p \in A \cup G
      OBVIOUS
  <2>2. t \in Sizes /\ Tiles((A \cup G) \ {p}, t)
      BY <1>0, <2>1, TilesJoin, Zenon
  <2>3. (A \cup G) \ {p} = A \cup R
      BY <1>0
  <2> QED
      BY <2>2, <2>3
<1>5. t[o] = s[o] + s[p] /\ \A q \in (A \cup G) \ {o} : t[q] = s[q]
  <2>1. \A q \in A \cup G : q \in Words
      BY <1>0, TileAt
  <2> QED
      BY <1>0, <1>1, <2>1 DEF Sizes
<1> HIDE DEF t
<1>6. Chain(n, n[0], A, r)
  <2>1. n[0] = v[0] /\ \A q \in A : n[q + 2] = v[q + 2]
      BY <1>3 DEF JoinedCells
  <2> QED
      BY <1>0, <2>1, ChainSame
<1>7. Chain(n, n[1], R, Offsets)
  <2>0. Offsets \in Ranks
      BY <1>0, OffsetRank
  <2>1. v[1] # p /\ \A q \in G : v[q + 2] = p => q = o
      BY <1>0, <1>1, <2>0, OnePredecessor
  <2>2. \A q \in G \ {p} : n[q + 2] = IF v[q + 2] = p THEN v[p + 2] ELSE v[q + 2]
      BY <1>3, <2>1 DEF JoinedCells
  <2>3. v[1] = p => v[p + 2] # 0
      BY <2>1
  <2>4. Chain(n, IF v[1] = p THEN v[p + 2] ELSE v[1], G \ {p}, Offsets)
      BY <1>0, <2>0, <2>2, <2>3, ChainDrop, Zenon
  <2>5. n[1] = v[1]
      BY <1>3 DEF JoinedCells
  <2> QED
      BY <2>1, <2>4, <2>5
<1>8. \A q \in A : n[q] = v[q] /\ n[q + 1] = v[q + 1] /\ t[q] = s[q]
    BY <1>0, <1>3, <1>5 DEF JoinedCells
<1>9. Allocs(n, A, t)
    BY <1>0, <1>8 DEF Allocs
<1>10. \A q \in R : n[q + 1] = t[q]
    BY <1>0, <1>3, <1>5 DEF JoinedCells
<1>12. Loose(n, A, R, t, r)
  <2>1. n \in Memory /\ A \cap R = {}
      BY <1>0, <1>3 DEF JoinedCells
  <2> QED
      BY <1>0, <1>4, <1>6, <1>7, <1>9, <1>10, <2>1 DEF Loose
<1>13. Live(n, A) = Live(v, A)
    BY <1>8 DEF Live
<1>14. \A q \in G \ {o, p} : Tight(v, s, q) => Tight(n, t, q)
    BY <1>3, <1>5 DEF JoinedCells, Tight
<1>15. Tight(v, s, p) => Tight(n, t, o)
  <2>1. n[o + 2] = v[p + 2] /\ o + t[o] = p + s[p]
      BY <1>1, <1>2, <1>3, <1>5 DEF JoinedCells
  <2> QED
      BY <2>1 DEF Tight
<1>16. Joined(n, v, A, G, s, t, r, o, p)
    BY <1>12, <1>13, <1>14, <1>15 DEF Joined
<1> QED
    BY <1>16 DEF t

\* The freed node a belongs between prev and f.  The head of the list is where
\* the next offset of a node at -1 would be.
Spot(u, A, F, s, r, a, f, prev) ==
    /\ Half(u, A, F, s, r, a)
    /\ f \in F /\ a < f
    /\ prev \in F \cup {-1} /\ u[prev + 2] = f /\ prev < a

Placed(v, u, a, f, prev) ==
    /\ v \in Memory
    /\ \A x \in Words : v[x] = IF x = prev + 2 THEN a ELSE IF x = a + 2 THEN f ELSE u[x]

PlacedCells(v, u, A, F, s, a, f, prev) ==
    /\ v \in Memory /\ v[0] = u[0] /\ v[1] = IF prev = -1 THEN a ELSE u[1]
    /\ \A q \in A : v[q] = u[q] /\ v[q + 1] = u[q + 1] /\ v[q + 2] = u[q + 2]
    /\ \A q \in F : v[q + 1] = u[q + 1] /\ v[q + 2] = IF q = prev THEN a ELSE u[q + 2]
    /\ v[a + 1] = s[a] /\ v[a + 2] = f /\ v[prev + 2] = a

\* Where the headers of a, f and prev lie.
LEMMA SpotFact ==
    ASSUME NEW u, NEW A, NEW F, NEW s, NEW r, NEW a, NEW f, NEW prev,
           Spot(u, A, F, s, r, a, f, prev)
    PROVE  /\ u \in Memory /\ u[a + 1] = s[a] /\ s[a] \in Nat /\ 3 <= s[a]
           /\ a \in Nat /\ 2 <= a /\ a \in Words /\ a + 1 \in Words /\ a + 2 \in Words
           /\ f \in F /\ f \in Nat /\ f + 1 \in Words /\ f + 2 \in Words /\ a + 3 <= f
           /\ prev + 2 \in Words /\ 0 \in Words /\ 1 \in Words
           /\ \/ prev = -1 /\ u[1] = f
              \/ prev \in F /\ prev \in Nat /\ 2 <= prev /\ prev + 1 \in Words /\ prev + 3 <= a
           /\ a \notin F /\ a \notin A /\ prev # a
<1>0. /\ u \in Memory /\ Tiles((A \cup F) \cup {a}, s) /\ u[a + 1] = s[a]
      /\ f \in F /\ a < f /\ prev \in F \cup {-1} /\ u[prev + 2] = f /\ prev < a
      /\ a \notin F /\ a \notin A
    BY DEF Spot, Half
<1>1. /\ s[a] \in Nat /\ 3 <= s[a]
      /\ a \in Nat /\ 2 <= a /\ a \in Words /\ a + 1 \in Words /\ a + 2 \in Words
    BY <1>0, TileAt
<1>2. f \in Nat /\ f + 1 \in Words /\ f + 2 \in Words
    BY <1>0, TileAt
<1>3. a + s[a] <= f
    BY <1>0 DEF Tiles
<1>4. 0 \in Words /\ 1 \in Words
    BY HeapAssumption DEF Words
<1>5. CASE prev = -1
    BY <1>0, <1>1, <1>2, <1>3, <1>4, <1>5
<1>6. CASE prev \in F
  <2>1. prev \in Nat /\ 2 <= prev /\ prev + 1 \in Words /\ prev + 2 \in Words
        /\ s[prev] \in Nat /\ 3 <= s[prev]
      BY <1>0, <1>6, TileAt
  <2>2. prev + s[prev] <= a
      BY <1>0, <1>6 DEF Tiles
  <2> QED
      BY <1>0, <1>1, <1>2, <1>3, <1>4, <1>6, <2>1, <2>2
<1> QED
    BY <1>0, <1>5, <1>6

\* The other headers.
LEMMA SpotOther ==
    ASSUME NEW u, NEW A, NEW F, NEW s, NEW r, NEW a, NEW f, NEW prev,
           Spot(u, A, F, s, r, a, f, prev), NEW q \in A \cup F
    PROVE  /\ q \in Nat /\ 2 <= q /\ q \in Words /\ q + 1 \in Words /\ q + 2 \in Words
           /\ q + 3 <= a \/ a + 3 <= q
           /\ prev \in F /\ q # prev => q + 3 <= prev \/ prev + 3 <= q
           /\ q # f => q + 3 <= f \/ f + 3 <= q
<1>0. /\ u \in Memory /\ Tiles((A \cup F) \cup {a}, s) /\ a \notin A \cup F /\ f \in F
    BY DEF Spot, Half
<1>1. /\ q \in (A \cup F) \cup {a} /\ a \in (A \cup F) \cup {a} /\ q # a
      /\ f \in (A \cup F) \cup {a}
      /\ prev \in F => prev \in (A \cup F) \cup {a}
    BY <1>0
<1>2. q \in Nat /\ 2 <= q /\ q \in Words /\ q + 1 \in Words /\ q + 2 \in Words
    BY <1>0, <1>1, TileAt
<1>3. q + 3 <= a \/ a + 3 <= q
    BY <1>0, <1>1, LooseNodes, Zenon
<1>4. prev \in F /\ q # prev => q + 3 <= prev \/ prev + 3 <= q
    BY <1>0, <1>1, LooseNodes, Zenon
<1>5. q # f => q + 3 <= f \/ f + 3 <= q
    BY <1>0, <1>1, LooseNodes, Zenon
<1> QED
    BY <1>2, <1>3, <1>4, <1>5

\* Placing a node leaves all other headers alone.
LEMMA PlacedFact ==
    ASSUME NEW u, NEW A, NEW F, NEW s, NEW r, NEW a, NEW f, NEW prev,
           Spot(u, A, F, s, r, a, f, prev), NEW v, Placed(v, u, a, f, prev)
    PROVE  PlacedCells(v, u, A, F, s, a, f, prev)
<1>1. /\ u \in Memory /\ u[a + 1] = s[a] /\ s[a] \in Nat /\ 3 <= s[a]
      /\ a \in Nat /\ 2 <= a /\ a \in Words /\ a + 1 \in Words /\ a + 2 \in Words
      /\ prev + 2 \in Words /\ 0 \in Words /\ 1 \in Words
      /\ \/ prev = -1 /\ u[1] = f
         \/ prev \in F /\ prev \in Nat /\ 2 <= prev /\ prev + 3 <= a
    BY SpotFact
<1>2. v \in Memory /\ v[0] = u[0] /\ v[1] = IF prev = -1 THEN a ELSE u[1]
    BY <1>1 DEF Placed
<1>3. v[a + 1] = s[a] /\ v[a + 2] = f /\ v[prev + 2] = a
    BY <1>1 DEF Placed
<1>5. ASSUME NEW q \in A \cup F
      PROVE  /\ q # prev => v[q] = u[q]
             /\ v[q + 1] = u[q + 1] /\ v[q + 2] = IF q = prev THEN a ELSE u[q + 2]
  <2>1. /\ q \in Nat /\ 2 <= q /\ q \in Words /\ q + 1 \in Words /\ q + 2 \in Words
        /\ q + 3 <= a \/ a + 3 <= q
        /\ prev \in F /\ q # prev => q + 3 <= prev \/ prev + 3 <= q
      BY SpotOther
  <2>2. CASE prev = -1
      BY <1>1, <2>1, <2>2 DEF Placed
  <2>3. CASE prev \in F /\ prev \in Nat /\ 2 <= prev /\ prev + 3 <= a
      BY <1>1, <2>1, <2>3 DEF Placed
  <2> QED
      BY <1>1, <2>2, <2>3
<1>6. A \cap F = {} /\ -1 \notin A
  <2>1. A \cap F = {}
      BY DEF Spot, Half
  <2>2. \A q \in A : q \in Nat
      BY SpotOther
  <2> QED
      BY <2>1, <2>2
<1>7. \A q \in A : q # prev
    BY <1>1, <1>6
<1> QED
    BY <1>2, <1>3, <1>5, <1>7 DEF PlacedCells

\* With the node in its place the list is in order.
LEMMA PlacedSorted ==
    ASSUME NEW u, NEW A, NEW F, NEW s, NEW r, NEW a, NEW f, NEW prev,
           Spot(u, A, F, s, r, a, f, prev), NEW v, PlacedCells(v, u, A, F, s, a, f, prev)
    PROVE  Chain(v, v[1], F \cup {a}, Offsets)
<1>0. /\ u \in Memory /\ Chain(u, u[1], F, Offsets) /\ a < f /\ u[prev + 2] = f /\ prev < a
      /\ Tiles((A \cup F) \cup {a}, s)
    BY DEF Spot, Half
<1>1. Sorted(u, u[1], F)
    BY <1>0, OffsetChain
<1>2. /\ a \in Nat /\ f \in Nat /\ f # 0
      /\ \/ prev = -1 /\ u[1] = f
         \/ prev \in F /\ prev \in Nat
    BY <1>0, SpotFact
<1>3. MANAGER <= a /\ a + NODE <= HEAP_SIZE
  <2>1. 2 <= a /\ a + 3 <= HEAP_SIZE
      BY <1>0, TileAt
  <2> QED
      BY <2>1 DEF MANAGER, NODE
<1>4. /\ v \in Memory /\ v[1] = IF prev = -1 THEN a ELSE u[1]
      /\ \A q \in F : v[q + 2] = IF q = prev THEN a ELSE u[q + 2]
      /\ v[a + 2] = f
    BY DEF PlacedCells
<1>5. CASE prev = -1 /\ u[1] = f
  <2>1. prev \notin F
    <3>1. \A q \in F : q \in Nat
        BY <1>1, SortedAt
    <3> QED
        BY <1>5, <3>1
  <2>2. \A q \in F : v[q + 2] = u[q + 2]
      BY <1>4, <2>1
  <2>3. v[1] = a /\ v[a + 2] = u[1] /\ a < u[1]
      BY <1>0, <1>4, <1>5
  <2>4. Sorted(v, a, F \cup {a})
      BY <1>1, <1>2, <1>3, <2>2, <2>3, SortedPrepend, Zenon
  <2> QED
      BY <1>4, <2>3, <2>4, OffsetChain
<1>6. CASE prev \in F /\ prev \in Nat
  <2>1. v[1] = u[1]
      BY <1>4, <1>6
  <2>2. v[a + 2] = u[prev + 2] /\ u[prev + 2] # 0 /\ a < u[prev + 2]
      BY <1>0, <1>2, <1>4
  <2>3. Sorted(v, u[1], F \cup {a})
      BY <1>0, <1>1, <1>2, <1>3, <1>4, <1>6, <2>2, SortedInsert, Zenon
  <2> QED
      BY <1>4, <2>1, <2>3, OffsetChain
<1> QED
    BY <1>2, <1>5, <1>6

PlacedGood(v, u, A, F, s, r, a, f, prev) ==
    /\ Loose(v, A, F \cup {a}, s, r)
    /\ Live(v, A) = Live(u, A)
    /\ v[a + 2] = f /\ v[prev + 2] = a
    /\ \A q \in F \ {prev} : Tight(v, s, q)

\* With the node in its place every block is on a list again.
LEMMA PlacedLoose ==
    ASSUME NEW u, NEW A, NEW F, NEW s, NEW r, NEW a, NEW f, NEW prev,
           Spot(u, A, F, s, r, a, f, prev), NEW v, Placed(v, u, a, f, prev)
    PROVE  PlacedGood(v, u, A, F, s, r, a, f, prev)
<1>0. /\ u \in Memory /\ s \in Sizes /\ r \in Ranks /\ Chain(u, u[1], F, Offsets)
      /\ Tiles((A \cup F) \cup {a}, s) /\ A \cap F = {} /\ a \notin A \cup F
      /\ Chain(u, u[0], A, r) /\ Allocs(u, A, s) /\ Frees(u, F, s)
    BY DEF Spot, Half
<1>1. PlacedCells(v, u, A, F, s, a, f, prev)
    BY PlacedFact, Zenon
<1>2. Chain(v, v[1], F \cup {a}, Offsets)
    BY <1>1, PlacedSorted, Zenon
<1>3. /\ v \in Memory /\ v[0] = u[0]
      /\ \A q \in A : v[q] = u[q] /\ v[q + 1] = u[q + 1] /\ v[q + 2] = u[q + 2]
      /\ \A q \in F : v[q + 1] = u[q + 1] /\ v[q + 2] = IF q = prev THEN a ELSE u[q + 2]
      /\ v[a + 1] = s[a] /\ v[a + 2] = f /\ v[prev + 2] = a
    BY <1>1 DEF PlacedCells
<1>4. Chain(v, v[0], A, r)
  <2>1. \A q \in A : v[q + 2] = u[q + 2]
      BY <1>3
  <2> QED
      BY <1>0, <1>3, <2>1, ChainSame
<1>5. Allocs(v, A, s)
    BY <1>0, <1>3 DEF Allocs
<1>6. \A q \in F \cup {a} : v[q + 1] = s[q]
    BY <1>0, <1>3 DEF Frees
<1>8. A \cap (F \cup {a}) = {} /\ Tiles(A \cup (F \cup {a}), s)
  <2>1. A \cup (F \cup {a}) = (A \cup F) \cup {a}
      OBVIOUS
  <2> QED
      BY <1>0, <2>1
<1>9. Loose(v, A, F \cup {a}, s, r)
    BY <1>0, <1>2, <1>3, <1>4, <1>5, <1>6, <1>8 DEF Loose
<1>10. Live(v, A) = Live(u, A)
    BY <1>3 DEF Live
<1>11. ASSUME NEW q \in F \ {prev} PROVE Tight(v, s, q)
  <2>1. v[q + 2] = u[q + 2]
      BY <1>3
  <2>2. u[q + 2] # 0 => u[q + 2] \in F /\ q < u[q + 2]
      BY <1>0, OffsetChain, SortedAt
  <2>3. u[q + 2] # 0 => q + s[q] < u[q + 2]
      BY <1>0, <2>2 DEF Frees
  <2>4. q \in Nat /\ s[q] \in Nat
      BY <1>0, TileAt
  <2>5. u[q + 2] # 0 => u[q + 2] \in Nat
      BY <1>0, <2>2, TileAt
  <2> QED
      BY <2>1, <2>3, <2>4, <2>5 DEF Tight
<1> QED
    BY <1>3, <1>9, <1>10, <1>11 DEF PlacedGood

\* Node a is put in its place, and the node behind it joined to it.
Added(n, u, A, F, s, r, a, prev) ==
    \E G, t :
        /\ Loose(n, A, G, t, r) /\ a \in G
        /\ Live(n, A) = Live(u, A)
        /\ \A q \in G \ {prev} : Tight(n, t, q)
        /\ n[prev + 2] = a
        /\ prev # -1 => prev \in G /\ t[prev] = s[prev]

\* The part that AddInFront and AddBehind share.
LEMMA AddedFact ==
    ASSUME NEW u, NEW A, NEW F, NEW s, NEW r, NEW a, NEW f, NEW prev,
           Spot(u, A, F, s, r, a, f, prev)
    PROVE  Added(Wr(IF a + s[a] = f THEN Join(u, a, f) ELSE Wr(u, a + 2, f), prev + 2, a),
                 u, A, F, s, r, a, prev)
<1> DEFINE m1 == Wr(u, a + 2, f)
           v == Wr(m1, prev + 2, a)
<1>0. /\ u \in Memory /\ u[a + 1] = s[a] /\ s[a] \in Nat /\ 3 <= s[a]
      /\ a \in Nat /\ 2 <= a /\ a \in Words /\ a + 1 \in Words /\ a + 2 \in Words
      /\ f \in F /\ f \in Nat /\ f + 1 \in Words /\ f + 2 \in Words /\ a + 3 <= f
      /\ prev + 2 \in Words
      /\ \/ prev = -1
         \/ prev \in F /\ prev \in Nat /\ prev + 3 <= a
      /\ a \notin F /\ prev # a
    BY SpotFact
<1>1. Written(m1, u, a + 2, f)
    BY <1>0, WrFact, Zenon
<1>2. Written(v, m1, prev + 2, a)
  <2> HIDE DEF m1
  <2> QED
      BY <1>0, <1>1, WrFact, WrMemory, Zenon
<1>3. Placed(v, u, a, f, prev)
  <2> HIDE DEF m1, v
  <2> QED
      BY <1>1, <1>2 DEF Written, Placed
<1>4. PlacedGood(v, u, A, F, s, r, a, f, prev)
    BY <1>3, PlacedLoose, Zenon
<1>5. /\ Loose(v, A, F \cup {a}, s, r) /\ Live(v, A) = Live(u, A)
      /\ v[a + 2] = f /\ v[prev + 2] = a
      /\ \A q \in F \ {prev} : Tight(v, s, q)
    BY <1>4 DEF PlacedGood
<1>6. CASE a + s[a] # f
  <2> HIDE DEF m1, v
  <2>1. Tight(v, s, a)
      BY <1>5, <1>6 DEF Tight
  <2>2. \A q \in (F \cup {a}) \ {prev} : Tight(v, s, q)
      BY <1>5, <2>1
  <2>3. prev # -1 => prev \in F \cup {a} /\ s[prev] = s[prev]
      BY <1>0
  <2>4. a \in F \cup {a}
      OBVIOUS
  <2>5. Added(v, u, A, F, s, r, a, prev)
      BY <1>5, <2>2, <2>3, <2>4, Zenon DEF Added
  <2> QED
      BY <1>6, <2>5 DEF v, m1
<1>7. CASE a + s[a] = f
  <2> DEFINE j == Join(u, a, f)
             n == Wr(j, prev + 2, a)
             G == (F \cup {a}) \ {f}
             t == [s EXCEPT ![a] = s[a] + s[f]]
  <2>1. Joins(j, u, a, f)
      BY <1>0, JoinFact, Zenon
  <2>2. j \in Memory
      BY <2>1 DEF Joins
  <2>3. Written(n, j, prev + 2, a)
    <3> HIDE DEF j
    <3> QED
        BY <1>0, <2>2, WrFact, Zenon
  <2> HIDE DEF m1, v, j, n
  <2>4. Joins(n, v, a, f)
    <3>1. n \in Memory
        BY <2>3, WrMemory
    <3>2. v[f + 1] = u[f + 1] /\ v[f + 2] = u[f + 2] /\ v[a + 1] = u[a + 1]
        BY <1>0, <1>3 DEF Placed
    <3>3. ASSUME NEW x \in Words
          PROVE  n[x] = IF x = f + 2 \/ x = f + 1 THEN 0
                        ELSE IF x = a + 2 THEN v[f + 2]
                        ELSE IF x = a + 1 THEN v[a + 1] + v[f + 1]
                        ELSE v[x]
      <4>1. n[x] = IF x = prev + 2 THEN a ELSE j[x]
          BY <2>3 DEF Written
      <4>2. j[x] = IF x = f + 2 \/ x = f + 1 THEN 0
                   ELSE IF x = a + 2 THEN u[f + 2]
                   ELSE IF x = a + 1 THEN u[a + 1] + u[f + 1]
                   ELSE u[x]
          BY <2>1 DEF Joins
      <4>3. v[x] = IF x = prev + 2 THEN a ELSE IF x = a + 2 THEN f ELSE u[x]
          BY <1>3 DEF Placed
      <4>4. /\ prev + 2 # a + 2 /\ prev + 2 # a + 1 /\ prev + 2 # f + 2 /\ prev + 2 # f + 1
          BY <1>0
      <4> QED
          BY <3>2, <4>1, <4>2, <4>3, <4>4
    <3> QED
        BY <3>1, <3>3 DEF Joins
  <2>5. a \in F \cup {a} /\ f \in F \cup {a} /\ a # f /\ prev # f
      BY <1>0
  <2>6. Joined(n, v, A, F \cup {a}, s, t, r, a, f)
      BY <1>5, <1>7, <2>4, <2>5, JoinedLoose, Zenon
  <2>7. /\ Loose(n, A, G, t, r) /\ Live(n, A) = Live(u, A)
        /\ \A q \in (F \cup {a}) \ {a, f} : Tight(v, s, q) => Tight(n, t, q)
        /\ Tight(v, s, f) => Tight(n, t, a)
      BY <1>5, <2>6 DEF Joined
  <2>8. n[prev + 2] = a
      BY <1>0, <2>3 DEF Written
  <2>9. \A q \in G \ {prev} : Tight(n, t, q)
    <3>1. Tight(v, s, f)
        BY <1>0, <1>5, <2>5
    <3> QED
        BY <1>5, <2>7, <3>1
  <2>10. prev # -1 => prev \in G /\ t[prev] = s[prev]
    <3> SUFFICES ASSUME prev # -1 PROVE prev \in G /\ t[prev] = s[prev]
        OBVIOUS
    <3>1. prev \in F /\ s \in Sizes /\ prev \in Words
      <4>1. s \in Sizes /\ prev \in F
          BY <1>0 DEF Spot, Half
      <4> QED
          BY <4>1, SpotOther
    <3> QED
        BY <2>5, <3>1, <1>0 DEF Sizes
  <2>11. a \in G
      BY <2>5
  <2>12. Added(n, u, A, F, s, r, a, prev)
    <3> HIDE DEF G, t
    <3> QED
        BY <2>7, <2>8, <2>9, <2>10, <2>11, Zenon DEF Added
  <2> QED
      BY <1>7, <2>12 DEF n, j
<1> QED
    BY <1>6, <1>7

\* A node in front of all freed nodes is put back.
LEMMA AddInFrontGood ==
    ASSUME NEW u, NEW A, NEW F, NEW s, NEW r, NEW a,
           Half(u, A, F, s, r, a), a < u[1]
    PROVE  InUse(AddInFront(u, a), Live(u, A))
<1> DEFINE f == u[1]
           n == Wr(IF a + s[a] = f THEN Join(u, a, f) ELSE Wr(u, a + 2, f), -1 + 2, a)
<1>0. Tiles((A \cup F) \cup {a}, s) /\ u[a + 1] = s[a] /\ f \in F
    BY DEF Half, Chain
<1>1. a \in Nat /\ a + 1 \in Words /\ a + 2 \in Words
    BY <1>0, TileAt
<1>2. Spot(u, A, F, s, r, a, f, -1)
  <2>1. -1 < a /\ -1 \in F \cup {-1} /\ -1 + 2 = 1
      BY <1>1
  <2> QED
      BY <1>0, <2>1 DEF Spot
<1>3. AddInFront(u, a) = n
  <2>1. BufferSize(u, a) = s[a]
      BY <1>0, <1>1, RdFact
  <2>2. -1 + 2 = 1
      OBVIOUS
  <2> QED
      BY <2>1, <2>2 DEF AddInFront, StartOfFreedNodes
<1>4. Added(n, u, A, F, s, r, a, -1)
  <2> HIDE DEF f
  <2> QED
      BY <1>2, AddedFact, Zenon
<1> HIDE DEF n
<1>5. PICK G, t : /\ Loose(n, A, G, t, r) /\ a \in G
                  /\ Live(n, A) = Live(u, A)
                  /\ \A q \in G \ {-1} : Tight(n, t, q)
    BY <1>4, Zenon DEF Added
<1>6. -1 \notin G
  <2>1. Tiles(A \cup G, t)
      BY <1>5 DEF Loose
  <2>2. \A q \in G : q \in Nat
      BY <2>1, TileAt
  <2> QED
      BY <2>2
<1>7. Good(n, A, G, t, r)
    BY <1>5, <1>6, LooseGood
<1> QED
    BY <1>3, <1>5, <1>7 DEF InUse

\* A node behind the first freed node is put back, and the loop that looks for
\* its place ends.
LEMMA AddBehindGood ==
    ASSUME NEW u, NEW A, NEW F, NEW s, NEW r, NEW a,
           Half(u, A, F, s, r, a), u[1] < a, NEW z \in F, a < z
    PROVE  Stops(u, a) # {} /\ InUse(AddBehind(u, a), Live(u, A))
<1> DEFINE next == Behind(u, a).next
           prev == Behind(u, a).prev
           m1 == IF a + s[a] = next THEN Join(u, a, next) ELSE Wr(u, a + 2, next)
           v == Wr(m1, prev + 2, a)
<1>0. /\ Tiles((A \cup F) \cup {a}, s) /\ u[a + 1] = s[a] /\ u \in Memory
      /\ Chain(u, u[1], F, Offsets) /\ Frees(u, F, s) /\ a \notin F
    BY DEF Half
<1>1. a \in Nat /\ a + 1 \in Words /\ a + 2 \in Words /\ s[a] \in Nat /\ 3 <= s[a]
      /\ a + s[a] <= HEAP_SIZE /\ HEAP_SIZE \in Nat
    BY <1>0, TileAt
<1>4. /\ Stops(u, a) # {}
      /\ prev \in F /\ prev < a /\ next \in F /\ a <= next /\ u[prev + 2] = next
  <2>1. u[1] \in Nat
    <3>1. u[1] \in F
        BY <1>0 DEF Chain
    <3> QED
        BY <1>0, <3>1, TileAt
  <2> QED
      BY <1>0, <1>1, <2>1, BehindFact
<1>5. AddBehind(u, a) = IF prev + BufferSize(m1, prev) = a
                        THEN LET m2 == Wr(m1, prev + 2, NextNodeOffset(m1, a))
                                 m3 == Wr(m2, prev + 1, BufferSize(m2, prev) + BufferSize(m2, a))
                             IN  Wr(Wr(m3, a + 1, 0), a + 2, 0)
                        ELSE v
  <2>1. BufferSize(u, a) = s[a]
      BY <1>0, <1>1, RdFact
  <2>2. next = a + s[a] <=> a + s[a] = next
      OBVIOUS
  <2> HIDE DEF next, prev
  <2> QED
      BY <2>1, <2>2 DEF AddBehind, next, prev
<1> HIDE DEF next, prev
<1>6. prev \in Nat /\ prev \in Words /\ prev + 1 \in Words /\ prev + 2 \in Words /\ next \in Nat
      /\ next + 1 \in Words /\ next + 2 \in Words /\ prev # a /\ next # a
    BY <1>0, <1>4, TileAt
<1>7. Spot(u, A, F, s, r, a, next, prev)
  <2>1. a < next
      BY <1>1, <1>4, <1>6
  <2> QED
      BY <1>4, <2>1 DEF Spot
<1>8. Added(v, u, A, F, s, r, a, prev)
    BY <1>7, AddedFact, Zenon
<1>9. m1 \in Memory
  <2>1. a + 3 <= next
      BY <1>7, SpotFact
  <2>2. CASE a + s[a] = next
    <3>1. Joins(Join(u, a, next), u, a, next)
        BY <1>0, <1>1, <1>6, <2>1, JoinFact
    <3> QED
        BY <2>2, <3>1 DEF Joins
  <2>3. CASE a + s[a] # next
    <3>1. Written(Wr(u, a + 2, next), u, a + 2, next)
        BY <1>0, <1>1, <1>6, WrFact, Zenon
    <3> QED
        BY <2>3, <3>1 DEF Written
  <2> QED
      BY <2>2, <2>3
<1> HIDE DEF m1
<1>10. Written(v, m1, prev + 2, a)
    BY <1>1, <1>6, <1>9, WrFact, Zenon
<1>11. PICK G, t : /\ Loose(v, A, G, t, r) /\ a \in G
                   /\ Live(v, A) = Live(u, A)
                   /\ \A q \in G \ {prev} : Tight(v, t, q)
                   /\ v[prev + 2] = a
                   /\ prev # -1 => prev \in G /\ t[prev] = s[prev]
    BY <1>8, Zenon DEF Added
<1> HIDE DEF v
<1>12. prev \in G /\ t[prev] = s[prev] /\ prev # -1
    BY <1>6, <1>11
<1>13. v[prev + 1] = t[prev] /\ v[a + 1] = t[a] /\ v \in Memory /\ Tiles(A \cup G, t)
    BY <1>11, <1>12 DEF Loose
<1>14. prev + 3 <= a
  <2>1. prev + s[prev] <= a /\ s[prev] \in Nat /\ 3 <= s[prev]
    <3>1. prev + s[prev] <= a
        BY <1>0, <1>4 DEF Tiles
    <3> QED
        BY <1>0, <1>4, <3>1, TileAt
  <2> QED
      BY <1>1, <1>6, <2>1
<1>15. m1[prev + 1] = v[prev + 1] /\ m1[a + 1] = v[a + 1] /\ m1[a + 2] = v[a + 2]
    BY <1>1, <1>6, <1>10, <1>14 DEF Written
<1>16. BufferSize(m1, prev) = t[prev]
    BY <1>6, <1>13, <1>15, RdFact
<1>17. CASE prev + t[prev] # a
  <2>1. Tight(v, t, prev)
      BY <1>11, <1>17 DEF Tight
  <2>2. \A q \in G : Tight(v, t, q)
      BY <1>11, <2>1
  <2>3. Good(v, A, G, t, r)
      BY <1>11, <2>2, LooseGood
  <2>4. AddBehind(u, a) = v
      BY <1>5, <1>16, <1>17
  <2> QED
      BY <1>4, <1>11, <2>3, <2>4 DEF InUse
<1>18. CASE prev + t[prev] = a
  <2> DEFINE m2 == Wr(m1, prev + 2, m1[a + 2])
             m3 == Wr(m2, prev + 1, m1[prev + 1] + m1[a + 1])
             m4 == Wr(m3, a + 1, 0)
             n == Wr(m4, a + 2, 0)
             k == [t EXCEPT ![prev] = t[prev] + t[a]]
  <2>0. m1[a + 2] \in Nat /\ m1[prev + 1] + m1[a + 1] \in Nat /\ 0 \in Nat
      BY <1>1, <1>6, <1>9 DEF Memory
  <2>1. Written(m2, m1, prev + 2, m1[a + 2])
      BY <1>6, <1>9, <2>0, WrFact, Zenon
  <2>2. AddBehind(u, a) = n
    <3>1. NextNodeOffset(m1, a) = m1[a + 2]
        BY <1>1, RdFact
    <3>2. BufferSize(m2, prev) = m1[prev + 1] /\ BufferSize(m2, a) = m1[a + 1]
      <4> HIDE DEF m2
      <4>1. BufferSize(m2, prev) = m2[prev + 1] /\ BufferSize(m2, a) = m2[a + 1]
          BY <1>1, <1>6, RdFact
      <4> QED
          BY <1>1, <1>6, <1>14, <2>1, <4>1 DEF Written
    <3> QED
        BY <1>5, <1>16, <1>18, <3>1, <3>2
  <2>3. Written(m3, m2, prev + 1, m1[prev + 1] + m1[a + 1])
    <3> HIDE DEF m2
    <3> QED
        BY <1>6, <2>0, <2>1, WrFact, WrMemory, Zenon
  <2>4. Written(m4, m3, a + 1, 0)
    <3> HIDE DEF m3
    <3> QED
        BY <1>1, <2>0, <2>3, WrFact, WrMemory, Zenon
  <2>5. Written(n, m4, a + 2, 0)
    <3> HIDE DEF m4
    <3> QED
        BY <1>1, <2>0, <2>4, WrFact, WrMemory, Zenon
  <2> HIDE DEF m2, m3, m4, n
  <2>6. Joins(n, v, prev, a)
    <3>1. n \in Memory
        BY <2>5, WrMemory
    <3>2. ASSUME NEW x \in Words
          PROVE  n[x] = IF x = a + 2 \/ x = a + 1 THEN 0
                        ELSE IF x = prev + 2 THEN v[a + 2]
                        ELSE IF x = prev + 1 THEN v[prev + 1] + v[a + 1]
                        ELSE v[x]
      <4>1. /\ n[x] = IF x = a + 2 THEN 0 ELSE m4[x]
            /\ m4[x] = IF x = a + 1 THEN 0 ELSE m3[x]
            /\ m3[x] = IF x = prev + 1 THEN m1[prev + 1] + m1[a + 1] ELSE m2[x]
            /\ m2[x] = IF x = prev + 2 THEN m1[a + 2] ELSE m1[x]
            /\ v[x] = IF x = prev + 2 THEN a ELSE m1[x]
          BY <1>10, <2>1, <2>3, <2>4, <2>5 DEF Written
      <4>2. prev + 1 # prev + 2
          BY <1>6
      <4> QED
          BY <1>15, <4>1, <4>2
    <3> QED
        BY <3>1, <3>2 DEF Joins
  <2>7. Joined(n, v, A, G, t, k, r, prev, a)
      BY <1>11, <1>12, <1>18, <2>6, JoinedLoose, Zenon
  <2> HIDE DEF k
  <2>8. /\ Loose(n, A, G \ {a}, k, r) /\ Live(n, A) = Live(u, A)
        /\ \A q \in G \ {prev, a} : Tight(v, t, q) => Tight(n, k, q)
        /\ Tight(v, t, a) => Tight(n, k, prev)
      BY <1>11, <2>7 DEF Joined
  <2>9. \A q \in G \ {a} : Tight(n, k, q)
      BY <1>6, <1>11, <2>8
  <2>10. Good(n, A, G \ {a}, k, r)
      BY <2>8, <2>9, LooseGood
  <2> QED
      BY <1>4, <2>2, <2>8, <2>10 DEF InUse
<1> QED
    BY <1>17, <1>18

\* BiosDeallocateBuffer on a heap in use: it ends, and the heap is in use by the
\* buffers with other handles.
LEMMA DeallocateGood ==
    ASSUME NEW m, NEW A, NEW F, NEW s, NEW r, Good(m, A, F, s, r),
           NEW h, ~OutOfOrder(m, h)
    PROVE  /\ DeallocateEnds(m, h)
           /\ InUse(Deallocate(m, h), {b \in Live(m, A) : b.handle # h})
<1> DEFINE a == Find(m, h).node
           u == Freed(m, h)
<1>0. m \in Memory /\ r \in Ranks /\ Chain(m, m[0], A, r) /\ Tiles(A \cup F, s)
    BY DEF Good
<1>1. m[0] \in Nat /\ m[1] \in Nat
    BY GoodHeads
<1>2. \/ a = 0 /\ \A o \in A : m[o] # h
      \/ FoundIn(A, m, m[0], Find(m, h)) /\ m[a] = h /\ a # 0
    BY <1>0, <1>1, FindFact
<1>3. CASE a = 0 /\ \A o \in A : m[o] # h
  <2>1. DeallocateEnds(m, h) /\ Deallocate(m, h) = m
      BY <1>3 DEF DeallocateEnds, Deallocate
  <2>2. Live(m, A) = {b \in Live(m, A) : b.handle # h}
      BY <1>3 DEF Live, Buffer
  <2> QED
      BY <2>1, <2>2 DEF InUse
<1>4. CASE FoundIn(A, m, m[0], Find(m, h)) /\ m[a] = h /\ a # 0
  <2> DEFINE prev == Find(m, h).prev
  <2>0. /\ a # m[0]
        /\ \E o \in Nodes(Walk(m, StartOfFreedNodes(m))) : ~(o <= a)
      BY <1>4 DEF OutOfOrder, StartOfAllocatedNodes
  <2>1. a \in A /\ prev \in A /\ m[prev + 2] = a /\ a # m[0]
      BY <1>4, <2>0 DEF FoundIn
  <2>2. u = Unlink(m, a, prev)
      BY DEF Freed
  <2>3. /\ Deallocate(m, h) = IF a < u[1] THEN AddInFront(u, a) ELSE AddBehind(u, a)
        /\ DeallocateEnds(m, h) <=> a < u[1] \/ Stops(u, a) # {}
      BY <1>4 DEF Deallocate, DeallocateEnds, StartOfFreedNodes
  <2> HIDE DEF a, prev, u
  <2>7. PICK z \in F : a < z
    <3>1. Nodes(Walk(m, StartOfFreedNodes(m))) = F
        BY GoodWalks DEF Walks
    <3>2. PICK z \in F : ~(z <= a)
        BY <2>0, <3>1
    <3>3. z \in Nat /\ a \in Nat
        BY <1>0, <2>1, TileAt
    <3> QED
        BY <3>2, <3>3
  <2>4. /\ Half(u, A \ {a}, F, s, r, a)
        /\ Live(u, A \ {a}) = {b \in Live(m, A) : b.handle # h}
        /\ u[1] = m[1]
    <3>1. Unlinked(u, m, A, F, s, r, a)
        BY <2>1, <2>2, UnlinkGood, Zenon
    <3> QED
        BY <1>4, <3>1 DEF Unlinked
  <2>5. CASE a < u[1]
    <3>1. InUse(AddInFront(u, a), Live(u, A \ {a}))
        BY <2>4, <2>5, AddInFrontGood
    <3> QED
        BY <2>3, <2>4, <2>5, <3>1
  <2>6. CASE ~(a < u[1])
    <3>1. u[1] < a
      <4>1. a \in Nat /\ a \notin F /\ m[1] \in F
          BY <1>0, <2>1, <2>7, TileAt, GoodFreed DEF Good
      <4> QED
          BY <1>1, <2>4, <2>6, <4>1
    <3>2. Stops(u, a) # {} /\ InUse(AddBehind(u, a), Live(u, A \ {a}))
        BY <2>4, <2>7, <3>1, AddBehindGood
    <3> QED
        BY <2>3, <2>4, <2>6, <3>2
  <2> QED
      BY <2>5, <2>6
<1> QED
    BY <1>2, <1>3, <1>4

-----------------------------------------------------------------------------
\* A heap that is not in use: every walk is at the end at once.
Empty == [o \in Words |-> 0]

\* Nothing is found in an empty heap, and its lists end.
LEMMA EmptyFact ==
    /\ Empty \in Memory /\ Empty[0] = 0 /\ Empty[1] = 0
    /\ \A i \in Steps : Walk(Empty, 0)[i] = 0
    /\ Ends(Walk(Empty, 0))
    /\ \A h : Find(Empty, h).node = 0
<1>0. HEAP_SIZE \in Nat /\ HEAP_SIZE \in Steps /\ 0 \in Words /\ 1 \in Words
    BY HeapAssumption DEF Steps, Words
<1>1. Empty \in Memory /\ Empty[0] = 0 /\ Empty[1] = 0
    BY <1>0 DEF Empty, Memory
<1> DEFINE w == Walk(Empty, 0)
<1>6. (\A i \in Steps : w[i] = 0) /\ Ends(w)
    BY <1>1, WalkNone
<1> HIDE DEF w
<1>7. ASSUME NEW h PROVE Find(Empty, h).node = 0
  <2>1. Allocated(Empty) = w
      BY <1>1 DEF Allocated, StartOfAllocatedNodes, w
  <2>2. {i \in Steps : w[i] # 0 /\ BufferHandle(Empty, w[i]) = h} = {}
      BY <1>6
  <2> QED
      BY <2>1, <2>2 DEF Find
<1> QED
    BY <1>1, <1>6, <1>7 DEF w

\* The inductive invariant: until an untested step, the heap is empty, or in use
\* by the live buffers.
Settled == \/ heap = Empty /\ live = {}
           \/ InUse(heap, live)
HeapInv ==
    /\ untested \in BOOLEAN
    /\ untested = FALSE => hung = FALSE /\ Settled

\* The invariant holds at first.
LEMMA InvInit ==
    ASSUME Init
    PROVE  HeapInv
BY DEF Init, HeapInv, Settled, Empty

\* The invariant is kept by an allocation.
LEMMA InvAllocate ==
    ASSUME HeapInv, NEW h \in Handles, NEW len \in Lengths, BiosAllocateBuffer(h, len)
    PROVE  HeapInv'
<1> DEFINE e == Allocate(heap, h, len)
<1>0. untested = FALSE /\ hung = FALSE /\ Settled
    BY DEF HeapInv, BiosAllocateBuffer, Followed
<1>1. ListsEnd
  <2>1. CASE heap = Empty /\ live = {}
      BY <2>1, EmptyFact DEF ListsEnd, Allocated, StartOfAllocatedNodes, StartOfFreedNodes
  <2>2. CASE InUse(heap, live)
    <3>1. PICK A, F, s, r : Good(heap, A, F, s, r)
        BY <2>2 DEF InUse
    <3> QED
        BY <3>1, GoodWalks DEF ListsEnd, Walks
  <2> QED
      BY <1>0, <2>1, <2>2 DEF Settled
<1>2. /\ hung' = FALSE /\ heap' = e.heap
      /\ live' = IF e.node = 0 THEN live ELSE live \cup {Buffer(h, e.node, len)}
      /\ untested' = SmallRest(heap, h, len)
  <2>1. /\ heap' = e.heap /\ untested' = SmallRest(heap, h, len)
        /\ live' = IF e.node = 0 THEN live ELSE live \cup {Buffer(h, e.node, len)}
    <3> HIDE DEF e
    <3> QED
        BY <1>1 DEF BiosAllocateBuffer, e
  <2>2. hung' = FALSE
      BY <1>1, Zenon DEF BiosAllocateBuffer
  <2> QED
      BY <2>1, <2>2
<1>3. SmallRest(heap, h, len) \in BOOLEAN
  <2>1. CASE StartOfAllocatedNodes(heap) = 0
      BY <2>1 DEF SmallRest
  <2>2. CASE StartOfAllocatedNodes(heap) # 0
      BY <2>2 DEF SmallRest
  <2> QED
      BY <2>1, <2>2
<1>4. ASSUME ~SmallRest(heap, h, len) PROVE Settled'
  <2>1. CASE heap = Empty /\ live = {}
    <3>1. e.node # 0 /\ InUse(e.heap, {Buffer(h, e.node, len)})
        BY <1>4, <2>1, FirstGood DEF Empty
    <3> HIDE DEF e
    <3> QED
        BY <1>2, <2>1, <3>1 DEF Settled
  <2>2. CASE InUse(heap, live)
    <3>1. PICK A, F, s, r : Good(heap, A, F, s, r) /\ live = Live(heap, A)
        BY <2>2 DEF InUse
    <3>2. \/ e = Result(heap, 0)
          \/ e.node # 0 /\ InUse(e.heap, live \cup {Buffer(h, e.node, len)})
        BY <1>4, <3>1, AllocateGood
    <3> HIDE DEF e
    <3>3. CASE e = Result(heap, 0)
      <4>1. heap' = heap /\ live' = live
          BY <1>2, <3>3 DEF Result
      <4> QED
          BY <2>2, <4>1 DEF Settled
    <3>4. CASE e.node # 0 /\ InUse(e.heap, live \cup {Buffer(h, e.node, len)})
        BY <1>2, <3>4 DEF Settled
    <3> QED
        BY <3>2, <3>3, <3>4
  <2> QED
      BY <1>0, <2>1, <2>2 DEF Settled
<1> HIDE DEF e
<1> QED
    BY <1>2, <1>3, <1>4 DEF HeapInv

\* The invariant is kept by a deallocation.
LEMMA InvDeallocate ==
    ASSUME HeapInv, NEW h \in Handles, BiosDeallocateBuffer(h)
    PROVE  HeapInv'
<1>0. untested = FALSE /\ hung = FALSE /\ Settled
    BY DEF HeapInv, BiosDeallocateBuffer, Followed
<1>1. OutOfOrder(heap, h) \in BOOLEAN
    BY DEF OutOfOrder
<1>2. CASE heap = Empty /\ live = {}
  <2>1. Find(heap, h).node = 0 /\ Ends(Allocated(heap))
      BY <1>2, EmptyFact DEF Allocated, StartOfAllocatedNodes
  <2>2. DeallocateEnds(heap, h) /\ Deallocate(heap, h) = heap
      BY <2>1 DEF DeallocateEnds, Deallocate
  <2>3. hung' = FALSE /\ heap' = heap /\ live' = {} /\ untested' = OutOfOrder(heap, h)
      BY <1>2, <2>1, <2>2 DEF BiosDeallocateBuffer
  <2> QED
      BY <1>1, <1>2, <2>3 DEF HeapInv, Settled
<1>3. CASE InUse(heap, live)
  <2>1. PICK A, F, s, r : Good(heap, A, F, s, r) /\ live = Live(heap, A)
      BY <1>3 DEF InUse
  <2>2. Ends(Allocated(heap))
      BY <2>1, GoodWalks DEF Walks
  <2>3. CASE OutOfOrder(heap, h)
    <3>1. untested' = TRUE
        BY <1>1, <2>3 DEF BiosDeallocateBuffer
    <3> QED
        BY <3>1 DEF HeapInv
  <2>4. CASE ~OutOfOrder(heap, h)
    <3>1. /\ DeallocateEnds(heap, h)
          /\ InUse(Deallocate(heap, h), {b \in live : b.handle # h})
        BY <2>1, <2>4, DeallocateGood
    <3>2. /\ hung' = FALSE /\ heap' = Deallocate(heap, h)
          /\ live' = {b \in live : b.handle # h} /\ untested' = OutOfOrder(heap, h)
        BY <2>2, <3>1 DEF BiosDeallocateBuffer
    <3> QED
        BY <1>1, <3>1, <3>2 DEF HeapInv, Settled
  <2> QED
      BY <2>3, <2>4
<1> QED
    BY <1>0, <1>2, <1>3 DEF Settled

\* The invariant is kept by every step.
LEMMA InvStep ==
    ASSUME HeapInv, [Next]_vars
    PROVE  HeapInv'
<1>1. CASE \E h \in Handles, len \in Lengths : BiosAllocateBuffer(h, len)
    BY <1>1, InvAllocate
<1>2. CASE \E h \in Handles : BiosDeallocateBuffer(h)
    BY <1>2, InvDeallocate
<1>3. CASE EmptyHeap
  <2>1. heap' = Empty /\ live' = {} /\ hung' = FALSE /\ untested' = FALSE
      BY <1>3 DEF EmptyHeap, HeapInv, Empty
  <2> QED
      BY <2>1 DEF HeapInv, Settled
<1>4. CASE UNCHANGED vars
    BY <1>4 DEF vars, HeapInv, Settled
<1> QED
    BY <1>1, <1>2, <1>3, <1>4 DEF Next

\* Whatever the caller asks for and in whatever order it gives back, through
\* refused calls and restarts on an empty heap, the two lists of fam14_callouts.c
\* partition the words behind the manager into the live buffers and freed nodes
\* of which no two are side by side, until the first step that the code does not
\* test for.
THEOREM Invariance == Spec => []HeapInv
<1>1. Init => HeapInv
    BY InvInit
<1>2. HeapInv /\ [Next]_vars => HeapInv'
    BY InvStep
<1> QED
    BY <1>1, <1>2, PTL DEF Spec

-----------------------------------------------------------------------------
\* The block of a buffer is the buffer with its header.
LEMMA LiveAt ==
    ASSUME NEW m, NEW A, NEW F, NEW s, NEW r, Good(m, A, F, s, r), NEW b \in Live(m, A)
    PROVE  /\ b.node \in A /\ b = Buffer(m[b.node], b.node, m[b.node + 1])
           /\ b.handle = m[b.node] /\ b.len = m[b.node + 1]
           /\ b.handle \in Handles /\ b.len \in Lengths /\ b.node \in Words
           /\ Start(b) = b.node /\ End(b) = b.node + s[b.node]
<1>1. PICK o \in A : b = Buffer(m[o], o, m[o + 1])
    BY DEF Live
<1>2. b.node = o /\ b.handle = m[o] /\ b.len = m[o + 1]
    BY <1>1 DEF Buffer
<1>3. m[o] \in Handles /\ m[o + 1] \in Lengths /\ s[o] = m[o + 1] + NODE
    BY DEF Good, Allocs
<1>4. o \in Nat /\ o \in Words /\ m[o + 1] \in Nat
    BY GoodNodes
<1>5. b.node + NODE + b.len = o + s[o]
    BY <1>2, <1>3, <1>4 DEF NODE
<1> QED
    BY <1>1, <1>2, <1>3, <1>4, <1>5 DEF Start, End

\* Blocks of a heap in use do not overlap.
LEMMA GoodDisjoint ==
    ASSUME InUse(heap, live)
    PROVE  BuffersDisjoint
<1>1. PICK A, F, s, r : Good(heap, A, F, s, r) /\ live = Live(heap, A)
    BY DEF InUse
<1>2. Tiles(A \cup F, s)
    BY <1>1 DEF Good
<1>3. ASSUME NEW b \in live PROVE MANAGER <= Start(b) /\ End(b) <= HEAP_SIZE
  <2>1. b.node \in A /\ Start(b) = b.node /\ End(b) = b.node + s[b.node]
      BY <1>1, LiveAt
  <2> QED
      BY <1>2, <2>1 DEF Tiles
<1>4. ASSUME NEW b \in live, NEW c \in live, b # c
      PROVE  End(b) <= Start(c) \/ End(c) <= Start(b)
  <2>1. /\ b.node \in A /\ Start(b) = b.node /\ End(b) = b.node + s[b.node]
        /\ b = Buffer(heap[b.node], b.node, heap[b.node + 1])
      BY <1>1, LiveAt
  <2>2. /\ c.node \in A /\ Start(c) = c.node /\ End(c) = c.node + s[c.node]
        /\ c = Buffer(heap[c.node], c.node, heap[c.node + 1])
      BY <1>1, LiveAt
  <2>3. b.node # c.node
      BY <1>4, <2>1, <2>2
  <2>4. b.node + s[b.node] <= c.node \/ c.node + s[c.node] <= b.node
      BY <1>2, <2>1, <2>2, <2>3, TilesApart
  <2> QED
      BY <2>1, <2>2, <2>4
<1> QED
    BY <1>3, <1>4 DEF BuffersDisjoint

\* Every buffer of a heap in use is found by its handle.
LEMMA GoodLocatable ==
    ASSUME InUse(heap, live)
    PROVE  Locatable
<1>1. PICK A, F, s, r : Good(heap, A, F, s, r) /\ live = Live(heap, A)
    BY DEF InUse
<1>2. heap \in Memory /\ r \in Ranks /\ Chain(heap, heap[0], A, r) /\ heap[0] \in Nat
    BY <1>1, GoodHeads DEF Good
<1> SUFFICES ASSUME NEW h \in Handles
             PROVE  LET q == BiosLocateBuffer(heap, h) IN
                    IF \E b \in live : b.handle = h
                    THEN \E b \in live : /\ b.handle = h
                                         /\ q = [ptr |-> b.node + NODE, len |-> b.len]
                    ELSE q.ptr = 0
    BY DEF Locatable
<1> DEFINE o == Find(heap, h).node
           q == BiosLocateBuffer(heap, h)
<1>3. \/ o = 0 /\ \A p \in A : heap[p] # h
      \/ FoundIn(A, heap, heap[0], Find(heap, h)) /\ heap[o] = h /\ o # 0
    BY <1>2, FindFact
<1>4. CASE o = 0 /\ \A p \in A : heap[p] # h
  <2>1. q.ptr = 0
      BY <1>4 DEF BiosLocateBuffer
  <2>2. ASSUME NEW b \in live PROVE b.handle # h
      BY <1>1, <1>4, LiveAt
  <2> QED
      BY <2>1, <2>2
<1>5. CASE FoundIn(A, heap, heap[0], Find(heap, h)) /\ heap[o] = h /\ o # 0
  <2> DEFINE b == Buffer(heap[o], o, heap[o + 1])
  <2>1. o \in A
      BY <1>5 DEF FoundIn
  <2>2. q = [ptr |-> o + NODE, len |-> BufferSize(heap, o)]
      BY <1>5 DEF BiosLocateBuffer
  <2> HIDE DEF o, q
  <2>3. BufferSize(heap, o) = heap[o + 1]
    <3>1. o \in Nat /\ o + 1 \in Words /\ o + 2 \in Words
        BY <1>1, <2>1, GoodNodes
    <3> QED
        BY <3>1, RdFact
  <2>4. b \in live /\ b.handle = h /\ b.node = o /\ b.len = heap[o + 1]
      BY <1>1, <1>5, <2>1 DEF Live, Buffer
  <2>5. q = [ptr |-> b.node + NODE, len |-> b.len]
      BY <2>2, <2>3, <2>4
  <2> HIDE DEF b
  <2>6. \E c \in live : c.handle = h /\ q = [ptr |-> c.node + NODE, len |-> c.len]
      BY <2>4, <2>5
  <2> QED
      BY <2>4, <2>6 DEF q
<1> QED
    BY <1>3, <1>4, <1>5

\* The words of a heap in use are accounted for, and its free list in order.
LEMMA GoodSound ==
    ASSUME InUse(heap, live), hung = FALSE, untested \in BOOLEAN
    PROVE  HeapSound
<1>1. PICK A, F, s, r : Good(heap, A, F, s, r) /\ live = Live(heap, A)
    BY DEF InUse
<1>2. Tiles(A \cup F, s) /\ heap \in Memory /\ A \cap F = {} /\ Frees(heap, F, s)
    BY <1>1 DEF Good
<1> DEFINE w == Walk(heap, StartOfFreedNodes(heap))
           of(o) == o .. o + BufferSize(heap, o) - 1
           ob(b) == Start(b) .. End(b) - 1
<1>3. Walks(w, heap, F, Offsets)
    BY <1>1, GoodWalks
<1>4. TypeOK
  <2>1. ASSUME NEW b \in live
        PROVE  b \in [handle : Handles, node : Words, len : Lengths]
    <3>1. /\ b = Buffer(heap[b.node], b.node, heap[b.node + 1])
          /\ b.handle = heap[b.node] /\ b.len = heap[b.node + 1]
          /\ b.handle \in Handles /\ b.len \in Lengths /\ b.node \in Words
        BY <1>1, LiveAt
    <3>2. b = [handle |-> b.handle, node |-> b.node, len |-> b.len]
        BY <3>1 DEF Buffer
    <3> QED
        BY <3>1, <3>2
  <2> QED
      BY <1>2, <2>1 DEF TypeOK, Memory
<1>5. \A o \in F : of(o) = o .. o + s[o] - 1
  <2>1. ASSUME NEW o \in F PROVE BufferSize(heap, o) = s[o]
    <3>1. o \in Nat /\ o + 1 \in Words /\ o + 2 \in Words
        BY <1>1, GoodNodes
    <3> QED
        BY <1>2, <3>1, RdFact DEF Frees
  <2> QED
      BY <2>1
<1>6. \A b \in live : b.node \in A /\ ob(b) = b.node .. b.node + s[b.node] - 1
  <2> SUFFICES ASSUME NEW b \in live
               PROVE  b.node \in A /\ ob(b) = b.node .. b.node + s[b.node] - 1
      OBVIOUS
  <2>1. b.node \in A /\ Start(b) = b.node /\ End(b) = b.node + s[b.node]
      BY <1>1, LiveAt
  <2>2. b.node \in Nat /\ s[b.node] \in Nat
      BY <1>2, <2>1, TileAt
  <2> DEFINE e == b.node + s[b.node]
  <2>3. Start(b) = b.node /\ End(b) = e
      BY <2>1
  <2> HIDE DEF e
  <2>4. ob(b) = b.node .. e - 1
      BY <2>3
  <2>5. e - 1 = b.node + s[b.node] - 1
      BY <2>2 DEF e
  <2> QED
      BY <2>1, <2>4, <2>5
<1>7. ASSUME NEW o \in A \cup F, NEW p \in A \cup F, o # p
      PROVE  (o .. o + s[o] - 1) \cap (p .. p + s[p] - 1) = {}
  <2>1. o \in Nat /\ s[o] \in Nat /\ p \in Nat /\ s[p] \in Nat
      BY <1>2, TileAt
  <2>2. o + s[o] <= p \/ p + s[p] <= o
      BY <1>2, <1>7, TilesApart
  <2> QED
      BY <2>1, <2>2
<1>8. NothingLeaks
  <2>1. Nodes(w) = F
      BY <1>3 DEF Walks
  <2> HIDE DEF of, ob, w
  <2>2. \A o, p \in F : o # p => of(o) \cap of(p) = {}
      BY <1>5, <1>7
  <2>3. \A o \in F, b \in live : of(o) \cap ob(b) = {}
    <3> SUFFICES ASSUME NEW o \in F, NEW b \in live PROVE of(o) \cap ob(b) = {}
        OBVIOUS
    <3>1. b.node \in A \cup F /\ o \in A \cup F /\ b.node # o
        BY <1>2, <1>6
    <3>2. (o .. o + s[o] - 1) \cap (b.node .. b.node + s[b.node] - 1) = {}
        BY <1>7, <3>1
    <3> QED
        BY <1>5, <1>6, <3>2
  <2>4. ASSUME NEW S \in {of(o) : o \in F} \cup {ob(b) : b \in live}
        PROVE  S \subseteq MANAGER .. HEAP_SIZE - 1
    <3>1. PICK o \in A \cup F : S = o .. o + s[o] - 1
        BY <1>5, <1>6
    <3>2. o \in Nat /\ 2 <= o /\ s[o] \in Nat /\ o + s[o] <= HEAP_SIZE /\ HEAP_SIZE \in Nat
        BY <1>2, TileAt
    <3> QED
        BY <3>1, <3>2 DEF MANAGER
  <2>5. ASSUME NEW x \in MANAGER .. HEAP_SIZE - 1
        PROVE  \E S \in {of(o) : o \in F} \cup {ob(b) : b \in live} : x \in S
    <3>1. PICK o \in A \cup F : o <= x /\ x < o + s[o]
        BY <1>2 DEF Tiles
    <3>2. o \in Nat /\ s[o] \in Nat /\ x \in Int
        BY <1>2, TileAt DEF MANAGER
    <3>3. x \in o .. o + s[o] - 1
        BY <3>1, <3>2
    <3>4. CASE o \in F
        BY <1>5, <3>3, <3>4
    <3>5. CASE o \in A
      <4> DEFINE b == Buffer(heap[o], o, heap[o + 1])
      <4>1. b \in live /\ b.node = o
          BY <1>1, <3>5 DEF Live, Buffer
      <4> HIDE DEF b
      <4>2. x \in ob(b)
          BY <1>6, <3>3, <4>1
      <4> QED
          BY <4>1, <4>2
    <3> QED
        BY <3>4, <3>5
  <2>6. UNION ({of(o) : o \in F} \cup {ob(b) : b \in live}) = MANAGER .. HEAP_SIZE - 1
    <3> DEFINE U == {of(o) : o \in F} \cup {ob(b) : b \in live}
    <3>1. /\ \A S \in U : S \subseteq MANAGER .. HEAP_SIZE - 1
          /\ \A x \in MANAGER .. HEAP_SIZE - 1 : \E S \in U : x \in S
        BY <2>4, <2>5
    <3> HIDE DEF U
    <3>2. UNION U = MANAGER .. HEAP_SIZE - 1
        BY <3>1
    <3> QED
        BY <3>2 DEF U
  <2> QED
      BY <2>1, <2>2, <2>3, <2>6 DEF NothingLeaks, of, ob, w
<1>9. FreedInOrder
  <2>1. ASSUME NEW i \in Steps \ {0}, w[i] # 0 PROVE w[i - 1] < w[i]
    <3> HIDE DEF w
    <3>1. i \in 1 .. HEAP_SIZE
        BY HeapAssumption DEF Steps
    <3>2. w[i - 1] \in F /\ w[i] \in F /\ Offsets[w[i - 1]] < Offsets[w[i]]
        BY <1>3, <2>1, <3>1 DEF Walks
    <3>3. Offsets[w[i - 1]] = w[i - 1] /\ Offsets[w[i]] = w[i]
        BY <1>1, <1>2, <3>2, GoodFreed, OffsetRank
    <3> QED
        BY <3>2, <3>3
  <2> QED
      BY <2>1 DEF FreedInOrder
<1> QED
    BY <1>4, <1>8, <1>9 DEF HeapSound

\* An empty heap has the properties, too.
LEMMA EmptySound ==
    ASSUME heap = Empty, live = {}, hung = FALSE, untested \in BOOLEAN
    PROVE  BuffersDisjoint /\ Locatable /\ HeapSound
<1>1. BuffersDisjoint
    BY DEF BuffersDisjoint
<1>2. Locatable
  <2>1. \A h \in Handles : BiosLocateBuffer(heap, h).ptr = 0
      BY EmptyFact DEF BiosLocateBuffer
  <2> QED
      BY <2>1 DEF Locatable
<1>3. TypeOK
    BY EmptyFact DEF TypeOK, Memory
<1>4. NothingLeaks
    BY DEF NothingLeaks
<1>5. FreedInOrder
  <2>1. \A i \in Steps : Walk(heap, StartOfFreedNodes(heap))[i] = 0
      BY EmptyFact DEF StartOfFreedNodes
  <2> QED
      BY <2>1 DEF FreedInOrder
<1> QED
    BY <1>1, <1>2, <1>3, <1>4, <1>5 DEF HeapSound

\* The invariant implies the properties.
LEMMA InvSound ==
    ASSUME HeapInv
    PROVE  BuffersDisjoint /\ Locatable /\ HeapSound
<1>1. CASE untested = FALSE
  <2>1. Settled /\ hung = FALSE
      BY <1>1 DEF HeapInv
  <2> QED
      BY <1>1, <2>1, EmptySound, GoodDisjoint, GoodLocatable, GoodSound DEF Settled
<1>2. CASE untested = TRUE
    BY <1>2 DEF BuffersDisjoint, Locatable, HeapSound
<1> QED
    BY <1>1, <1>2 DEF HeapInv

\* BiosAllocateBuffer never hands out a word twice: no two live buffers overlap,
\* whatever was allocated and freed before, and none reaches the manager or the
\* end of the heap.
THEOREM Disjointness == Spec => []BuffersDisjoint
BY Invariance, InvSound, PTL

\* BiosLocateBuffer finds every live buffer where it was handed out, with its
\* length, and nothing that was freed.
THEOREM Lookup == Spec => []Locatable
BY Invariance, InvSound, PTL

\* BiosDeallocateBuffer's joining loses no word: buffers and freed nodes are
\* together the whole heap, the list of freed nodes stays in the order of offsets,
\* and no loop of a call runs for ever.
THEOREM Soundness == Spec => []HeapSound
BY Invariance, InvSound, PTL
=============================================================================
