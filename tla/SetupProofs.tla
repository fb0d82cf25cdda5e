---------------------------- MODULE SetupProofs ----------------------------
(***************************************************************************)
(* Proofs about Setup, for every list of devices with lines of any length  *)
(* that the mask of save_flash does not cut, and every number of saves and *)
(* power failures.                                                         *)
(***************************************************************************)
EXTENDS Setup, WellFoundedInduction, SequenceTheorems, TLAPS

-----------------------------------------------------------------------------
(* Natural numbers *)

LEMMA LeastOf ==
    ASSUME NEW T, T \subseteq Nat, T # {}
    PROVE  \E x \in T : \A y \in T : x <= y
<1>1. PICK x \in T : \A y \in T : <<y, x>> \notin OpToRel(<, Nat)
  BY WFMin, NatLessThanWellFounded
<1>2. ASSUME NEW y \in T, y < x PROVE FALSE
  <2>1. <<y, x>> \in Nat \X Nat /\ <<y, x>>[1] < <<y, x>>[2]
    BY <1>2
  <2>2. <<y, x>> \in OpToRel(<, Nat)
    BY <2>1, Zenon DEF OpToRel
  <2> QED BY <1>1, <2>2
<1> QED BY <1>2

\* Counting up to n.
LEMMA Counting ==
    ASSUME NEW n \in Nat, NEW T, 0 \in T, \A k \in 0..n : (k # n /\ k \in T) => k + 1 \in T
    PROVE  \A k \in 0..n : k \in T
<1> DEFINE U == {k \in 0..n : k \notin T}
<1> SUFFICES ASSUME U # {} PROVE FALSE
  OBVIOUS
<1>0. U \subseteq Nat
  OBVIOUS
<1>1. PICK k \in U : \A j \in U : k <= j
  BY <1>0, LeastOf
<1>2. k # 0 /\ k \in 0..n
  OBVIOUS
<1>3. k - 1 \in 0..n /\ k - 1 # n /\ k - 1 + 1 = k
  BY <1>2
<1>4. k - 1 \in T
  <2>1. ~(k <= k - 1)
    BY <1>2
  <2> QED BY <1>1, <1>3, <2>1
<1>5. k \in T
  BY <1>3, <1>4
<1> QED BY <1>5

LEMMA LeastIsMin ==
    ASSUME NEW T, T \subseteq Nat, T # {}
    PROVE  Min(T) \in T /\ \A y \in T : Min(T) <= y
<1>1. \E x \in T : \A y \in T : x <= y
  BY LeastOf
<1> QED BY <1>1 DEF Min

LEMMA GreatestIsMax ==
    ASSUME NEW n \in Nat, NEW T, T \subseteq 0..n, T # {}
    PROVE  Max(T) \in T /\ \A y \in T : Max(T) >= y
<1> DEFINE U == {u \in Nat : \A y \in T : y <= u}
<1>1. n \in U
  OBVIOUS
<1>2. PICK u \in U : \A v \in U : u <= v
  BY <1>1, LeastOf
<1>3. u \in T
  <2> SUFFICES ASSUME u \notin T PROVE FALSE
    OBVIOUS
  <2>1. \A y \in T : y \in Nat /\ y <= u /\ y # u
    BY <1>2
  <2>2. \A y \in T : y <= u - 1
    BY <1>2, <2>1
  <2>3. PICK y : y \in T
    OBVIOUS
  <2>4. u - 1 \in Nat
    BY <1>2, <2>1, <2>3
  <2>5. u - 1 \in U
    BY <2>2, <2>4
  <2> QED BY <1>2, <2>5
<1>4. \E x \in T : \A y \in T : x >= y
  BY <1>2, <1>3
<1> QED BY <1>4 DEF Max

-----------------------------------------------------------------------------
(* Sums *)

\* f adds up b.
Adds(n, b, f) ==
    /\ f \in [0..n -> Nat]
    /\ f = [j \in 0..n |-> IF j = 0 THEN 0 ELSE f[j - 1] + b[j]]

LEMMA SumExists ==
    ASSUME NEW n \in Nat, NEW b, \A j \in 1..n : b[j] \in Nat
    PROVE  \E f : Adds(n, b, f)
<1> DEFINE T == {k \in 0..n : \E f : Adds(k, b, f)}
<1>1. 0 \in T
  <2> DEFINE f == [j \in 0..0 |-> 0]
  <2>1. f \in [0..0 -> Nat]
    OBVIOUS
  <2>2. f = [j \in 0..0 |-> IF j = 0 THEN 0 ELSE f[j - 1] + b[j]]
    OBVIOUS
  <2>3. Adds(0, b, f)
    BY <2>1, <2>2 DEF Adds
  <2> QED BY <2>3
<1>2. ASSUME NEW k \in 0..n, k # n, k \in T PROVE k + 1 \in T
  <2>1. PICK f : Adds(k, b, f)
    BY <1>2
  <2>2. f \in [0..k -> Nat] /\ \A j \in 0..k : f[j] = IF j = 0 THEN 0 ELSE f[j - 1] + b[j]
    BY <2>1 DEF Adds
  <2> DEFINE g == [j \in 0..k + 1 |-> IF j = k + 1 THEN f[k] + b[k + 1] ELSE f[j]]
  <2>3. f[k] \in Nat /\ b[k + 1] \in Nat
    BY <1>2, <2>2
  <2>4. g \in [0..k + 1 -> Nat]
    <3>1. ASSUME NEW j \in 0..k + 1, j # k + 1 PROVE f[j] \in Nat
      BY <2>2, <3>1
    <3> QED BY <2>3, <3>1
  <2>5. ASSUME NEW j \in 0..k + 1 PROVE g[j] = IF j = 0 THEN 0 ELSE g[j - 1] + b[j]
    <3>1. CASE j = k + 1
      <4>1. j - 1 = k /\ j # 0 /\ k \in 0..k + 1 /\ k # k + 1
        BY <3>1
      <4>2. g[k] = f[k]
        BY <4>1
      <4> QED BY <3>1, <4>1, <4>2
    <3>2. CASE j # k + 1 /\ j # 0
      <4>1. j \in 0..k /\ j - 1 \in 0..k + 1 /\ j - 1 # k + 1
        BY <3>2
      <4>2. g[j] = f[j] /\ g[j - 1] = f[j - 1]
        BY <3>2, <4>1
      <4> HIDE DEF g
      <4> QED BY <2>2, <3>2, <4>1, <4>2
    <3>3. CASE j = 0
      <4>1. j \in 0..k /\ j # k + 1
        BY <3>3
      <4>2. g[j] = f[j]
        BY <4>1
      <4> HIDE DEF g
      <4> QED BY <2>2, <3>3, <4>1, <4>2
    <3> QED BY <3>1, <3>2, <3>3
  <2>6. Adds(k + 1, b, g)
    <3> HIDE DEF g
    <3> QED BY <2>4, <2>5 DEF Adds
  <2> QED BY <1>2, <2>6
<1> HIDE DEF T
<1>3. \A k \in 0..n : k \in T
  BY <1>1, <1>2, Counting
<1> QED BY <1>3 DEF T

-----------------------------------------------------------------------------
(* The packed file *)

LEMMA DevicesFacts ==
    /\ Len(Devices) \in Nat \ {0} /\ DOMAIN Devices = 1..Len(Devices)
    /\ \A i \in 1..Len(Devices) : Devices[i] \in Range(Devices)
    /\ \A i, j \in 1..Len(Devices) : Devices[i] = Devices[j] => i = j
    /\ "pxen" \notin Range(Devices) /\ "scon" \notin Range(Devices) /\ NUL \notin Range(Devices)
<1> DEFINE R == Range(Devices)
<1> HIDE DEF R
<1>1. Devices \in Seq(R) /\ Devices # <<>> /\ IsInjective(Devices)
  BY DevicesAssumption DEF R
<1>2. Len(Devices) \in Nat \ {0} /\ DOMAIN Devices = 1..Len(Devices)
  BY <1>1, EmptySeq, LenProperties
<1>3. \A i \in 1..Len(Devices) : Devices[i] \in R
  BY <1>1, <1>2 DEF R, Range
<1>4. \A i, j \in 1..Len(Devices) : Devices[i] = Devices[j] => i = j
  BY <1>1, <1>2 DEF IsInjective
<1>5. R \cap (Tagged \cup {NUL}) = {}
  BY DevicesAssumption DEF R
<1>6. "pxen" \notin R /\ "scon" \notin R /\ NUL \notin R
  BY <1>5 DEF Tagged
<1> QED BY <1>2, <1>3, <1>4, <1>6 DEF R

LEMMA LineFacts ==
    ASSUME NEW l \in Line
    PROVE  /\ l.tag \in Range(Devices) \/ l.tag = "pxen" \/ l.tag = "scon"
           /\ l.digit \in 0..1 /\ l.cr \in 0..1
           /\ l = [tag |-> l.tag, digit |-> l.digit, cr |-> l.cr]
           /\ Bytes(l) \in Nat
           /\ l.tag \notin Range(Devices) => Bytes(l) >= TagLen + 2
<1>1. /\ l.tag \in Range(Devices) \/ l.tag = "pxen" \/ l.tag = "scon"
      /\ l.digit \in 0..1 /\ l.cr \in 0..1
  BY DEF Line, Tagged
<1>2. l = [tag |-> l.tag, digit |-> l.digit, cr |-> l.cr]
  BY DEF Line
<1>3. l.tag \in Tagged <=> l.tag \notin Range(Devices)
  BY <1>1, DevicesFacts DEF Tagged
<1>4. l.tag \in Range(Devices) => LineLen[l.tag] \in Nat
  BY DevicesAssumption
<1>5. Bytes(l) \in Nat /\ (l.tag \notin Range(Devices) => Bytes(l) >= TagLen + 2)
  BY <1>1, <1>3, <1>4 DEF Bytes, TagLen
<1> QED BY <1>1, <1>2, <1>5

LEMMA SeqFacts ==
    ASSUME NEW s \in Seq(Line)
    PROVE  /\ Len(s) \in Nat /\ DOMAIN s = 1..Len(s)
           /\ \A i \in 1..Len(s) : s[i] \in Line /\ Bytes(s[i]) \in Nat
<1>1. Len(s) \in Nat /\ DOMAIN s = 1..Len(s)
  BY LenProperties
<1>2. \A i \in 1..Len(s) : s[i] \in Line
  BY ElementOfSeq
<1> QED BY <1>1, <1>2, LineFacts

\* Offset is the sum of the lines' lengths.
LEMMA OffsetFacts ==
    ASSUME NEW s \in Seq(Line)
    PROVE  /\ \A k \in 0..Len(s) : Offset(s, k) \in Nat
           /\ Offset(s, 0) = 0
           /\ \A k \in 1..Len(s) : Offset(s, k) = Offset(s, k - 1) + Bytes(s[k])
<1> DEFINE n == Len(s)
           b == [j \in 1..n |-> Bytes(s[j])]
           F(f) == f = [j \in 0..n |-> IF j = 0 THEN 0 ELSE f[j - 1] + Bytes(s[j])]
<1>1. n \in Nat /\ \A j \in 1..n : b[j] \in Nat
  BY SeqFacts
<1>2. PICK f : Adds(n, b, f)
  <2> HIDE DEF n, b
  <2> QED BY <1>1, SumExists
<1>3. F(f)
  <2>1. f = [j \in 0..n |-> IF j = 0 THEN 0 ELSE f[j - 1] + b[j]]
    BY <1>2 DEF Adds
  <2>2. ASSUME NEW j \in 0..n
        PROVE  (IF j = 0 THEN 0 ELSE f[j - 1] + b[j]) = (IF j = 0 THEN 0 ELSE f[j - 1] + Bytes(s[j]))
    <3>1. CASE j = 0
      BY <3>1
    <3>2. CASE j # 0
      <4>1. j \in 1..n
        BY <1>1, <3>2
      <4>2. b[j] = Bytes(s[j])
        BY <4>1
      <4> QED BY <3>2, <4>2
    <3> QED BY <3>1, <3>2
  <2> HIDE DEF b, n
  <2> QED BY <2>1, <2>2
<1>4. Offsets(s) = CHOOSE g : F(g)
  BY DEF Offsets
<1>5. F(Offsets(s))
  <2> HIDE DEF F
  <2> QED BY <1>3, <1>4
<1> DEFINE o == Offsets(s)
<1>6. \A j \in 0..n : o[j] = IF j = 0 THEN 0 ELSE o[j - 1] + Bytes(s[j])
  <2> HIDE DEF n, o
  <2>1. F(o)
    BY <1>5 DEF o
  <2> QED BY <2>1
<1>7. \A k \in 0..n : o[k] \in Nat
  <2> DEFINE T == {k \in 0..n : o[k] \in Nat}
  <2>0. \A j \in 1..n : Bytes(s[j]) \in Nat
    BY SeqFacts
  <2> HIDE DEF n, o
  <2>1. 0 \in T
    BY <1>1, <1>6
  <2>2. ASSUME NEW k \in 0..n, k # n, k \in T PROVE k + 1 \in T
    <3>1. k + 1 \in 1..n /\ k + 1 \in 0..n /\ k + 1 # 0 /\ k + 1 - 1 = k
      BY <1>1, <2>2
    <3>2. o[k + 1] = o[k] + Bytes(s[k + 1])
      BY <1>6, <3>1
    <3> QED BY <2>0, <2>2, <3>1, <3>2
  <2> HIDE DEF T
  <2>3. \A k \in 0..n : k \in T
    BY <1>1, <2>1, <2>2, Counting
  <2> QED BY <2>3 DEF T
<1>8. o[0] = 0
  <2>1. 0 \in 0..n
    BY <1>1
  <2> HIDE DEF n, o
  <2> QED BY <1>6, <2>1
<1>9. \A k \in 1..n : o[k] = o[k - 1] + Bytes(s[k])
  <2> HIDE DEF n, o
  <2> TAKE k \in 1..n
  <2>1. k \in 0..n /\ k # 0
    BY <1>1
  <2> QED BY <1>6, <2>1
<1> QED BY <1>7, <1>8, <1>9 DEF Offset

LEMMA OffsetGrows ==
    ASSUME NEW s \in Seq(Line), NEW j \in 0..Len(s), NEW k \in 0..Len(s), j <= k
    PROVE  Offset(s, j) <= Offset(s, k)
<1> DEFINE n == Len(s)
           T == {i \in 0..n : j <= i => Offset(s, j) <= Offset(s, i)}
<1>1. n \in Nat /\ \A i \in 1..n : Bytes(s[i]) \in Nat
  BY SeqFacts
<1>2. /\ \A i \in 0..n : Offset(s, i) \in Nat
      /\ \A i \in 1..n : Offset(s, i) = Offset(s, i - 1) + Bytes(s[i])
  BY OffsetFacts
<1>3. j \in 0..n /\ k \in 0..n
  OBVIOUS
<1> HIDE DEF n
<1>4. 0 \in T
  <2>1. j <= 0 => j = 0
    BY <1>1, <1>3
  <2> QED BY <1>1, <1>2, <1>3, <2>1
<1>5. ASSUME NEW i \in 0..n, i # n, i \in T PROVE i + 1 \in T
  <2>1. i + 1 \in 1..n /\ i + 1 \in 0..n /\ i + 1 - 1 = i
    BY <1>1, <1>5
  <2>2. Offset(s, i + 1) = Offset(s, i) + Bytes(s[i + 1])
    BY <1>2, <2>1
  <2>3. Bytes(s[i + 1]) \in Nat /\ Offset(s, i) \in Nat /\ Offset(s, i + 1) \in Nat /\ Offset(s, j) \in Nat
    BY <1>1, <1>2, <1>3, <2>1
  <2>4. CASE j <= i
    BY <1>5, <2>1, <2>2, <2>3, <2>4
  <2>5. CASE ~(j <= i)
    <3>1. j <= i + 1 => j = i + 1
      BY <1>1, <1>3, <2>1, <2>5
    <3> QED BY <2>1, <2>3, <3>1
  <2> QED BY <2>4, <2>5
<1> HIDE DEF T
<1>6. \A i \in 0..n : i \in T
  BY <1>1, <1>4, <1>5, Counting
<1> QED BY <1>3, <1>6 DEF T

LEMMA OffsetCompare ==
    ASSUME NEW s \in Seq(Line), NEW t \in Seq(Line), NEW m \in Nat, m <= Len(s), m <= Len(t),
           \A i \in 1..m : Bytes(s[i]) <= Bytes(t[i])
    PROVE  Offset(s, m) <= Offset(t, m)
<1> DEFINE T == {i \in 0..m : Offset(s, i) <= Offset(t, i)}
<1>1. /\ \A i \in 0..m : Offset(s, i) \in Nat /\ Offset(t, i) \in Nat
      /\ Offset(s, 0) = 0 /\ Offset(t, 0) = 0
      /\ \A i \in 1..m : /\ Offset(s, i) = Offset(s, i - 1) + Bytes(s[i])
                         /\ Offset(t, i) = Offset(t, i - 1) + Bytes(t[i])
                         /\ Bytes(s[i]) \in Nat /\ Bytes(t[i]) \in Nat
  <2>1. Len(s) \in Nat /\ Len(t) \in Nat
    BY SeqFacts
  <2>2. \A i \in 0..m : i \in 0..Len(s) /\ i \in 0..Len(t)
    BY <2>1
  <2>3. \A i \in 1..m : i \in 1..Len(s) /\ i \in 1..Len(t)
    BY <2>1
  <2> QED BY <2>2, <2>3, SeqFacts, OffsetFacts
<1>2. 0 \in T
  BY <1>1
<1>3. ASSUME NEW i \in 0..m, i # m, i \in T PROVE i + 1 \in T
  <2>1. i + 1 \in 1..m /\ i + 1 \in 0..m /\ i + 1 - 1 = i
    BY <1>3
  <2>2. /\ Offset(s, i + 1) = Offset(s, i) + Bytes(s[i + 1])
        /\ Offset(t, i + 1) = Offset(t, i) + Bytes(t[i + 1])
        /\ Bytes(s[i + 1]) \in Nat /\ Bytes(t[i + 1]) \in Nat
    BY <1>1, <2>1
  <2>3. Bytes(s[i + 1]) <= Bytes(t[i + 1])
    BY <2>1
  <2>4. Offset(s, i) \in Nat /\ Offset(t, i) \in Nat /\ Offset(s, i) <= Offset(t, i)
    BY <1>1, <1>3
  <2> QED BY <2>1, <2>2, <2>3, <2>4
<1> HIDE DEF T
<1>4. \A i \in 0..m : i \in T
  BY <1>2, <1>3, Counting
<1> QED BY <1>4 DEF T

LEMMA FunctionIsSeq ==
    ASSUME NEW S, NEW n \in Nat, NEW f \in [1..n -> S]
    PROVE  f \in Seq(S) /\ Len(f) = n
  OBVIOUS

\* The rearranged list has the lines of the old one.
LEMMA ToTopFacts ==
    ASSUME NEW S, NEW s \in Seq(S), NEW n \in 1..Len(s)
    PROVE  /\ ToTop(s, n) \in Seq(S) /\ Len(ToTop(s, n)) = Len(s)
           /\ ToTop(s, n)[1] = s[n]
           /\ \A i \in 2..n : ToTop(s, n)[i] = s[i - 1]
           /\ \A i \in n + 1..Len(s) : ToTop(s, n)[i] = s[i]
<1> DEFINE L == Len(s)
           f == [i \in 1..L |-> CASE i = 1 -> s[n] [] i \in 2..n -> s[i - 1] [] OTHER -> s[i]]
<1>1. L \in Nat /\ DOMAIN s = 1..L /\ \A i \in 1..L : s[i] \in S
  BY LenProperties
<1>2. ToTop(s, n) = f
  BY <1>1 DEF ToTop
<1>3. n \in 1..L
  OBVIOUS
<1> HIDE DEF L
<1>4. f[1] = s[n]
  BY <1>1, <1>3
<1>5. \A i \in 2..n : f[i] = s[i - 1]
  BY <1>1, <1>3
<1>6. \A i \in n + 1..L : f[i] = s[i]
  BY <1>1, <1>3
<1>7. f \in [1..L -> S]
  <2>1. ASSUME NEW i \in 1..L PROVE f[i] \in S
    <3>1. CASE i = 1
      BY <1>1, <1>3, <1>4, <3>1
    <3>2. CASE i \in 2..n
      <4>1. i - 1 \in 1..L
        BY <1>1, <1>3, <3>2
      <4> QED BY <1>1, <1>5, <3>2, <4>1
    <3>3. CASE i \in n + 1..L
      BY <1>1, <1>6, <3>3
    <3> QED BY <1>1, <1>3, <3>1, <3>2, <3>3
  <2>2. DOMAIN f = 1..L /\ f = [i \in DOMAIN f |-> f[i]]
    OBVIOUS
  <2> HIDE DEF f
  <2> QED BY <2>1, <2>2
<1>8. f \in Seq(S) /\ Len(f) = L
  <2> HIDE DEF f
  <2> QED BY <1>1, <1>7, FunctionIsSeq
<1> HIDE DEF f
<1>9. Len(f) = Len(s)
  BY <1>8 DEF L
<1> QED BY <1>2, <1>4, <1>5, <1>6, <1>8, <1>9 DEF L

\* Moving a line does not change the length of the file.
LEMMA OffsetToTop ==
    ASSUME NEW s \in Seq(Line), NEW n \in 1..Len(s)
    PROVE  Offset(ToTop(s, n), Len(s)) = Offset(s, Len(s))
<1> DEFINE L == Len(s)
           t == ToTop(s, n)
           O(k) == Offset(s, k)
           P(k) == Offset(t, k)
           T == {k \in 0..L : /\ (k # 0 /\ k < n) => P(k) = O(k - 1) + Bytes(s[n])
                              /\ n <= k => P(k) = O(k)}
<1>1. L \in Nat /\ n \in 1..L /\ \A i \in 1..L : Bytes(s[i]) \in Nat
  BY SeqFacts
<1>2. /\ t \in Seq(Line) /\ Len(t) = L /\ t[1] = s[n]
      /\ \A i \in 2..n : t[i] = s[i - 1]
      /\ \A i \in n + 1..L : t[i] = s[i]
  BY ToTopFacts
<1>3. /\ \A k \in 0..L : O(k) \in Nat
      /\ O(0) = 0
      /\ \A k \in 1..L : O(k) = O(k - 1) + Bytes(s[k])
  BY OffsetFacts
<1>4. /\ \A k \in 0..L : P(k) \in Nat
      /\ P(0) = 0
      /\ \A k \in 1..L : P(k) = P(k - 1) + Bytes(t[k])
  <2> HIDE DEF t, L
  <2> QED BY <1>2, OffsetFacts
<1> HIDE DEF L, t, O, P
<1>5. 0 \in T
  BY <1>1
<1>6. ASSUME NEW k \in 0..L, k # L, k \in T PROVE k + 1 \in T
  <2>1. k + 1 \in 1..L /\ k + 1 \in 0..L /\ k + 1 - 1 = k /\ k \in Nat /\ n \in Nat
    BY <1>1, <1>6
  <2>2. P(k + 1) = P(k) + Bytes(t[k + 1]) /\ O(k + 1) = O(k) + Bytes(s[k + 1])
    BY <1>3, <1>4, <2>1
  <2>3. CASE k = 0
    <3>1. P(1) = Bytes(s[n])
      BY <1>1, <1>2, <1>4, <2>1, <2>2, <2>3
    <3>2. n = 1 => P(1) = O(1)
      BY <1>1, <1>3, <2>1, <2>2, <2>3, <3>1
    <3>3. P(1) = O(0) + Bytes(s[n])
      BY <1>1, <1>3, <3>1
    <3> QED BY <1>1, <2>1, <2>3, <3>2, <3>3
  <2>4. CASE k # 0 /\ k < n
    <3>1. t[k + 1] = s[k]
      <4>1. k + 1 \in 2..n
        BY <2>1, <2>4
      <4> QED BY <1>2, <2>1, <4>1
    <3>2. P(k) = O(k - 1) + Bytes(s[n])
      BY <1>6, <2>4
    <3>3. O(k) = O(k - 1) + Bytes(s[k])
      BY <1>3, <1>6, <2>4
    <3>4. O(k - 1) \in Nat /\ O(k) \in Nat /\ Bytes(s[n]) \in Nat /\ Bytes(s[k]) \in Nat
      BY <1>1, <1>3, <1>6, <2>4
    <3>5. P(k + 1) = O(k) + Bytes(s[n])
      BY <2>2, <3>1, <3>2, <3>3, <3>4
    <3>6. n = k + 1 => P(k + 1) = O(k + 1)
      BY <2>2, <3>4, <3>5
    <3>7. n <= k + 1 => n = k + 1
      BY <2>1, <2>4
    <3> QED BY <2>1, <3>5, <3>6, <3>7
  <2>5. CASE n <= k
    <3>1. t[k + 1] = s[k + 1]
      <4>1. k + 1 \in n + 1..L
        BY <1>1, <2>1, <2>5
      <4> QED BY <1>2, <4>1
    <3>2. P(k + 1) = O(k + 1)
      BY <1>6, <2>2, <2>5, <3>1
    <3>3. ~(k + 1 < n)
      BY <2>1, <2>5
    <3> QED BY <2>1, <3>2, <3>3
  <2> QED BY <2>1, <2>3, <2>4, <2>5
<1> HIDE DEF T
<1>7. \A k \in 0..L : k \in T
  BY <1>1, <1>5, <1>6, Counting
<1>8. L \in 0..L /\ n <= L
  BY <1>1
<1>9. P(L) = O(L)
  BY <1>7, <1>8 DEF T
<1> QED BY <1>9 DEF P, O, L, t

-----------------------------------------------------------------------------
(* The lists of the menu *)

N == Len(Devices)

LEMMA DefFacts ==
    /\ bootlist_def \in Seq(Line) /\ Len(bootlist_def) = N /\ DOMAIN bootlist_def = 1..N
    /\ \A i \in 1..N : bootlist_def[i] = [tag |-> Devices[i], digit |-> 0, cr |-> 0]
<1>1. N \in Nat /\ DOMAIN Devices = 1..N /\ \A i \in 1..N : Devices[i] \in Range(Devices)
  BY DevicesFacts DEF N
<1>2. bootlist_def = [i \in 1..N |-> [tag |-> Devices[i], digit |-> 0, cr |-> 0]]
  BY <1>1 DEF bootlist_def
<1>3. \A i \in 1..N : [tag |-> Devices[i], digit |-> 0, cr |-> 0] \in Line
  BY <1>1 DEF Line
<1>4. bootlist_def \in [1..N -> Line]
  BY <1>2, <1>3
<1>5. bootlist_def \in Seq(Line) /\ Len(bootlist_def) = N
  BY <1>1, <1>4, FunctionIsSeq
<1> QED BY <1>2, <1>5

LEMMA ShippedFacts ==
    /\ Shipped \in Seq(Line) /\ Len(Shipped) = N + 2 /\ DOMAIN Shipped = 1..N + 2
    /\ \A i \in 1..N : Shipped[i] = [tag |-> Devices[i], digit |-> 0, cr |-> 1]
    /\ Shipped[N + 1] = [tag |-> "pxen", digit |-> 1, cr |-> 1]
    /\ Shipped[N + 2] = [tag |-> "scon", digit |-> 1, cr |-> 1]
<1> DEFINE s == [i \in DOMAIN Devices |-> [bootlist_def[i] EXCEPT !.cr = 1]]
           t == <<[tag |-> "pxen", digit |-> 1, cr |-> 1], [tag |-> "scon", digit |-> 1, cr |-> 1]>>
<1>1. N \in Nat /\ DOMAIN Devices = 1..N /\ \A i \in 1..N : Devices[i] \in Range(Devices)
  BY DevicesFacts DEF N
<1>2. \A i \in 1..N : [bootlist_def[i] EXCEPT !.cr = 1] = [tag |-> Devices[i], digit |-> 0, cr |-> 1]
  <2> TAKE i \in 1..N
  <2>1. bootlist_def[i] = [tag |-> Devices[i], digit |-> 0, cr |-> 0]
    BY DefFacts
  <2> QED BY <2>1
<1>3. s = [i \in 1..N |-> [tag |-> Devices[i], digit |-> 0, cr |-> 1]]
  BY <1>1, <1>2
<1>4. \A i \in 1..N : [tag |-> Devices[i], digit |-> 0, cr |-> 1] \in Line
  BY <1>1 DEF Line
<1>5. s \in [1..N -> Line]
  <2> HIDE DEF s
  <2> QED BY <1>3, <1>4
<1>6. s \in Seq(Line) /\ Len(s) = N
  <2> HIDE DEF s
  <2> QED BY <1>1, <1>5, FunctionIsSeq
<1>7. [tag |-> "pxen", digit |-> 1, cr |-> 1] \in Line /\ [tag |-> "scon", digit |-> 1, cr |-> 1] \in Line
  BY DEF Line, Tagged
<1>8. t \in Seq(Line) /\ Len(t) = 2 /\ t[1] = [tag |-> "pxen", digit |-> 1, cr |-> 1]
         /\ t[2] = [tag |-> "scon", digit |-> 1, cr |-> 1]
  BY <1>7
<1>9. Shipped = s \o t
  BY DEF Shipped
<1> HIDE DEF s, t
<1>10. /\ s \o t \in Seq(Line) /\ Len(s \o t) = N + 2
       /\ \A i \in 1..N + 2 : (s \o t)[i] = IF i <= N THEN s[i] ELSE t[i - N]
  <2>1. /\ s \o t \in Seq(Line) /\ Len(s \o t) = Len(s) + Len(t)
        /\ \A i \in 1..Len(s) + Len(t) : (s \o t)[i] = IF i <= Len(s) THEN s[i] ELSE t[i - Len(s)]
    BY <1>6, <1>8, ConcatProperties, Zenon
  <2>2. Len(s) = N /\ Len(t) = 2
    BY <1>6, <1>8
  <2> QED BY <2>1, <2>2, Zenon
<1>11. DOMAIN Shipped = 1..N + 2
  BY <1>9, <1>10, LenProperties
<1>12. \A i \in 1..N : Shipped[i] = [tag |-> Devices[i], digit |-> 0, cr |-> 1]
  <2> TAKE i \in 1..N
  <2>1. i \in 1..N + 2 /\ i <= N
    BY <1>1
  <2>2. Shipped[i] = s[i]
    BY <1>9, <1>10, <2>1
  <2> QED BY <1>3, <2>2
<1>13. Shipped[N + 1] = t[1] /\ Shipped[N + 2] = t[2]
  <2>1. ASSUME NEW i \in 1..N + 2, NEW k \in 1..2, i = N + k PROVE Shipped[i] = t[k]
    <3>1. ~(i <= N) /\ i - N = k
      BY <1>1, <2>1
    <3>2. (s \o t)[i] = IF i <= N THEN s[i] ELSE t[i - N]
      BY <1>10, Zenon
    <3> QED BY <1>9, <3>1, <3>2, Zenon
  <2>2. N + 1 \in 1..N + 2 /\ N + 2 \in 1..N + 2
    BY <1>1
  <2> QED BY <2>1, <2>2
<1> QED BY <1>8, <1>9, <1>10, <1>11, <1>12, <1>13

\* A list the menu can show: no line twice, devices in their slots and settings
\* behind them, every device when it is full, and no longer than the shipped one.
Once(s) == \A i, j \in 1..Len(s) : s[i].tag = s[j].tag => i = j

Placed(s) ==
    \A i \in 1..Len(s) : /\ i <= N => s[i].tag \in Range(Devices)
                         /\ i > N => s[i].tag = Shipped[i].tag

Full(s) == Len(s) = N + 2 => \A d \in Range(Devices) : \E i \in 1..N : s[i].tag = d

ListOK(s) ==
    /\ s \in Seq(Line) /\ Len(s) <= N + 2
    /\ Once(s) /\ Placed(s) /\ Full(s)
    /\ Offset(s, Len(s)) <= Offset(Shipped, N + 2)

LEMMA NFact == N \in Nat /\ N > 0
  BY DevicesFacts DEF N

LEMMA DeviceHasPlace == \A d \in Range(Devices) : \E i \in 1..N : d = Devices[i]
  BY DevicesFacts DEF N, Range

\* The settings are behind the devices.
LEMMA SlotFacts ==
    ASSUME NEW i \in 1..N + 2
    PROVE  /\ Shipped[i] \in Line
           /\ i <= N => Shipped[i].tag = Devices[i] /\ Shipped[i].tag \in Range(Devices)
           /\ i > N => /\ Shipped[i].tag \in Tagged /\ Shipped[i].tag \notin Range(Devices)
                       /\ Shipped[i].digit = 1
           /\ Shipped[i].cr = 1
<1>1. Shipped[i] \in Line
  BY ShippedFacts, SeqFacts
<1>2. CASE i <= N
  <2>1. i \in 1..N
    BY <1>2, NFact
  <2>2. Shipped[i] = [tag |-> Devices[i], digit |-> 0, cr |-> 1] /\ Devices[i] \in Range(Devices)
    BY <2>1, ShippedFacts, DevicesFacts DEF N
  <2> QED BY <1>1, <1>2, <2>2, NFact
<1>3. CASE i = N + 1
  BY <1>1, <1>3, NFact, ShippedFacts, DevicesFacts DEF Tagged
<1>4. CASE i = N + 2
  BY <1>1, <1>4, NFact, ShippedFacts, DevicesFacts DEF Tagged
<1> QED BY <1>2, <1>3, <1>4, NFact

LEMMA SettingSlots ==
    \A i, j \in 1..N + 2 : (i > N /\ j > N /\ Shipped[i].tag = Shipped[j].tag) => i = j
<1>1. Shipped[N + 1].tag = "pxen" /\ Shipped[N + 2].tag = "scon"
  BY ShippedFacts
<1>2. \A i \in 1..N + 2 : i > N => i = N + 1 \/ i = N + 2
  BY NFact
<1> QED BY <1>1, <1>2

LEMMA ShippedOK == ListOK(Shipped)
<1> DEFINE s == Shipped
<1>1. s \in Seq(Line) /\ Len(s) = N + 2 /\ N \in Nat
  BY ShippedFacts, NFact
<1>2. Once(s)
  <2> SUFFICES ASSUME NEW i \in 1..N + 2, NEW j \in 1..N + 2, Shipped[i].tag = Shipped[j].tag PROVE i = j
    BY <1>1 DEF Once
  <2>1. CASE i <= N /\ j <= N
    <3>1. Devices[i] = Devices[j] /\ i \in 1..N /\ j \in 1..N
      BY <2>1, SlotFacts, NFact
    <3> QED BY <3>1, DevicesFacts DEF N
  <2>2. CASE i > N /\ j > N
    BY <2>2, SettingSlots
  <2> QED BY <2>1, <2>2, SlotFacts, NFact
<1>3. Placed(s)
  BY <1>1, SlotFacts DEF Placed
<1>4. Full(s)
  <2> SUFFICES ASSUME NEW d \in Range(Devices) PROVE \E i \in 1..N : Shipped[i].tag = d
    BY DEF Full
  <2>1. PICK i \in 1..N : d = Devices[i]
    BY DeviceHasPlace
  <2>2. i \in 1..N + 2 /\ i <= N
    BY NFact
  <2> QED BY <2>1, <2>2, SlotFacts
<1>5. Offset(s, N + 2) \in Nat
  <2>1. N + 2 \in 0..Len(s)
    BY <1>1
  <2> QED BY <1>1, <2>1, OffsetFacts
<1> HIDE DEF s
<1>6. Offset(s, Len(s)) <= Offset(s, N + 2)
  BY <1>1, <1>5
<1> QED BY <1>1, <1>2, <1>3, <1>4, <1>6 DEF ListOK, s

LEMMA EmptyOK == ListOK(<<>>) /\ Len(<<>>) = 0
<1>1. <<>> \in Seq(Line) /\ Len(<<>>) = 0
  BY EmptySeq
<1>2. Offset(<<>>, 0) = 0
  BY <1>1, OffsetFacts
<1>3. Offset(Shipped, N + 2) \in Nat
  <2>1. N + 2 \in 0..Len(Shipped) /\ Shipped \in Seq(Line)
    BY ShippedFacts, NFact
  <2> QED BY <2>1, OffsetFacts
<1>4. Once(<<>>) /\ Placed(<<>>) /\ Full(<<>>)
  BY <1>1, NFact DEF Once, Placed, Full
<1>5. Offset(<<>>, Len(<<>>)) <= Offset(Shipped, N + 2)
  BY <1>1, <1>2, <1>3
<1> QED BY <1>1, <1>4, <1>5, NFact DEF ListOK

\* What a cut file leaves.
LEMMA PrefixOK ==
    ASSUME NEW s, ListOK(s), NEW k \in 0..Len(s)
    PROVE  ListOK(SubSeq(s, 1, k)) /\ Len(SubSeq(s, 1, k)) = k
<1> DEFINE t == SubSeq(s, 1, k)
<1>1. s \in Seq(Line) /\ Len(s) \in Nat /\ Len(s) <= N + 2 /\ N \in Nat
  BY SeqFacts, NFact DEF ListOK
<1>2. \A i \in 1..k : s[i] \in Line /\ i \in 1..Len(s)
  BY <1>1, SeqFacts
<1>3. t \in Seq(Line) /\ Len(t) = k /\ \A i \in 1..k : t[i] = s[i]
  <2>1. k \in Int /\ 1 \in Int /\ k - 1 + 1 = k /\ (~(1 <= k) => k = 0) /\ \A i \in 1..k : 1 + i - 1 = i
    BY <1>1
  <2>2. /\ t \in Seq(Line) /\ Len(t) = (IF 1 <= k THEN k - 1 + 1 ELSE 0)
        /\ \A i \in 1..k - 1 + 1 : t[i] = s[1 + i - 1]
    BY <1>2, <2>1, SubSeqProperties
  <2> HIDE DEF t
  <2> QED BY <2>1, <2>2
<1> HIDE DEF t
<1>4. Once(t)
  <2> SUFFICES ASSUME NEW i \in 1..k, NEW j \in 1..k, t[i].tag = t[j].tag PROVE i = j
    BY <1>3 DEF Once
  <2> QED BY <1>2, <1>3 DEF ListOK, Once
<1>5. Placed(t)
  <2> SUFFICES ASSUME NEW i \in 1..k
               PROVE  (i <= N => t[i].tag \in Range(Devices)) /\ (i > N => t[i].tag = Shipped[i].tag)
    BY <1>3 DEF Placed
  <2> QED BY <1>2, <1>3 DEF ListOK, Placed
<1>6. Full(t)
  <2> SUFFICES ASSUME k = N + 2, NEW d \in Range(Devices) PROVE \E i \in 1..N : t[i].tag = d
    BY <1>3 DEF Full
  <2>1. Len(s) = N + 2
    BY <1>1
  <2>2. PICK i \in 1..N : s[i].tag = d
    BY <2>1 DEF ListOK, Full
  <2>3. i \in 1..k
    BY <1>1
  <2> QED BY <1>3, <2>2, <2>3
<1>7. Offset(t, k) <= Offset(Shipped, N + 2)
  <2>1. Offset(t, k) <= Offset(s, k)
    <3>1. \A i \in 1..k : Bytes(t[i]) <= Bytes(s[i])
      <4> TAKE i \in 1..k
      <4>1. t[i] = s[i] /\ Bytes(s[i]) \in Nat
        BY <1>2, <1>3, LineFacts
      <4>2. Bytes(t[i]) = Bytes(s[i])
        BY <4>1
      <4> QED BY <4>1, <4>2
    <3>2. k \in Nat /\ k <= Len(s) /\ k <= Len(t)
      BY <1>1, <1>3
    <3> QED BY <1>1, <1>3, <3>1, <3>2, OffsetCompare
  <2>2. Offset(s, k) <= Offset(s, Len(s))
    <3>1. Len(s) \in 0..Len(s) /\ k <= Len(s)
      BY <1>1
    <3> QED BY <1>1, <3>1, OffsetGrows
  <2>3. Offset(s, Len(s)) <= Offset(Shipped, N + 2)
    BY DEF ListOK
  <2>4. Offset(t, k) \in Nat /\ Offset(s, k) \in Nat /\ Offset(s, Len(s)) \in Nat /\ Offset(Shipped, N + 2) \in Nat
    <3>1. Len(s) \in 0..Len(s) /\ k \in 0..Len(t) /\ N + 2 \in 0..Len(Shipped) /\ Shipped \in Seq(Line)
      BY <1>1, <1>3, ShippedFacts
    <3> QED BY <1>1, <1>3, <3>1, OffsetFacts
  <2> QED BY <2>1, <2>2, <2>3, <2>4
<1> QED BY <1>1, <1>3, <1>4, <1>5, <1>6, <1>7 DEF ListOK, t

LEMMA TotalFact == Offset(Shipped, N + 2) \in Nat
<1>1. N + 2 \in 0..Len(Shipped) /\ Shipped \in Seq(Line)
  BY ShippedFacts, NFact
<1> QED BY <1>1, OffsetFacts

LEMMA ListFacts ==
    ASSUME NEW s, ListOK(s)
    PROVE  /\ s \in Seq(Line) /\ Len(s) \in Nat /\ Len(s) <= N + 2 /\ DOMAIN s = 1..Len(s)
           /\ \A i \in 1..Len(s) : i \in 1..N + 2 /\ s[i] \in Line
           /\ Offset(s, Len(s)) \in Nat
<1>1. s \in Seq(Line) /\ Len(s) \in Nat /\ Len(s) <= N + 2 /\ DOMAIN s = 1..Len(s)
  BY SeqFacts DEF ListOK
<1>2. \A i \in 1..Len(s) : i \in 1..N + 2 /\ s[i] \in Line
  BY <1>1, SeqFacts, NFact
<1>3. Len(s) \in 0..Len(s)
  BY <1>1
<1> QED BY <1>1, <1>2, <1>3, OffsetFacts

\* The key R: the defaults in the slots of the devices.
LEMMA RestoreOK ==
    ASSUME NEW s, ListOK(s)
    PROVE  /\ ListOK(restore(s)) /\ Len(restore(s)) = Len(s)
           /\ \A i \in 1..Len(s) : /\ i <= N => restore(s)[i].tag = Devices[i]
                                   /\ i > N => restore(s)[i] = s[i]
<1> DEFINE t == restore(s)
           L == Len(s)
<1>1. s \in Seq(Line) /\ L \in Nat /\ L <= N + 2 /\ DOMAIN s = 1..L /\ N \in Nat
  BY ListFacts, NFact
<1>2. t = [i \in 1..L |-> IF i \in 1..N THEN bootlist_def[i] ELSE s[i]]
  BY <1>1, DefFacts DEF restore
<1>3. \A i \in 1..L : i \in 1..N + 2 /\ s[i] \in Line
  BY ListFacts
<1>4. \A i \in 1..N : /\ bootlist_def[i].tag = Devices[i]
                      /\ bootlist_def[i] \in Line /\ Devices[i] \in Range(Devices)
  <2>1. bootlist_def \in Seq(Line) /\ Len(bootlist_def) = N
    BY DefFacts
  <2>2. \A i \in 1..N : bootlist_def[i] \in Line
    BY <2>1, SeqFacts
  <2>3. \A i \in 1..N : Devices[i] \in Range(Devices)
    BY DevicesFacts DEF N
  <2> QED BY <2>2, <2>3, DefFacts
<1> HIDE DEF t, L
<1>5. ASSUME NEW i \in 1..L
      PROVE  /\ t[i] \in Line
             /\ i <= N => t[i] = bootlist_def[i] /\ t[i].tag = Devices[i] /\ i \in 1..N
             /\ i > N => t[i] = s[i]
  <2>1. t[i] = IF i \in 1..N THEN bootlist_def[i] ELSE s[i]
    BY <1>2
  <2>2. (i \in 1..N <=> i <= N) /\ (i > N <=> ~(i <= N))
    BY <1>1
  <2>3. CASE i \in 1..N
    <3>1. t[i] = bootlist_def[i]
      BY <2>1, <2>3
    <3>2. t[i] \in Line /\ t[i].tag = Devices[i]
      BY <1>4, <2>3, <3>1
    <3> QED BY <2>2, <2>3, <3>1, <3>2
  <2>4. CASE i \notin 1..N
    BY <1>3, <2>1, <2>2, <2>4
  <2> QED BY <2>3, <2>4
<1>6. t \in Seq(Line) /\ Len(t) = L
  <2>1. t \in [1..L -> Line]
    <3>1. \A i \in 1..L : (IF i \in 1..N THEN bootlist_def[i] ELSE s[i]) \in Line
      BY <1>3, <1>4
    <3> QED BY <1>2, <3>1
  <2> QED BY <1>1, <2>1, FunctionIsSeq
<1>7. Placed(t)
  <2> SUFFICES ASSUME NEW i \in 1..L
               PROVE  (i <= N => t[i].tag \in Range(Devices)) /\ (i > N => t[i].tag = Shipped[i].tag)
    BY <1>6 DEF Placed
  <2>1. i > N => s[i].tag = Shipped[i].tag
    BY DEF ListOK, Placed, L
  <2> QED BY <1>4, <1>5, <2>1
<1>8. Once(t)
  <2> SUFFICES ASSUME NEW i \in 1..L, NEW j \in 1..L, t[i].tag = t[j].tag PROVE i = j
    BY <1>6 DEF Once
  <2>1. CASE i <= N /\ j <= N
    <3>1. Devices[i] = Devices[j] /\ i \in 1..N /\ j \in 1..N
      BY <1>5, <2>1
    <3> QED BY <3>1, DevicesFacts DEF N
  <2>2. CASE i > N /\ j > N
    <3>1. s[i].tag = s[j].tag
      BY <1>5, <2>2
    <3> QED BY <3>1 DEF ListOK, Once, L
  <2>3. ASSUME NEW x \in 1..L, NEW y \in 1..L, x <= N, y > N, t[x].tag = t[y].tag PROVE FALSE
    <3>1. t[x].tag \in Range(Devices) /\ t[y].tag = Shipped[y].tag /\ y \in 1..N + 2
      BY <1>3, <1>6, <1>7, <2>3 DEF Placed
    <3> QED BY <2>3, <3>1, SlotFacts
  <2>4. (i <= N \/ i > N) /\ (j <= N \/ j > N)
    BY <1>1
  <2> QED BY <2>1, <2>2, <2>3, <2>4
<1>9. Full(t)
  <2> SUFFICES ASSUME L = N + 2, NEW d \in Range(Devices) PROVE \E i \in 1..N : t[i].tag = d
    BY <1>6 DEF Full
  <2>1. PICK i \in 1..N : d = Devices[i]
    BY DeviceHasPlace
  <2>2. i \in 1..L /\ i <= N
    BY <1>1
  <2> QED BY <1>5, <2>1, <2>2
<1>10. Offset(t, L) <= Offset(Shipped, N + 2)
  <2>1. ASSUME NEW i \in 1..L PROVE Bytes(t[i]) <= Bytes(Shipped[i])
    <3>1. t[i] \in Line /\ i \in 1..N + 2 /\ Shipped[i] \in Line
      BY <1>3, <1>5, SlotFacts
    <3>2. t[i].tag = Shipped[i].tag
      <4>1. CASE i <= N
        BY <1>5, <3>1, <4>1, SlotFacts
      <4>2. CASE i > N
        BY <1>6, <1>7, <4>2 DEF Placed
      <4> QED BY <1>1, <4>1, <4>2
    <3>3. t[i].cr \in 0..1 /\ Shipped[i].cr = 1
      BY <3>1, SlotFacts, LineFacts
    <3> DEFINE a == IF t[i].tag \in Tagged THEN TagLen + 2 ELSE LineLen[t[i].tag]
    <3>4. Bytes(t[i]) = a + t[i].cr /\ Bytes(Shipped[i]) = a + Shipped[i].cr
      BY <3>2 DEF Bytes
    <3>5. a \in Nat
      <4>1. t[i].tag \in Range(Devices) \/ t[i].tag \in Tagged
        BY <3>1, LineFacts DEF Tagged
      <4> QED BY <4>1, DevicesAssumption DEF TagLen
    <3> HIDE DEF a
    <3> QED BY <3>3, <3>4, <3>5
  <2>2. Shipped \in Seq(Line) /\ Len(Shipped) = N + 2
    BY ShippedFacts
  <2>3. Offset(t, L) <= Offset(Shipped, L)
    <3>1. L \in Nat /\ L <= Len(t) /\ L <= Len(Shipped)
      BY <1>1, <1>6, <2>2
    <3> QED BY <1>6, <2>1, <2>2, <3>1, OffsetCompare
  <2>4. L \in 0..Len(Shipped) /\ N + 2 \in 0..Len(Shipped) /\ L <= N + 2 /\ L \in 0..Len(t)
    BY <1>1, <1>6, <2>2
  <2>5. Offset(Shipped, L) <= Offset(Shipped, N + 2)
    BY <2>2, <2>4, OffsetGrows
  <2>6. Offset(t, L) \in Nat /\ Offset(Shipped, L) \in Nat /\ Offset(Shipped, N + 2) \in Nat
    BY <1>6, <2>2, <2>4, OffsetFacts
  <2> QED BY <2>3, <2>5, <2>6
<1>11. ListOK(t)
  BY <1>1, <1>6, <1>7, <1>8, <1>9, <1>10 DEF ListOK
<1> QED BY <1>5, <1>6, <1>11 DEF t, L

\* A letter: a line goes to the top of the devices.
LEMMA MoveOK ==
    ASSUME NEW s, ListOK(s), NEW n \in 1..Len(s), n <= N
    PROVE  ListOK(ToTop(s, n))
<1> DEFINE t == ToTop(s, n)
           L == Len(s)
           From(i) == IF i = 1 THEN n ELSE IF i <= n THEN i - 1 ELSE i
<1>1. s \in Seq(Line) /\ L \in Nat /\ L <= N + 2 /\ DOMAIN s = 1..L /\ N \in Nat /\ n \in 1..L
  BY ListFacts, NFact
<1>2. /\ t \in Seq(Line) /\ Len(t) = L /\ t[1] = s[n]
      /\ \A i \in 2..n : t[i] = s[i - 1]
      /\ \A i \in n + 1..L : t[i] = s[i]
  BY <1>1, ToTopFacts, ZenonT(30)
<1>3. \A i \in 1..L : i \in 1..N + 2 /\ s[i] \in Line
  BY ListFacts
<1> HIDE DEF L, t
<1>4. ASSUME NEW i \in 1..L
      PROVE  /\ From(i) \in 1..L /\ t[i] = s[From(i)]
             /\ (From(i) <= N) <=> (i <= N)
             /\ i > N => From(i) = i
  <2>1. CASE i = 1
    BY <1>1, <1>2, <2>1
  <2>2. CASE i # 1 /\ i <= n
    <3>1. i \in 2..n
      BY <1>1, <2>2
    <3>2. t[i] = s[i - 1]
      BY <1>2, <3>1
    <3> QED BY <1>1, <2>2, <3>2
  <2>3. CASE i # 1 /\ ~(i <= n)
    <3>1. i \in n + 1..L
      BY <1>1, <2>3
    <3>2. t[i] = s[i]
      BY <1>2, <3>1
    <3> QED BY <1>1, <2>3, <3>2
  <2> QED BY <2>1, <2>2, <2>3
<1>5. \A i, j \in 1..L : From(i) = From(j) => i = j
  BY <1>1
<1>6. \A k \in 1..L : \E i \in 1..L : From(i) = k
  <2> TAKE k \in 1..L
  <2>1. CASE k = n
    BY <1>1, <2>1
  <2>2. CASE k < n
    <3>1. k + 1 \in 1..L /\ From(k + 1) = k
      BY <1>1, <2>2
    <3> QED BY <3>1
  <2>3. CASE k > n
    BY <1>1, <2>3
  <2> QED BY <1>1, <2>1, <2>2, <2>3
<1> HIDE DEF From
<1>7. Placed(t)
  <2> SUFFICES ASSUME NEW i \in 1..L
               PROVE  (i <= N => t[i].tag \in Range(Devices)) /\ (i > N => t[i].tag = Shipped[i].tag)
    BY <1>2 DEF Placed
  <2>1. \A k \in 1..L : (k <= N => s[k].tag \in Range(Devices)) /\ (k > N => s[k].tag = Shipped[k].tag)
    BY DEF ListOK, Placed, L
  <2> QED BY <1>4, <2>1
<1>8. Once(t)
  <2> SUFFICES ASSUME NEW i \in 1..L, NEW j \in 1..L, t[i].tag = t[j].tag PROVE i = j
    BY <1>2 DEF Once
  <2>1. \A k, l \in 1..L : s[k].tag = s[l].tag => k = l
    BY DEF ListOK, Once, L
  <2> QED BY <1>4, <1>5, <2>1, SMTT(30)
<1>9. Full(t)
  <2> SUFFICES ASSUME L = N + 2, NEW d \in Range(Devices) PROVE \E i \in 1..N : t[i].tag = d
    BY <1>2 DEF Full
  <2>1. PICK k \in 1..N : s[k].tag = d
    BY DEF ListOK, Full, L
  <2>2. k \in 1..L /\ k <= N
    BY <1>1
  <2>3. PICK i \in 1..L : From(i) = k
    BY <1>6, <2>2
  <2>4. i <= N /\ t[i].tag = d
    BY <1>4, <2>1, <2>2, <2>3
  <2>5. i \in 1..N
    BY <1>1, <2>4
  <2> QED BY <2>4, <2>5
<1>10. Offset(t, L) <= Offset(Shipped, N + 2)
  <2>1. Offset(t, L) = Offset(s, L)
    BY <1>1, OffsetToTop DEF t, L
  <2> QED BY <2>1 DEF ListOK, L
<1> QED BY <1>1, <1>2, <1>7, <1>8, <1>9, <1>10 DEF ListOK, t

\* The key E: the digit behind a setting's tag.
LEMMA UpdateOK ==
    ASSUME NEW s, ListOK(s), NEW tag \in Tagged, NEW v \in 0..1
    PROVE  /\ ListOK(update_tag_value(s, tag, v))
           /\ Len(update_tag_value(s, tag, v)) = Len(s)
           /\ \A i \in 1..Len(s) :
                 /\ update_tag_value(s, tag, v)[i].tag = s[i].tag
                 /\ s[i].tag = tag => update_tag_value(s, tag, v)[i].digit = v
                 /\ s[i].tag # tag => update_tag_value(s, tag, v)[i] = s[i]
<1> DEFINE t == update_tag_value(s, tag, v)
           L == Len(s)
           hit == {i \in DOMAIN s : s[i].tag = tag}
<1>1. s \in Seq(Line) /\ L \in Nat /\ L <= N + 2 /\ DOMAIN s = 1..L /\ N \in Nat
  BY ListFacts, NFact
<1>2. \A i \in 1..L : i \in 1..N + 2 /\ s[i] \in Line
  BY ListFacts
<1>3. t = IF hit = {} THEN s ELSE [s EXCEPT ![Min(hit)].digit = v]
  BY DEF update_tag_value
<1>4. \A i, j \in 1..L : s[i].tag = s[j].tag => i = j
  BY DEF ListOK, Once
<1> HIDE DEF t, L
<1>5. CASE hit = {}
  <2>1. t = s /\ \A i \in 1..L : s[i].tag # tag
    BY <1>1, <1>3, <1>5
  <2> HIDE DEF hit
  <2> QED BY <2>1 DEF t, L
<1>6. CASE hit # {}
  <2>1. PICK m : m = Min(hit)
    OBVIOUS
  <2>2. m \in 1..L /\ s[m].tag = tag
    <3>1. hit \subseteq Nat
      BY <1>1
    <3>2. Min(hit) \in hit
      <4> HIDE DEF hit
      <4> QED BY <1>6, <3>1, LeastIsMin
    <3> QED BY <1>1, <2>1, <3>2
  <2> DEFINE e == [s[m] EXCEPT !.digit = v]
  <2>3. t = [s EXCEPT ![m] = e]
    <3>1. t = [s EXCEPT ![m].digit = v]
      BY <1>3, <1>6, <2>1
    <3> QED BY <3>1
  <2>4. s[m] = [tag |-> s[m].tag, digit |-> s[m].digit, cr |-> s[m].cr] /\ s[m].cr \in 0..1
    BY <1>2, <2>2, LineFacts
  <2>5. e = [tag |-> tag, digit |-> v, cr |-> s[m].cr]
    BY <2>2, <2>4
  <2>6. e \in Line /\ e.tag = tag /\ e.digit = v /\ e.cr = s[m].cr
    <3> HIDE DEF e
    <3> QED BY <2>4, <2>5 DEF Line
  <2> HIDE DEF e
  <2>7. t \in Seq(Line) /\ Len(t) = L /\ \A i \in 1..L : t[i] = IF i = m THEN e ELSE s[i]
    BY <1>1, <2>2, <2>3, <2>6, ExceptSeq DEF L
  <2>8. \A i \in 1..L : t[i].tag = s[i].tag /\ t[i].cr = s[i].cr
    BY <2>2, <2>6, <2>7
  <2>9. Placed(t)
    <3>1. \A i \in 1..L : (i <= N => s[i].tag \in Range(Devices)) /\ (i > N => s[i].tag = Shipped[i].tag)
      BY DEF ListOK, Placed, L
    <3> QED BY <2>7, <2>8, <3>1 DEF Placed
  <2>10. Once(t)
    BY <1>4, <2>7, <2>8 DEF Once, L
  <2>11. Full(t)
    <3> SUFFICES ASSUME L = N + 2, NEW d \in Range(Devices) PROVE \E i \in 1..N : t[i].tag = d
      BY <2>7 DEF Full
    <3>1. PICK i \in 1..N : s[i].tag = d
      BY DEF ListOK, Full, L
    <3>2. i \in 1..L
      BY <1>1
    <3> QED BY <2>8, <3>1, <3>2
  <2>12. Offset(t, L) <= Offset(Shipped, N + 2)
    <3>1. \A i \in 1..L : Bytes(t[i]) = Bytes(s[i]) /\ Bytes(s[i]) \in Nat
      <4> TAKE i \in 1..L
      <4>1. Bytes(t[i]) = Bytes(s[i])
        BY <2>8 DEF Bytes
      <4>2. Bytes(s[i]) \in Nat
        BY <1>2, LineFacts
      <4> QED BY <4>1, <4>2
    <3>2. \A i \in 1..L : Bytes(t[i]) <= Bytes(s[i])
      <4> TAKE i \in 1..L
      <4>1. Bytes(t[i]) = Bytes(s[i]) /\ Bytes(s[i]) \in Nat
        BY <3>1
      <4> QED BY <4>1
    <3>3. Offset(t, L) <= Offset(s, L)
      <4>1. L \in Nat /\ L <= Len(t) /\ L <= Len(s)
        BY <1>1, <2>7 DEF L
      <4> QED BY <1>1, <2>7, <3>2, <4>1, OffsetCompare
    <3>4. Offset(s, L) <= Offset(Shipped, N + 2)
      BY DEF ListOK, L
    <3>5. Offset(t, L) \in Nat /\ Offset(s, L) \in Nat
      <4>1. L \in 0..Len(t) /\ L \in 0..Len(s)
        BY <1>1, <2>7 DEF L
      <4> QED BY <1>1, <2>7, <4>1, OffsetFacts
    <3> QED BY <3>3, <3>4, <3>5, TotalFact
  <2>13. ListOK(t)
    BY <1>1, <2>7, <2>9, <2>10, <2>11, <2>12 DEF ListOK
  <2>14. \A i \in 1..L : (s[i].tag = tag => t[i].digit = v) /\ (s[i].tag # tag => t[i] = s[i])
    BY <1>4, <2>2, <2>6, <2>7
  <2> QED BY <2>7, <2>8, <2>13, <2>14 DEF t, L
<1> QED BY <1>5, <1>6

-----------------------------------------------------------------------------
(* What a boot and the payload read *)

\* The shape of a sector that holds a list of the menu.
SectorOK(f) == f \in [lines : Seq(Line), good : Nat] /\ ListOK(f.lines)

LEMMA SectorFacts ==
    ASSUME NEW f, SectorOK(f)
    PROVE  /\ f.good \in Nat /\ ListOK(f.lines) /\ PackedLen(f.lines) \in Nat
           /\ f = [lines |-> f.lines, good |-> f.good]
<1>1. f.good \in Nat /\ f = [lines |-> f.lines, good |-> f.good] /\ ListOK(f.lines)
  BY DEF SectorOK
<1>2. Offset(f.lines, Len(f.lines)) \in Nat
  BY <1>1, ListFacts
<1>3. PackedLen(f.lines) \in Nat
  BY <1>2 DEF PackedLen
<1> QED BY <1>1, <1>3

LEMMA FetchFacts ==
    ASSUME NEW f, SectorOK(f)
    PROVE  /\ ListOK(fetch_file_from_cbfs(f))
           /\ Terminated(f) => fetch_file_from_cbfs(f) = f.lines
<1> DEFINE s == f.lines
           L == Len(s)
           whole == {k \in 0..L : Offset(s, k) <= f.good}
<1>1. ListOK(s) /\ f.good \in Nat /\ s \in Seq(Line) /\ L \in Nat /\ Offset(s, L) \in Nat
  BY SectorFacts, ListFacts
<1>2. fetch_file_from_cbfs(f) = SubSeq(s, 1, Max(whole))
  BY DEF fetch_file_from_cbfs
<1>3. 0 \in whole
  BY <1>1, OffsetFacts
<1>4. PICK m : m = Max(whole)
  OBVIOUS
<1>5. m \in whole /\ \A y \in whole : m >= y
  <2>1. whole \subseteq 0..L /\ whole # {}
    BY <1>3
  <2> HIDE DEF whole, L
  <2> QED BY <1>1, <1>4, <2>1, GreatestIsMax
<1>6. ListOK(SubSeq(s, 1, m))
  BY <1>1, <1>5, PrefixOK
<1>7. ASSUME Terminated(f) PROVE SubSeq(s, 1, m) = s
  <2>1. f.good >= Offset(s, L) + 1
    BY <1>7 DEF Terminated, PackedLen
  <2>2. L \in whole
    BY <1>1, <2>1
  <2>3. m = L
    BY <1>1, <1>5, <2>2
  <2> QED BY <1>1, <2>3, SubSeqFull
<1> QED BY <1>2, <1>4, <1>6, <1>7

\* In a whole file a search sees every line with the tag.
LEMMA FoundFacts ==
    ASSUME NEW f, SectorOK(f), NEW tag \in Tagged, NEW n \in TagLen..TagLen + 1
    PROVE  /\ Found(f, tag, n) \subseteq {k \in 1..Len(f.lines) : f.lines[k].tag = tag}
           /\ Terminated(f) => Found(f, tag, n) = {k \in 1..Len(f.lines) : f.lines[k].tag = tag}
<1> DEFINE s == f.lines
           L == Len(s)
<1>1. ListOK(s) /\ f.good \in Nat /\ s \in Seq(Line) /\ L \in Nat /\ DOMAIN s = 1..L
  BY SectorFacts, ListFacts
<1>2. Found(f, tag, n) = {k \in 1..L : s[k].tag = tag /\ Offset(s, k - 1) + n <= f.good}
  BY <1>1 DEF Found
<1>3. ASSUME Terminated(f), NEW k \in 1..L, s[k].tag = tag PROVE Offset(s, k - 1) + n <= f.good
  <2>1. f.good >= Offset(s, L) + 1
    BY <1>3 DEF Terminated, PackedLen
  <2>2. k \in 0..L /\ k - 1 \in 0..L /\ L \in 0..L /\ k <= L
    BY <1>1
  <2>3. Offset(s, k) <= Offset(s, L)
    BY <1>1, <2>2, OffsetGrows
  <2>4. Offset(s, k) = Offset(s, k - 1) + Bytes(s[k])
    BY <1>1, OffsetFacts
  <2>5. Offset(s, k) \in Nat /\ Offset(s, k - 1) \in Nat /\ Offset(s, L) \in Nat
    BY <1>1, <2>2, OffsetFacts
  <2>6. s[k] \in Line
    BY <1>1, SeqFacts
  <2>7. s[k].tag \notin Range(Devices)
    BY <1>3, DevicesFacts DEF Tagged
  <2>8. Bytes(s[k]) \in Nat /\ Bytes(s[k]) >= TagLen + 2
    BY <2>6, <2>7, LineFacts
  <2>9. n \in Nat /\ n <= TagLen + 1 /\ TagLen \in Nat
    BY DEF TagLen
  <2> QED BY <1>1, <2>1, <2>3, <2>4, <2>5, <2>8, <2>9
<1> QED BY <1>2, <1>3

LEMMA ToggleType ==
    ASSUME NEW f, SectorOK(f), NEW tag \in Tagged
    PROVE  InitialToggle(f, tag) \subseteq 0..1
<1>1. TagLen \in TagLen..TagLen + 1
  BY DEF TagLen
<1>2. \A k \in Found(f, tag, TagLen) : k \in 1..Len(f.lines)
  BY <1>1, FoundFacts
<1>3. \A k \in 1..Len(f.lines) : f.lines[k].digit \in 0..1
  BY SectorFacts, ListFacts, LineFacts
<1>4. \A k \in Found(f, tag, TagLen) : f.lines[k].digit \in 0..1
  BY <1>2, <1>3
<1>5. CASE Found(f, tag, TagLen) = {}
  BY <1>5 DEF InitialToggle
<1>6. CASE Found(f, tag, TagLen) # {}
  <2>1. InitialToggle(f, tag) =
          {IF k \in Found(f, tag, TagLen + 1) THEN f.lines[k].digit ELSE 0 : k \in Found(f, tag, TagLen)}
    BY <1>6 DEF InitialToggle
  <2> QED BY <1>4, <2>1
<1> QED BY <1>5, <1>6

\* Every line with the tag has this digit.
Digit(s, tag, v) == \A k \in 1..Len(s) : s[k].tag = tag => s[k].digit = v

LEMMA ToggleRead ==
    ASSUME NEW f, SectorOK(f), Terminated(f), NEW tag \in Tagged, NEW v, Digit(f.lines, tag, v),
           \E k \in 1..Len(f.lines) : f.lines[k].tag = tag
    PROVE  InitialToggle(f, tag) = {v}
<1> DEFINE K == {k \in 1..Len(f.lines) : f.lines[k].tag = tag}
<1>1. TagLen \in TagLen..TagLen + 1 /\ TagLen + 1 \in TagLen..TagLen + 1
  BY DEF TagLen
<1>2. Found(f, tag, TagLen) = K /\ Found(f, tag, TagLen + 1) = K
  BY <1>1, FoundFacts
<1>3. K # {} /\ \A k \in K : f.lines[k].digit = v
  BY DEF Digit
<1> HIDE DEF K
<1>4. InitialToggle(f, tag) = {IF k \in K THEN f.lines[k].digit ELSE 0 : k \in K}
  BY <1>2, <1>3 DEF InitialToggle
<1> QED BY <1>3, <1>4

LEMMA ConsoleRead ==
    ASSUME NEW f, SectorOK(f), Terminated(f), NEW v, Digit(f.lines, "scon", v),
           \E k \in 1..Len(f.lines) : f.lines[k].tag = "scon"
    PROVE  scon1(f) <=> v = 1
<1> DEFINE K == {k \in 1..Len(f.lines) : f.lines[k].tag = "scon"}
<1>1. TagLen + 1 \in TagLen..TagLen + 1 /\ "scon" \in Tagged
  BY DEF TagLen, Tagged
<1>2. Found(f, "scon", TagLen + 1) = K
  BY <1>1, FoundFacts
<1>3. K # {} /\ \A k \in K : f.lines[k].digit = v
  BY DEF Digit
<1> HIDE DEF K
<1> QED BY <1>2, <1>3 DEF scon1

-----------------------------------------------------------------------------
(* The letters *)

Letter(l) == IF l.tag \in Range(Devices) THEN l.tag ELSE NUL

Letters(ids, s) == \A i \in 1..Len(s) : ids[i] = Letter(s[i])

IdType == [1..N + 2 -> Range(Devices) \cup {NUL}]

LEMMA FirstLetters ==
    ASSUME NEW s, ListOK(s)
    PROVE  LET ids == int_ids(s, [i \in DOMAIN Shipped |-> NUL])
           IN  ids \in IdType /\ Letters(ids, s)
<1> DEFINE ids == int_ids(s, [i \in DOMAIN Shipped |-> NUL])
           L == Len(s)
<1>1. DOMAIN Shipped = 1..N + 2 /\ DOMAIN s = 1..L /\ \A i \in 1..L : i \in 1..N + 2
  BY ShippedFacts, ListFacts
<1>2. ids = [i \in 1..N + 2 |-> IF i \in 1..L /\ s[i].tag \in Range(Devices) THEN s[i].tag ELSE NUL]
  BY <1>1 DEF int_ids
<1>3. ids \in IdType
  <2> HIDE DEF ids, L
  <2> QED BY <1>2 DEF IdType
<1>4. Letters(ids, s)
  <2> HIDE DEF ids
  <2> QED BY <1>1, <1>2 DEF Letters, Letter
<1> QED BY <1>3, <1>4

LEMMA LettersRestored ==
    ASSUME NEW s, ListOK(s), NEW ids \in IdType, Letters(ids, s)
    PROVE  int_ids(restore(s), ids) \in IdType /\ Letters(int_ids(restore(s), ids), restore(s))
<1> DEFINE t == restore(s)
           L == Len(s)
           new == int_ids(t, ids)
<1>1. ListOK(t) /\ Len(t) = L /\ \A i \in 1..L : i > N => t[i] = s[i]
  BY RestoreOK
<1> HIDE DEF t
<1>2. DOMAIN ids = 1..N + 2 /\ DOMAIN t = 1..L /\ \A i \in 1..L : i \in 1..N + 2
  BY <1>1, ListFacts DEF IdType
<1>3. new = [i \in 1..N + 2 |-> IF i \in 1..L /\ t[i].tag \in Range(Devices) THEN t[i].tag ELSE ids[i]]
  BY <1>2 DEF int_ids
<1> HIDE DEF new, L
<1>4. new \in IdType
  <2>1. \A i \in 1..N + 2 : ids[i] \in Range(Devices) \cup {NUL}
    BY DEF IdType
  <2> QED BY <1>3, <2>1 DEF IdType
<1>5. ASSUME NEW i \in 1..L PROVE new[i] = Letter(t[i])
  <2>1. CASE t[i].tag \in Range(Devices)
    BY <1>2, <1>3, <2>1 DEF Letter
  <2>2. CASE t[i].tag \notin Range(Devices)
    <3>1. i > N
      <4>1. i <= N => t[i].tag \in Range(Devices)
        BY <1>1 DEF ListOK, Placed
      <4>2. i \in Nat /\ N \in Nat
        BY NFact
      <4> QED BY <2>2, <4>1, <4>2
    <3>2. t[i] = s[i]
      BY <1>1, <3>1
    <3>3. ids[i] = NUL
      BY <2>2, <3>2 DEF Letters, Letter, L
    <3>4. new[i] = ids[i]
      BY <1>2, <1>3, <2>2
    <3> QED BY <2>2, <3>3, <3>4 DEF Letter
  <2> QED BY <2>1, <2>2
<1>6. Letters(new, t)
  BY <1>1, <1>5 DEF Letters
<1> QED BY <1>4, <1>6 DEF new, t

\* A letter that is on the list names the line of its device; any other letter
\* moves the first line onto itself.
LEMMA LineNumber ==
    ASSUME NEW s, ListOK(s), NEW ids, Letters(ids, s), NEW key \in Range(Devices) \cup {"z"}
    PROVE  LET n == get_line_number(s, ids, key)
           IN  \/ n = 1 /\ \A i \in 1..Len(s) : s[i].tag # key \/ key = "z"
               \/ n \in 1..Len(s) /\ n <= N /\ s[n].tag = key
<1> DEFINE L == Len(s)
           hit == {i \in DOMAIN s : ids[i] = key}
           n == get_line_number(s, ids, key)
<1>1. s \in Seq(Line) /\ L \in Nat /\ DOMAIN s = 1..L /\ N \in Nat
  BY ListFacts, NFact
<1>2. n = IF hit = {} THEN 1 ELSE Min(hit)
  BY DEF get_line_number
<1>3. \A i \in 1..L : ids[i] = Letter(s[i])
  BY DEF Letters
<1>4. key # NUL
  <2>1. NUL \notin Range(Devices) /\ NUL # "z"
    BY DevicesFacts DEF NUL
  <2> QED BY <2>1
<1> HIDE DEF n
<1>5. CASE hit = {}
  <2>1. n = 1
    BY <1>2, <1>5
  <2>2. ASSUME NEW i \in 1..L PROVE s[i].tag # key \/ key = "z"
    <3> SUFFICES ASSUME s[i].tag = key, key # "z" PROVE FALSE
      OBVIOUS
    <3>1. key \in Range(Devices)
      OBVIOUS
    <3>2. ids[i] = key
      BY <1>3, <3>1 DEF Letter
    <3> QED BY <1>1, <1>5, <3>2
  <2> QED BY <2>1, <2>2 DEF n
<1>6. CASE hit # {}
  <2>1. hit \subseteq Nat
    BY <1>1
  <2>2. n \in hit
    <3> HIDE DEF hit
    <3> QED BY <1>2, <1>6, <2>1, LeastIsMin
  <2>3. n \in 1..L /\ ids[n] = key
    BY <1>1, <2>2
  <2>4. s[n].tag \in Range(Devices) /\ s[n].tag = key
    BY <1>3, <1>4, <2>3 DEF Letter
  <2>5. n <= N
    <3>1. n > N => s[n].tag = Shipped[n].tag
      BY <2>3 DEF ListOK, Placed
    <3>2. n \in 1..N + 2
      BY <2>3, ListFacts
    <3> QED BY <1>1, <2>4, <3>1, <3>2, SlotFacts
  <2> QED BY <2>3, <2>4, <2>5 DEF n
<1> QED BY <1>5, <1>6

LEMMA ToTopFirst ==
    ASSUME NEW S, NEW s \in Seq(S)
    PROVE  ToTop(s, 1) = s
<1> DEFINE L == Len(s)
           F(i) == CASE i = 1 -> s[1] [] i \in 2..1 -> s[i - 1] [] OTHER -> s[i]
<1>1. L \in Nat /\ DOMAIN s = 1..L /\ s = [i \in 1..L |-> s[i]]
  BY LenProperties
<1>2. ToTop(s, 1) = [i \in 1..L |-> F(i)]
  BY <1>1 DEF ToTop
<1>3. \A i \in 1..L : F(i) = s[i]
  <2> TAKE i \in 1..L
  <2>1. i \notin 2..1
    BY <1>1
  <2>2. CASE i = 1
    BY <2>2
  <2>3. CASE i # 1
    BY <2>1, <2>3
  <2> QED BY <2>2, <2>3
<1> HIDE DEF F, L
<1>4. [i \in 1..L |-> F(i)] = [i \in 1..L |-> s[i]]
  BY <1>3
<1> QED BY <1>1, <1>2, <1>4

LEMMA LettersMoved ==
    ASSUME NEW s, ListOK(s), NEW ids \in IdType, Letters(ids, s), NEW n \in 1..Len(s)
    PROVE  ToTop(ids, n) \in IdType /\ Letters(ToTop(ids, n), ToTop(s, n))
<1> DEFINE L == Len(s)
           t == ToTop(s, n)
           new == ToTop(ids, n)
           D == Range(Devices) \cup {NUL}
<1>1. s \in Seq(Line) /\ L \in Nat /\ L <= N + 2 /\ N \in Nat /\ n \in 1..L
  BY ListFacts, NFact
<1>2. ids \in Seq(D) /\ Len(ids) = N + 2
  <2>1. N + 2 \in Nat /\ ids \in [1..N + 2 -> D]
    BY <1>1 DEF IdType
  <2> HIDE DEF D
  <2> QED BY <2>1, FunctionIsSeq
<1>3. n \in 1..Len(ids)
  BY <1>1, <1>2
<1>4. /\ t \in Seq(Line) /\ Len(t) = L /\ t[1] = s[n]
      /\ \A i \in 2..n : t[i] = s[i - 1]
      /\ \A i \in n + 1..L : t[i] = s[i]
  BY <1>1, ToTopFacts
<1>5. /\ new \in Seq(D) /\ Len(new) = N + 2 /\ new[1] = ids[n]
      /\ \A i \in 2..n : new[i] = ids[i - 1]
      /\ \A i \in n + 1..N + 2 : new[i] = ids[i]
  <2> HIDE DEF D
  <2> QED BY <1>2, <1>3, ToTopFacts
<1>6. \A i \in 1..L : ids[i] = Letter(s[i])
  BY DEF Letters
<1>7. new \in IdType
  <2>1. new \in [1..Len(new) -> D]
    <3> HIDE DEF new, D
    <3> QED BY <1>5, LenProperties
  <2> QED BY <1>5, <2>1 DEF IdType
<1> HIDE DEF L, t, new, D
<1>8. ASSUME NEW i \in 1..L PROVE new[i] = Letter(t[i])
  <2>1. CASE i = 1
    BY <1>1, <1>4, <1>5, <1>6, <2>1
  <2>2. CASE i \in 2..n
    <3>1. i - 1 \in 1..L
      BY <1>1, <2>2
    <3> QED BY <1>4, <1>5, <1>6, <2>2, <3>1
  <2>3. CASE i \in n + 1..L
    <3>1. i \in n + 1..N + 2
      BY <1>1, <2>3
    <3> QED BY <1>4, <1>5, <1>6, <2>3, <3>1
  <2>4. i = 1 \/ i \in 2..n \/ i \in n + 1..L
    BY <1>1
  <2> QED BY <2>1, <2>2, <2>3, <2>4
<1>9. Letters(new, t)
  BY <1>4, <1>8 DEF Letters
<1> QED BY <1>7, <1>9 DEF t, new

-----------------------------------------------------------------------------
(* The invariant *)

PCs == {"boot", "prompt", "menu", "probe", "erase", "write"}

Types ==
    /\ pc \in PCs
    /\ button \in BOOLEAN /\ console \in BOOLEAN /\ torn \in BOOLEAN
    /\ serial_toggle \in 0..1 /\ ipxe_toggle \in 0..1
    /\ nvram_pos \in Nat /\ nvram_pos % Word = 0
    /\ losses \in 0..MaxLosses /\ saves \in 0..MaxSaves
    /\ asked \in [Tagged -> 0..1]
    /\ flash.good <= PackedLen(Shipped) + Word

\* Every list is one the menu can show, also what a power failure left of it.
Lists ==
    /\ SectorOK(flash) /\ ListOK(bootlist) /\ ListOK(stored)
    /\ id \in IdType /\ (pc = "menu" => Letters(id, bootlist))

\* Before a save begins to erase, the sector holds the stored list; then it holds
\* the words of the new one that were written.
Sector ==
    /\ (~torn /\ pc # "write") => flash.lines = stored /\ flash.good >= PackedLen(stored)
    /\ pc = "write" => /\ flash.lines = bootlist /\ flash.good = nvram_pos
                       /\ nvram_pos <= WholeWords(PackedLen(bootlist))

\* The payload works on all of the stored list.
Whole == (~torn /\ pc \in {"menu", "probe", "erase"}) => Len(bootlist) = Len(stored)

\* The lines of the settings carry the switches at the time of the save.
Settings ==
    /\ pc \in {"probe", "erase", "write"} =>
          Digit(bootlist, "scon", serial_toggle) /\ Digit(bootlist, "pxen", ipxe_toggle)
    /\ Digit(stored, "scon", asked["scon"]) /\ Digit(stored, "pxen", asked["pxen"])

ConsoleRight == pc = "prompt" => (console <=> (scon1(flash) \/ button))

IInv == Types /\ Lists /\ Sector /\ Whole /\ Settings /\ ConsoleRight

LEMMA PackedFacts ==
    ASSUME NEW s, ListOK(s)
    PROVE  /\ PackedLen(s) \in Nat /\ PackedLen(Shipped) \in Nat
           /\ PackedLen(s) <= PackedLen(Shipped) /\ PackedLen(s) < 256
<1>1. Offset(s, Len(s)) \in Nat /\ Offset(Shipped, N + 2) \in Nat
  BY ListFacts, TotalFact
<1>2. Offset(s, Len(s)) <= Offset(Shipped, N + 2)
  BY DEF ListOK
<1>3. PackedLen(Shipped) = Offset(Shipped, N + 2) + 1
  BY ShippedFacts DEF PackedLen
<1>4. PackedLen(s) = Offset(s, Len(s)) + 1
  BY DEF PackedLen
<1> QED BY <1>1, <1>2, <1>3, <1>4, FitAssumption

\* The word loop and the tail.
LEMMA WordFacts ==
    ASSUME NEW p \in Nat, p < 256
    PROVE  /\ WholeWords(p) \in Nat /\ WholeWords(p) <= p /\ p <= WholeWords(p) + 3
           /\ \A a \in Nat : (a % Word = 0 /\ a < WholeWords(p)) => a + Word <= WholeWords(p)
           /\ \A a \in Nat : a % Word = 0 => (a + Word) % Word = 0
           /\ 0 % Word = 0
<1>1. p % 256 = p
  OBVIOUS
<1>2. WholeWords(p) = (p \div 4) * 4
  BY <1>1 DEF WholeWords, Word
<1> DEFINE w == p \div 4
<1>3. w \in Nat /\ w * 4 <= p /\ p <= w * 4 + 3
  OBVIOUS
<1> HIDE DEF w
<1>4. \A a \in Nat : (a % 4 = 0 /\ a < w * 4) => a + 4 <= w * 4
  BY <1>3
<1>5. \A a \in Nat : a % 4 = 0 => (a + 4) % 4 = 0
  OBVIOUS
<1> QED BY <1>2, <1>3, <1>4, <1>5 DEF w, Word

LEMMA InitOK == Init => IInv
<1> SUFFICES ASSUME Init PROVE IInv
  OBVIOUS
<1>1. PackedLen(Shipped) \in Nat /\ ListOK(Shipped)
  BY ShippedOK, PackedFacts
<1>2. Types
  <2>1. asked \in [Tagged -> 0..1]
    BY DEF Init, Tagged
  <2>2. flash.good = PackedLen(Shipped)
    BY DEF Init
  <2>3. 0 % Word = 0 /\ flash.good <= PackedLen(Shipped) + Word
    BY <1>1, <2>2 DEF Word
  <2>4. pc \in PCs /\ button \in BOOLEAN /\ console \in BOOLEAN /\ torn \in BOOLEAN
    BY DEF Init, PCs
  <2>5. /\ serial_toggle \in 0..1 /\ ipxe_toggle \in 0..1 /\ nvram_pos \in Nat
        /\ losses \in 0..MaxLosses /\ saves \in 0..MaxSaves
    BY BoundAssumption DEF Init
  <2>6. nvram_pos % Word = 0
    BY <2>3 DEF Init
  <2> QED BY <2>1, <2>3, <2>4, <2>5, <2>6 DEF Types
<1>3. Lists
  <2>1. SectorOK(flash)
    <3>1. Shipped \in Seq(Line)
      BY ShippedFacts
    <3> QED BY <1>1, <3>1 DEF Init, SectorOK
  <2>2. id \in IdType
    BY ShippedFacts DEF Init, IdType
  <2> QED BY <1>1, <2>1, <2>2, EmptyOK DEF Init, Lists
<1>4. Sector
  BY <1>1 DEF Init, Sector
<1>5. Settings
  <2>1. \A k \in 1..N + 2 : Shipped[k].tag \in Tagged => Shipped[k].digit = 1
    <3> TAKE k \in 1..N + 2
    <3>1. Shipped[k].tag \in Tagged => Shipped[k].tag \notin Range(Devices)
      BY DevicesFacts DEF Tagged
    <3>2. k <= N \/ k > N
      BY NFact
    <3> QED BY <3>1, <3>2, SlotFacts
  <2>2. Len(Shipped) = N + 2
    BY ShippedFacts
  <2>3. Digit(Shipped, "scon", 1) /\ Digit(Shipped, "pxen", 1)
    BY <2>1, <2>2 DEF Digit, Tagged
  <2>4. stored = Shipped /\ asked["scon"] = 1 /\ asked["pxen"] = 1 /\ pc = "boot"
    BY DEF Init
  <2> QED BY <2>3, <2>4 DEF Settings
<1>6. Whole /\ ConsoleRight
  BY DEF Init, Whole, ConsoleRight
<1> QED BY <1>2, <1>3, <1>4, <1>5, <1>6 DEF IInv

-----------------------------------------------------------------------------
(* The steps *)

\* Every way back to the reset vector that leaves a whole or a torn sector.
LEMMA ResetOK ==
    ASSUME IInv, Reset, SectorOK(flash'), ListOK(stored'), torn' \in BOOLEAN,
           flash'.good <= PackedLen(Shipped) + Word,
           asked' \in [Tagged -> 0..1], losses' \in 0..MaxLosses, saves' \in 0..MaxSaves,
           ~torn' => flash'.lines = stored' /\ flash'.good >= PackedLen(stored'),
           Digit(stored', "scon", asked'["scon"]), Digit(stored', "pxen", asked'["pxen"])
    PROVE  IInv'
<1>1. Types'
  <2>1. pc' \in PCs /\ button' \in BOOLEAN /\ console' \in BOOLEAN
    BY DEF Reset, PCs, IInv, Types
  <2>2. serial_toggle' \in 0..1 /\ ipxe_toggle' \in 0..1 /\ nvram_pos' \in Nat /\ nvram_pos' = 0
    BY DEF Reset
  <2>3. nvram_pos' % Word = 0
    BY <2>2 DEF Word
  <2> QED BY <2>1, <2>2, <2>3 DEF Types
<1>2. Lists'
  <2>1. pc' = "boot" /\ bootlist' = <<>> /\ id' = [i \in DOMAIN Shipped |-> NUL]
    BY DEF Reset
  <2>2. id' \in IdType
    BY <2>1, ShippedFacts DEF IdType
  <2>3. ListOK(bootlist')
    BY <2>1, EmptyOK
  <2> QED BY <2>1, <2>2, <2>3 DEF Lists
<1>3. Sector' /\ Whole' /\ Settings' /\ ConsoleRight'
  BY DEF Reset, Sector, Whole, Settings, ConsoleRight
<1> QED BY <1>1, <1>2, <1>3 DEF IInv

\* The same when the sector and its history do not change.
LEMMA QuietReset ==
    ASSUME IInv, Reset, UNCHANGED <<flash, stored, asked>>, torn' \in BOOLEAN,
           ~torn' => ~torn /\ pc # "write", losses' \in 0..MaxLosses, saves' \in 0..MaxSaves
    PROVE  IInv'
<1>1. flash' = flash /\ stored' = stored /\ asked' = asked
  OBVIOUS
<1>2. SectorOK(flash') /\ ListOK(stored')
  BY <1>1 DEF IInv, Lists
<1>3. flash'.good <= PackedLen(Shipped) + Word /\ asked' \in [Tagged -> 0..1]
  BY <1>1 DEF IInv, Types
<1>4. ~torn' => flash'.lines = stored' /\ flash'.good >= PackedLen(stored')
  BY <1>1 DEF IInv, Sector
<1>5. Digit(stored', "scon", asked'["scon"]) /\ Digit(stored', "pxen", asked'["pxen"])
  BY <1>1 DEF IInv, Settings
<1> QED BY <1>2, <1>3, <1>4, <1>5, ResetOK

LEMMA BootOK == ASSUME IInv, Boot PROVE IInv'
<1>1. pc = "boot" /\ pc' = "prompt" /\ UNCHANGED <<flash, bootlist, id, serial_toggle, ipxe_toggle,
          nvram_pos, losses, saves, stored, asked, torn>>
  BY DEF Boot, menuVars
<1>2. button' \in BOOLEAN /\ console' = (scon1(flash) \/ button')
  BY DEF Boot
<1>3. console' \in BOOLEAN
  <2>1. (scon1(flash) \/ button') \in BOOLEAN
    BY <1>2, Zenon DEF scon1
  <2> QED BY <1>2, <2>1, Zenon
<1>4. Types'
  BY <1>1, <1>2, <1>3 DEF IInv, Types, PCs
<1>5. Lists' /\ Sector' /\ Whole' /\ Settings'
  BY <1>1 DEF IInv, Lists, Sector, Whole, Settings
<1>6. ConsoleRight'
  <2>1. flash' = flash
    BY <1>1
  <2>2. console' = (scon1(flash') \/ button')
    BY <1>2, <2>1
  <2> QED BY <2>2, Zenon DEF ConsoleRight
<1> QED BY <1>4, <1>5, <1>6 DEF IInv

LEMMA StartSetupOK == ASSUME IInv, StartSetup PROVE IInv'
<1>1. pc = "prompt" /\ pc' = "menu" /\ UNCHANGED <<flash, button, console,
          nvram_pos, losses, saves, stored, asked, torn>>
  BY DEF StartSetup
<1>2. SectorOK(flash)
  BY DEF IInv, Lists
<1>3. ListOK(bootlist') /\ (Terminated(flash) => bootlist' = flash.lines)
  BY <1>2, FetchFacts DEF StartSetup
<1>4. id' \in IdType /\ Letters(id', bootlist')
  <2>1. id' = int_ids(bootlist', [i \in DOMAIN Shipped |-> NUL])
    BY DEF StartSetup
  <2> QED BY <1>3, <2>1, FirstLetters
<1>5. serial_toggle' \in 0..1 /\ ipxe_toggle' \in 0..1
  BY <1>2, ToggleType DEF StartSetup, Tagged
<1>6. Types'
  BY <1>1, <1>5 DEF IInv, Types, PCs
<1>7. Lists'
  BY <1>1, <1>3, <1>4 DEF IInv, Lists
<1>8. Sector' /\ Settings' /\ ConsoleRight'
  BY <1>1 DEF IInv, Sector, Settings, ConsoleRight
<1>9. Whole'
  <2> SUFFICES ASSUME ~torn PROVE Len(bootlist') = Len(stored')
    BY <1>1 DEF Whole
  <2>1. flash.lines = stored /\ Terminated(flash)
    BY <1>1 DEF IInv, Sector, Terminated
  <2> QED BY <1>1, <1>3, <2>1
<1> QED BY <1>6, <1>7, <1>8, <1>9 DEF IInv

LEMMA KeyROK == ASSUME IInv, KeyR PROVE IInv'
<1>1. pc = "menu" /\ UNCHANGED <<pc, flash, button, console, serial_toggle, ipxe_toggle,
          nvram_pos, losses, saves, stored, asked, torn>>
  BY DEF KeyR
<1>2. ListOK(bootlist) /\ id \in IdType /\ Letters(id, bootlist)
  BY <1>1 DEF IInv, Lists
<1>3. bootlist' = restore(bootlist) /\ id' = int_ids(restore(bootlist), id)
  BY DEF KeyR
<1>4. ListOK(bootlist') /\ Len(bootlist') = Len(bootlist)
  BY <1>2, <1>3, RestoreOK
<1>5. id' \in IdType /\ Letters(id', bootlist')
  BY <1>2, <1>3, LettersRestored
<1>6. Types'
  BY <1>1 DEF IInv, Types
<1>7. Lists'
  BY <1>1, <1>4, <1>5 DEF IInv, Lists
<1>8. Sector' /\ Settings' /\ ConsoleRight'
  BY <1>1 DEF IInv, Sector, Settings, ConsoleRight
<1>9. Whole'
  BY <1>1, <1>4 DEF IInv, Whole
<1> QED BY <1>6, <1>7, <1>8, <1>9 DEF IInv

LEMMA SwitchOK == ASSUME IInv, KeyS \/ KeyN PROVE IInv'
<1>1. /\ pc = "menu" /\ UNCHANGED <<pc, flash, button, console, bootlist, id,
          nvram_pos, losses, saves, stored, asked, torn>>
      /\ \/ serial_toggle' = 1 - serial_toggle /\ ipxe_toggle' = ipxe_toggle
         \/ ipxe_toggle' = 1 - ipxe_toggle /\ serial_toggle' = serial_toggle
  BY DEF KeyS, KeyN
<1>2. serial_toggle' \in 0..1 /\ ipxe_toggle' \in 0..1
  <2>1. serial_toggle \in 0..1 /\ ipxe_toggle \in 0..1
    BY DEF IInv, Types
  <2> QED BY <1>1, <2>1
<1>3. Types'
  BY <1>1, <1>2 DEF IInv, Types
<1>4. Lists' /\ Sector' /\ Settings' /\ ConsoleRight' /\ Whole'
  BY <1>1 DEF IInv, Lists, Sector, Settings, ConsoleRight, Whole
<1> QED BY <1>3, <1>4 DEF IInv

LEMMA KeyLetterOK ==
    ASSUME IInv, NEW key \in Range(Devices) \cup {"z"}, KeyLetter(key) PROVE IInv'
<1>1. pc = "menu" /\ UNCHANGED <<pc, flash, button, console, serial_toggle, ipxe_toggle,
          nvram_pos, losses, saves, stored, asked, torn>>
  BY DEF KeyLetter
<1>2. ListOK(bootlist) /\ id \in IdType /\ Letters(id, bootlist)
  BY <1>1 DEF IInv, Lists
<1> DEFINE n == get_line_number(bootlist, id, key)
<1>3. bootlist' = ToTop(bootlist, n) /\ id' = ToTop(id, n)
  BY DEF KeyLetter
<1>4. n = 1 \/ (n \in 1..Len(bootlist) /\ n <= N)
  BY <1>2, LineNumber
<1> HIDE DEF n
<1>5. bootlist \in Seq(Line) /\ Len(bootlist) \in Nat
  BY <1>2, ListFacts
<1>6. /\ ListOK(bootlist') /\ Len(bootlist') = Len(bootlist)
      /\ id' \in IdType /\ Letters(id', bootlist')
  <2>1. CASE n = 1
    <3>1. bootlist' = bootlist
      BY <1>3, <1>5, <2>1, ToTopFirst
    <3>2. id' = id
      <4>1. id \in Seq(Range(Devices) \cup {NUL})
        <5>1. N + 2 \in Nat
          BY NFact
        <5> QED BY <1>2, <5>1, FunctionIsSeq DEF IdType
      <4> QED BY <1>3, <2>1, <4>1, ToTopFirst
    <3> QED BY <1>2, <3>1, <3>2
  <2>2. CASE n \in 1..Len(bootlist) /\ n <= N
    <3>1. ListOK(bootlist')
      BY <1>2, <1>3, <2>2, MoveOK
    <3>2. Len(bootlist') = Len(bootlist)
      BY <1>3, <1>5, <2>2, ToTopFacts
    <3>3. id' \in IdType /\ Letters(id', bootlist')
      BY <1>2, <1>3, <2>2, LettersMoved
    <3> QED BY <3>1, <3>2, <3>3
  <2> QED BY <1>4, <2>1, <2>2
<1>7. Types'
  BY <1>1 DEF IInv, Types
<1>8. Lists'
  BY <1>1, <1>6 DEF IInv, Lists
<1>9. Sector' /\ Settings' /\ ConsoleRight'
  BY <1>1 DEF IInv, Sector, Settings, ConsoleRight
<1>10. Whole'
  BY <1>1, <1>6 DEF IInv, Whole
<1> QED BY <1>7, <1>8, <1>9, <1>10 DEF IInv

LEMMA KeyEOK == ASSUME IInv, KeyE PROVE IInv'
<1>1. /\ pc = "menu" /\ pc' = "probe" /\ saves < MaxSaves /\ saves' = saves + 1
      /\ UNCHANGED <<flash, button, console, id, serial_toggle, ipxe_toggle, nvram_pos,
                     losses, stored, asked, torn>>
  BY DEF KeyE
<1> DEFINE s == update_tag_value(bootlist, "scon", serial_toggle)
           t == update_tag_value(s, "pxen", ipxe_toggle)
           L == Len(bootlist)
<1>2. bootlist' = t
  BY DEF KeyE
<1>3. ListOK(bootlist) /\ id \in IdType
  BY DEF IInv, Lists
<1>4. serial_toggle \in 0..1 /\ ipxe_toggle \in 0..1 /\ "scon" \in Tagged /\ "pxen" \in Tagged
  BY DEF IInv, Types, Tagged
<1>5. /\ ListOK(s) /\ Len(s) = L
      /\ \A i \in 1..L : /\ s[i].tag = bootlist[i].tag
                         /\ bootlist[i].tag = "scon" => s[i].digit = serial_toggle
  BY <1>3, <1>4, UpdateOK, ZenonT(60)
<1>6. /\ ListOK(t) /\ Len(t) = L
      /\ \A i \in 1..L : /\ t[i].tag = s[i].tag
                         /\ s[i].tag = "pxen" => t[i].digit = ipxe_toggle
                         /\ s[i].tag # "pxen" => t[i] = s[i]
  <2> HIDE DEF s
  <2>1. ListOK(s) /\ Len(s) = L /\ "pxen" \in Tagged /\ ipxe_toggle \in 0..1
    BY <1>4, <1>5
  <2>2. /\ ListOK(t) /\ Len(t) = Len(s)
        /\ \A i \in 1..Len(s) : /\ t[i].tag = s[i].tag
                                /\ s[i].tag = "pxen" => t[i].digit = ipxe_toggle
                                /\ s[i].tag # "pxen" => t[i] = s[i]
    BY <2>1, UpdateOK
  <2> HIDE DEF L, t
  <2> QED BY <2>1, <2>2
<1> HIDE DEF s, t
<1>7. Digit(t, "scon", serial_toggle) /\ Digit(t, "pxen", ipxe_toggle)
  BY <1>5, <1>6 DEF Digit
<1>8. saves' \in 0..MaxSaves
  <2>1. saves \in 0..MaxSaves
    BY DEF IInv, Types
  <2> QED BY <1>1, <2>1, BoundAssumption
<1>9. Types'
  BY <1>1, <1>8 DEF IInv, Types, PCs
<1>10. Lists'
  BY <1>1, <1>2, <1>3, <1>6 DEF IInv, Lists
<1>11. Settings'
  BY <1>1, <1>2, <1>7 DEF IInv, Settings
<1>12. Whole'
  BY <1>1, <1>2, <1>6 DEF IInv, Whole
<1>13. Sector' /\ ConsoleRight'
  BY <1>1 DEF IInv, Sector, ConsoleRight
<1> QED BY <1>9, <1>10, <1>11, <1>12, <1>13 DEF IInv

LEMMA LeaveOK == ASSUME IInv, KeyX \/ Restart PROVE IInv'
<1>1. Reset /\ pc # "write" /\ UNCHANGED <<flash, losses, saves, stored, asked, torn>>
  BY DEF KeyX, Restart
<1>2. torn' \in BOOLEAN /\ losses' \in 0..MaxLosses /\ saves' \in 0..MaxSaves
  BY <1>1 DEF IInv, Types
<1> QED BY <1>1, <1>2, QuietReset

LEMMA PowerLossOK == ASSUME IInv, PowerLoss PROVE IInv'
<1>1. Reset /\ UNCHANGED <<flash, saves, stored, asked>> /\ losses < MaxLosses /\ losses' = losses + 1
  BY DEF PowerLoss
<1>2. torn' = (torn \/ pc = "write") /\ torn \in BOOLEAN
  BY DEF PowerLoss, IInv, Types
<1>3. torn' \in BOOLEAN
  <2>1. (torn \/ pc = "write") \in BOOLEAN
    BY Zenon
  <2> QED BY <1>2, <2>1, Zenon
<1>4. ~torn' => ~torn /\ pc # "write"
  BY <1>2, Zenon
<1>5. losses' \in 0..MaxLosses /\ saves' \in 0..MaxSaves
  <2>1. losses \in 0..MaxLosses /\ saves \in 0..MaxSaves
    BY DEF IInv, Types
  <2> QED BY <1>1, <2>1, BoundAssumption
<1> QED BY <1>1, <1>3, <1>4, <1>5, QuietReset

LEMMA ProbeOK == ASSUME IInv, Probe PROVE IInv'
<1>1. pc = "probe" /\ UNCHANGED <<flash, losses, saves, stored, asked, torn>>
  BY DEF Probe
<1>2. CASE pc' = "erase" /\ UNCHANGED <<button, console, menuVars, nvram_pos>>
  <2>1. pc' = "erase" /\ UNCHANGED <<button, console, bootlist, id, serial_toggle, ipxe_toggle, nvram_pos>>
    BY <1>2 DEF menuVars
  <2>2. Types'
    BY <1>1, <2>1 DEF IInv, Types, PCs
  <2>3. Lists' /\ Sector' /\ Whole' /\ Settings' /\ ConsoleRight'
    BY <1>1, <2>1 DEF IInv, Lists, Sector, Whole, Settings, ConsoleRight
  <2> QED BY <2>2, <2>3 DEF IInv
<1>3. CASE Reset
  <2>1. torn' \in BOOLEAN /\ losses' \in 0..MaxLosses /\ saves' \in 0..MaxSaves
    BY <1>1 DEF IInv, Types
  <2> QED BY <1>1, <1>3, <2>1, QuietReset
<1> QED BY <1>2, <1>3 DEF Probe

LEMMA EraseOK == ASSUME IInv, Erase PROVE IInv'
<1>1. /\ pc = "erase" /\ pc' = "write" /\ nvram_pos' = 0 /\ flash' = [lines |-> bootlist, good |-> 0]
      /\ UNCHANGED <<button, console, bootlist, id, serial_toggle, ipxe_toggle, losses, saves,
                     stored, asked, torn>>
  BY DEF Erase, menuVars
<1>2. ListOK(bootlist) /\ bootlist \in Seq(Line)
  BY DEF IInv, Lists, ListOK
<1>3. SectorOK(flash')
  BY <1>1, <1>2 DEF SectorOK
<1>4. PackedLen(bootlist) \in Nat /\ PackedLen(Shipped) \in Nat /\ PackedLen(bootlist) < 256
  BY <1>2, PackedFacts
<1>5. 0 <= WholeWords(PackedLen(bootlist)) /\ 0 % Word = 0
  BY <1>4, WordFacts
<1>6. flash'.good <= PackedLen(Shipped) + Word
  <2>1. flash'.good = 0
    BY <1>1
  <2> QED BY <1>4, <2>1 DEF Word
<1>7. Types'
  BY <1>1, <1>5, <1>6 DEF IInv, Types, PCs
<1>8. Lists'
  BY <1>1, <1>3 DEF IInv, Lists
<1>9. Sector'
  BY <1>1, <1>5 DEF Sector
<1>10. Whole' /\ Settings' /\ ConsoleRight'
  BY <1>1 DEF IInv, Whole, Settings, ConsoleRight
<1> QED BY <1>7, <1>8, <1>9, <1>10 DEF IInv

\* What programming the next word makes of the sector.
LEMMA Programmed ==
    ASSUME IInv, pc = "write", flash' = [flash EXCEPT !.good = nvram_pos + Word]
    PROVE  /\ SectorOK(flash') /\ flash'.lines = bootlist /\ flash'.good = nvram_pos + Word
           /\ flash'.good <= PackedLen(Shipped) + Word
<1>1. SectorOK(flash) /\ flash.lines = bootlist /\ nvram_pos <= WholeWords(PackedLen(bootlist))
  BY DEF IInv, Lists, Sector
<1>2. nvram_pos \in Nat
  BY DEF IInv, Types
<1>3. flash = [lines |-> bootlist, good |-> flash.good] /\ ListOK(bootlist) /\ bootlist \in Seq(Line)
  BY <1>1, SectorFacts, ListFacts
<1>4. flash' = [lines |-> bootlist, good |-> nvram_pos + Word]
  BY <1>3
<1>5. nvram_pos + Word \in Nat
  BY <1>2 DEF Word
<1>6. SectorOK(flash') /\ flash'.lines = bootlist /\ flash'.good = nvram_pos + Word
  BY <1>3, <1>4, <1>5 DEF SectorOK
<1>7. /\ PackedLen(bootlist) \in Nat /\ PackedLen(Shipped) \in Nat
      /\ PackedLen(bootlist) <= PackedLen(Shipped) /\ PackedLen(bootlist) < 256
  BY <1>3, PackedFacts
<1>8. WholeWords(PackedLen(bootlist)) \in Nat /\ WholeWords(PackedLen(bootlist)) <= PackedLen(bootlist)
  BY <1>7, WordFacts
<1>9. nvram_pos + Word <= PackedLen(Shipped) + Word
  BY <1>1, <1>2, <1>7, <1>8 DEF Word
<1> QED BY <1>6, <1>9

LEMMA WriteWordOK == ASSUME IInv, WriteWord PROVE IInv'
<1>1. /\ pc = "write" /\ nvram_pos < WholeWords(PackedLen(bootlist)) /\ nvram_pos' = nvram_pos + Word
      /\ flash' = [flash EXCEPT !.good = nvram_pos + Word]
      /\ UNCHANGED <<pc, button, console, bootlist, id, serial_toggle, ipxe_toggle, losses, saves,
                     stored, asked, torn>>
  BY DEF WriteWord, menuVars
<1>2. /\ SectorOK(flash') /\ flash'.lines = bootlist /\ flash'.good = nvram_pos + Word
      /\ flash'.good <= PackedLen(Shipped) + Word
  BY <1>1, Programmed
<1>3. nvram_pos \in Nat /\ nvram_pos % Word = 0 /\ ListOK(bootlist)
  BY DEF IInv, Types, Lists
<1>4. PackedLen(bootlist) \in Nat /\ PackedLen(bootlist) < 256
  BY <1>3, PackedFacts
<1>5. nvram_pos + Word <= WholeWords(PackedLen(bootlist)) /\ (nvram_pos + Word) % Word = 0
  BY <1>1, <1>3, <1>4, WordFacts
<1>6. nvram_pos + Word \in Nat
  BY <1>3 DEF Word
<1>7. Types'
  BY <1>1, <1>2, <1>5, <1>6 DEF IInv, Types
<1>8. Lists'
  BY <1>1, <1>2 DEF IInv, Lists
<1>9. Sector'
  BY <1>1, <1>2, <1>5 DEF Sector
<1>10. Whole' /\ Settings' /\ ConsoleRight'
  BY <1>1 DEF IInv, Whole, Settings, ConsoleRight
<1> QED BY <1>7, <1>8, <1>9, <1>10 DEF IInv

LEMMA WriteTailOK == ASSUME IInv, WriteTail PROVE IInv'
<1>1. /\ pc = "write" /\ nvram_pos >= WholeWords(PackedLen(bootlist))
      /\ flash' = [flash EXCEPT !.good = nvram_pos + Word]
      /\ stored' = bootlist /\ torn' = FALSE /\ Reset /\ UNCHANGED <<losses, saves>>
      /\ asked' = [scon |-> serial_toggle, pxen |-> ipxe_toggle]
  BY DEF WriteTail
<1>2. /\ SectorOK(flash') /\ flash'.lines = bootlist /\ flash'.good = nvram_pos + Word
      /\ flash'.good <= PackedLen(Shipped) + Word
  BY <1>1, Programmed
<1>3. nvram_pos \in Nat /\ ListOK(bootlist) /\ losses' \in 0..MaxLosses /\ saves' \in 0..MaxSaves
  BY <1>1 DEF IInv, Types, Lists
<1>4. PackedLen(bootlist) \in Nat /\ PackedLen(bootlist) < 256
  BY <1>3, PackedFacts
<1>5. flash'.good >= PackedLen(stored')
  <2>1. /\ WholeWords(PackedLen(bootlist)) \in Nat
        /\ PackedLen(bootlist) <= WholeWords(PackedLen(bootlist)) + 3
    BY <1>4, WordFacts
  <2>2. PackedLen(bootlist) <= nvram_pos + Word
    BY <1>1, <1>3, <1>4, <2>1 DEF Word
  <2> QED BY <1>1, <1>2, <1>3, <1>4, <2>2 DEF Word
<1>6. asked' \in [Tagged -> 0..1] /\ asked'["scon"] = serial_toggle /\ asked'["pxen"] = ipxe_toggle
  <2>1. serial_toggle \in 0..1 /\ ipxe_toggle \in 0..1
    BY DEF IInv, Types
  <2> QED BY <1>1, <2>1 DEF Tagged
<1>7. Digit(stored', "scon", asked'["scon"]) /\ Digit(stored', "pxen", asked'["pxen"])
  <2>1. Digit(bootlist, "scon", serial_toggle) /\ Digit(bootlist, "pxen", ipxe_toggle)
    BY <1>1 DEF IInv, Settings
  <2> QED BY <1>1, <1>6, <2>1
<1> QED BY <1>1, <1>2, <1>3, <1>5, <1>6, <1>7, ResetOK

LEMMA StutterOK == ASSUME IInv, UNCHANGED vars PROVE IInv'
  BY DEF IInv, vars, Types, Lists, Sector, Whole, Settings, ConsoleRight

LEMMA StepOK == IInv /\ [Next]_vars => IInv'
<1> SUFFICES ASSUME IInv, [Next]_vars PROVE IInv'
  OBVIOUS
<1>1. CASE Key
  <2>1. CASE KeyR
    BY <2>1, KeyROK
  <2>2. CASE KeyS \/ KeyN
    BY <2>2, SwitchOK
  <2>3. CASE KeyE
    BY <2>3, KeyEOK
  <2>4. CASE KeyX
    BY <2>4, LeaveOK
  <2>5. ASSUME NEW key \in Range(Devices) \cup {"z"}, KeyLetter(key) PROVE IInv'
    BY <2>5, KeyLetterOK
  <2> QED BY <1>1, <2>1, <2>2, <2>3, <2>4, <2>5 DEF Key
<1>2. CASE Restart
  BY <1>2, LeaveOK
<1>3. CASE UNCHANGED vars
  BY <1>3, StutterOK
<1> QED
  BY <1>1, <1>2, <1>3, BootOK, StartSetupOK, ProbeOK, EraseOK, WriteWordOK, WriteTailOK, PowerLossOK DEF Next

-----------------------------------------------------------------------------
(* The theorems *)

\* The inductive invariant of the setup payload and the boots around it.
THEOREM Invariance == Spec => []IInv
<1> QED BY InitOK, StepOK, PTL DEF Spec

LEMMA IInvReads == IInv => SavedListIsRead
<1> SUFFICES ASSUME IInv, ~torn, pc # "write"
             PROVE  fetch_file_from_cbfs(flash) = stored /\ Terminated(flash)
  BY DEF SavedListIsRead
<1>1. SectorOK(flash) /\ flash.lines = stored /\ Terminated(flash)
  BY DEF IInv, Lists, Sector, Terminated
<1> QED BY <1>1, FetchFacts

\* A completed save is what every later start of the payload and every later
\* boot reads, to its last line and with its NUL (save_flash's word loop, mask
\* and tail, then fetch_file_from_cbfs), for every list that packs to less than
\* 256 bytes.
THEOREM SaveIsRead == Spec => []SavedListIsRead
<1> QED BY Invariance, IInvReads, PTL

LEMMA IInvTakesEffect == IInv => SettingsTakeEffect
<1> SUFFICES ASSUME IInv, ~torn, pc = "prompt"
             PROVE  /\ (\E i \in DOMAIN stored : stored[i].tag = "scon")
                          => console = (asked.scon = 1 \/ button)
                    /\ (\E i \in DOMAIN stored : stored[i].tag = "pxen")
                          => InitialToggle(flash, "pxen") = {asked.pxen}
  BY DEF SettingsTakeEffect
<1>1. SectorOK(flash) /\ flash.lines = stored /\ Terminated(flash) /\ ListOK(stored)
  BY DEF IInv, Lists, Sector, Terminated
<1>2. DOMAIN stored = 1..Len(flash.lines)
  BY <1>1, ListFacts
<1>3. Digit(flash.lines, "scon", asked.scon) /\ Digit(flash.lines, "pxen", asked.pxen)
  BY <1>1 DEF IInv, Settings
<1>4. ASSUME \E i \in DOMAIN stored : stored[i].tag = "scon"
      PROVE  console = (asked.scon = 1 \/ button)
  <2>1. scon1(flash) <=> asked.scon = 1
    BY <1>1, <1>2, <1>3, <1>4, ConsoleRead
  <2>2. (console <=> (scon1(flash) \/ button)) /\ console \in BOOLEAN /\ button \in BOOLEAN
    BY DEF IInv, ConsoleRight, Types
  <2>3. console <=> (asked.scon = 1 \/ button)
    BY <2>1, <2>2, Zenon
  <2>4. (asked.scon = 1 \/ button) \in BOOLEAN
    BY Zenon
  <2> QED BY <2>2, <2>3, <2>4, Zenon
<1>5. ASSUME \E i \in DOMAIN stored : stored[i].tag = "pxen"
      PROVE  InitialToggle(flash, "pxen") = {asked.pxen}
  BY <1>1, <1>2, <1>3, <1>5, ToggleRead DEF Tagged
<1> QED BY <1>4, <1>5

\* At the boot after a completed save COM1 is on exactly when the serial console
\* was left enabled or the case switch is pressed, and the payload starts from
\* the stored network setting (update_tag_value, romstage's search for "scon1").
THEOREM SettingsArrive == Spec => []SettingsTakeEffect
<1> QED BY Invariance, IInvTakesEffect, PTL

LEMMA IInvMenu == IInv => MenuSound
<1> SUFFICES ASSUME IInv PROVE MenuSound
  OBVIOUS
<1>1. SectorOK(flash) /\ ListOK(bootlist) /\ ListOK(stored) /\ id \in IdType
  BY DEF IInv, Lists
<1>2. DOMAIN bootlist = 1..Len(bootlist) /\ Len(bootlist) \in Nat /\ bootlist \in Seq(Line)
         /\ Len(bootlist) <= N + 2 /\ stored \in Seq(Line)
  BY <1>1, ListFacts
<1>3. DOMAIN Shipped = 1..N + 2 /\ Len(Shipped) = N + 2
  BY ShippedFacts
<1>4. TypeOK
  <2>1. flash.lines \in Seq(Line) /\ flash.good \in Nat
    BY <1>1, SectorFacts, ListFacts
  <2>2. flash.good \in 0..PackedLen(Shipped) + Word
    <3>1. PackedLen(Shipped) \in Nat
      BY ShippedOK, PackedFacts
    <3>2. flash.good <= PackedLen(Shipped) + Word
      BY DEF IInv, Types
    <3> QED BY <2>1, <3>1, <3>2 DEF Word
  <2>3. {button, console, torn} \subseteq BOOLEAN
    <3>1. button \in BOOLEAN /\ console \in BOOLEAN /\ torn \in BOOLEAN
      BY DEF IInv, Types
    <3> QED BY <3>1, Zenon
  <2>4. {serial_toggle, ipxe_toggle} \subseteq 0..1
    BY DEF IInv, Types
  <2>5. /\ pc \in {"boot", "prompt", "menu", "probe", "erase", "write"} /\ nvram_pos % Word = 0
        /\ losses \in 0..MaxLosses /\ saves \in 0..MaxSaves /\ asked \in [Tagged -> 0..1]
    BY DEF IInv, Types, PCs
  <2>6. id \in [DOMAIN Shipped -> Range(Devices) \cup {NUL}]
    BY <1>1, <1>3 DEF IdType
  <2> QED BY <1>2, <1>3, <2>1, <2>2, <2>3, <2>4, <2>5, <2>6 DEF TypeOK
<1>5. LettersFollowLines
  <2> SUFFICES ASSUME pc = "menu", NEW i \in 1..Len(bootlist)
               PROVE  id[i] = IF bootlist[i].tag \in Range(Devices) THEN bootlist[i].tag ELSE NUL
    BY <1>2 DEF LettersFollowLines
  <2>1. id[i] = Letter(bootlist[i])
    BY DEF IInv, Lists, Letters
  <2> QED BY <2>1 DEF Letter
<1>6. EveryLineOnce
  <2>1. \A i, j \in DOMAIN bootlist : bootlist[i].tag = bootlist[j].tag => i = j
    BY <1>1, <1>2 DEF ListOK, Once
  <2>2. ASSUME pc = "menu", ~torn, Len(stored) = Len(Shipped)
        PROVE  {l.tag : l \in Range(bootlist)} = Range(Devices) \cup Tagged
    <3>1. Len(bootlist) = N + 2
      BY <1>3, <2>2 DEF IInv, Whole
    <3>2. ASSUME NEW l \in Range(bootlist) PROVE l.tag \in Range(Devices) \cup Tagged
      <4>1. PICK i \in DOMAIN bootlist : l = bootlist[i]
        BY DEF Range
      <4>2. l \in Line
        BY <1>1, <1>2, <4>1, ListFacts
      <4> QED BY <4>2, LineFacts DEF Tagged
    <3>3. ASSUME NEW d \in Range(Devices) \cup Tagged PROVE \E i \in 1..N + 2 : bootlist[i].tag = d
      <4>1. CASE d \in Range(Devices)
        <5>1. PICK i \in 1..N : bootlist[i].tag = d
          BY <1>1, <3>1, <4>1 DEF ListOK, Full
        <5>2. i \in 1..N + 2
          BY NFact
        <5> QED BY <5>1, <5>2
      <4>2. CASE d \in Tagged
        <5>1. \A i \in 1..N + 2 : i > N => bootlist[i].tag = Shipped[i].tag
          BY <1>1, <3>1 DEF ListOK, Placed
        <5>2. N + 1 \in 1..N + 2 /\ N + 2 \in 1..N + 2 /\ N + 1 > N /\ N + 2 > N
          BY NFact
        <5>3. Shipped[N + 1].tag = "pxen" /\ Shipped[N + 2].tag = "scon"
          BY ShippedFacts
        <5>4. bootlist[N + 1].tag = "pxen" /\ bootlist[N + 2].tag = "scon"
          BY <5>1, <5>2, <5>3
        <5> QED BY <4>2, <5>2, <5>4 DEF Tagged
      <4> QED BY <4>1, <4>2
    <3>4. \A i \in 1..N + 2 : bootlist[i] \in Range(bootlist)
      BY <1>2, <3>1 DEF Range
    <3> QED BY <3>2, <3>3, <3>4
  <2> QED BY <2>1, <2>2 DEF EveryLineOnce
<1> QED BY <1>4, <1>5, <1>6 DEF MenuSound

\* Whatever keys are pressed and wherever the power fails, the menu shows each
\* line once, all of them while the stored file is complete, and each line
\* answers to the letter of its device (id[], moved beside the lines).
THEOREM MenuIsSound == Spec => []MenuSound
<1> QED BY Invariance, IInvMenu, PTL

\* Where the lines go.
LEMMA TopOrder ==
    ASSUME NEW s \in Seq(Line), NEW n \in 1..Len(s), NEW d, s[n].tag = d
    PROVE  PutOnTop(s, ToTop(s, n), d)
<1> DEFINE L == Len(s)
           t == ToTop(s, n)
           To(i) == IF i = n THEN 1 ELSE IF i < n THEN i + 1 ELSE i
<1>1. L \in Nat /\ n \in 1..L /\ DOMAIN s = 1..L
  BY SeqFacts
<1>2. /\ t \in Seq(Line) /\ Len(t) = L /\ t[1] = s[n]
      /\ \A i \in 2..n : t[i] = s[i - 1]
      /\ \A i \in n + 1..L : t[i] = s[i]
  BY <1>1, ToTopFacts
<1> HIDE DEF L, t
<1>3. DOMAIN t = 1..L
  BY <1>2, SeqFacts
<1>4. ASSUME NEW i \in 1..L PROVE To(i) \in 1..L /\ t[To(i)] = s[i]
  <2>1. CASE i = n
    BY <1>1, <1>2, <2>1
  <2>2. CASE i < n
    <3>1. i + 1 \in 2..n /\ i + 1 \in 1..L /\ i + 1 - 1 = i
      BY <1>1, <2>2
    <3>2. t[i + 1] = s[i]
      BY <1>2, <3>1
    <3>3. To(i) = i + 1
      BY <1>1, <2>2
    <3> QED BY <3>1, <3>2, <3>3
  <2>3. CASE i > n
    <3>1. i \in n + 1..L
      BY <1>1, <2>3
    <3> QED BY <1>1, <1>2, <2>3, <3>1
  <2> QED BY <1>1, <2>1, <2>2, <2>3
<1>5. \A i, j \in 1..L : (i < j /\ i # n /\ j # n) => To(i) < To(j)
  BY <1>1
<1>6. \A k \in 1..L : \E i \in 1..L : To(i) = k
  <2> TAKE k \in 1..L
  <2>1. CASE k = 1
    BY <1>1, <2>1
  <2>2. CASE k \in 2..n
    <3>1. k - 1 \in 1..L /\ To(k - 1) = k
      BY <1>1, <2>2
    <3> QED BY <3>1
  <2>3. CASE k > n
    BY <1>1, <2>3
  <2> QED BY <1>1, <2>1, <2>2, <2>3
<1> HIDE DEF To
<1>7. Range(t) = Range(s)
  <2>1. ASSUME NEW k \in 1..L PROVE t[k] \in Range(s)
    <3>1. PICK i \in 1..L : To(i) = k
      BY <1>6
    <3> QED BY <1>1, <1>4, <3>1 DEF Range
  <2>2. ASSUME NEW i \in 1..L PROVE s[i] \in Range(t)
    BY <1>3, <1>4 DEF Range
  <2> QED BY <1>1, <1>3, <2>1, <2>2 DEF Range
<1>8. ASSUME NEW i \in 1..L, NEW j \in 1..L, i < j, d \notin {s[i].tag, s[j].tag}
      PROVE  \E k, l \in 1..L : k < l /\ t[k] = s[i] /\ t[l] = s[j]
  <2>1. i # n /\ j # n
    BY <1>8
  <2>2. To(i) < To(j) /\ To(i) \in 1..L /\ To(j) \in 1..L /\ t[To(i)] = s[i] /\ t[To(j)] = s[j]
    BY <1>4, <1>5, <1>8, <2>1, SMTT(30)
  <2> QED BY <2>2
<1>9. t[1].tag = d /\ Len(t) = Len(s)
  BY <1>2 DEF L
<1>10. ASSUME NEW i \in DOMAIN s, NEW j \in DOMAIN s, i < j /\ d \notin {s[i].tag, s[j].tag}
       PROVE  \E k, l \in DOMAIN s : k < l /\ t[k] = s[i] /\ t[l] = s[j]
  <2>1. i \in 1..L /\ j \in 1..L /\ i < j /\ d \notin {s[i].tag, s[j].tag}
    BY <1>1, <1>10
  <2>2. \E k, l \in 1..L : k < l /\ t[k] = s[i] /\ t[l] = s[j]
    BY <1>8, <2>1, Zenon
  <2> QED BY <1>1, <2>2, Zenon
<1>11. PutOnTop(s, t, d)
  BY <1>7, <1>9, <1>10, Zenon DEF PutOnTop
<1> QED BY <1>11 DEF t

LEMMA ChosenStep ==
    ASSUME IInv, NEW d \in Range(Devices), KeyLetter(d), \E i \in DOMAIN bootlist : bootlist[i].tag = d
    PROVE  PutOnTop(bootlist, bootlist', d)
<1> DEFINE n == get_line_number(bootlist, id, d)
<1>1. pc = "menu" /\ bootlist' = ToTop(bootlist, n)
  BY DEF KeyLetter
<1>2. ListOK(bootlist) /\ Letters(id, bootlist)
  BY <1>1 DEF IInv, Lists
<1>3. bootlist \in Seq(Line) /\ DOMAIN bootlist = 1..Len(bootlist)
  BY <1>2, ListFacts
<1>4. n \in 1..Len(bootlist) /\ bootlist[n].tag = d
  <2>1. PICK i \in 1..Len(bootlist) : bootlist[i].tag = d
    BY <1>3
  <2> DEFINE hit == {j \in DOMAIN bootlist : id[j] = d}
  <2>2. i \in hit
    <3>1. id[i] = Letter(bootlist[i])
      BY <1>2 DEF Letters
    <3> QED BY <1>3, <2>1, <3>1 DEF Letter
  <2>3. n = Min(hit)
    BY <2>2 DEF get_line_number
  <2>4. hit \subseteq Nat /\ hit # {}
    BY <1>3, <2>2
  <2> HIDE DEF n
  <2>5. n \in hit
    <3> HIDE DEF hit
    <3> QED BY <2>3, <2>4, LeastIsMin
  <2>6. n \in 1..Len(bootlist) /\ id[n] = d
    BY <1>3, <2>5
  <2>7. id[n] = Letter(bootlist[n])
    BY <1>2, <2>6 DEF Letters
  <2> QED BY <2>6, <2>7, DevicesFacts DEF Letter
<1> HIDE DEF n
<1> QED BY <1>1, <1>3, <1>4, TopOrder

\* Pressing a device's letter puts its line first, keeps every line and keeps the
\* others in their order (get_line_number, move_boot_list).
THEOREM ChosenIsOnTop == Spec => ChosenGoesOnTop
<1>1. IInv /\ [Next]_vars =>
        [\A d \in Range(Devices) :
           KeyLetter(d) /\ (\E i \in DOMAIN bootlist : bootlist[i].tag = d)
               => PutOnTop(bootlist, bootlist', d)]_vars
  BY ChosenStep
<1> QED BY <1>1, Invariance, PTL DEF Spec, ChosenGoesOnTop
=============================================================================
