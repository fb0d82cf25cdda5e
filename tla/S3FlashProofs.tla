--------------------------- MODULE S3FlashProofs ---------------------------
(***************************************************************************)
(* Proofs about S3Flash, for every sector size, transfer size, region size *)
(* and for any set of boots whose blocks fit their regions.                *)
(***************************************************************************)
EXTENDS S3Flash, TLAPS

-----------------------------------------------------------------------------
(* The inductive invariant *)

\* The first n cells of s are in the flash, from at on.
Begun(at, s, n) == \A i \in 1..n : flash[at + i - 1] = s[i]
InFlash(at, s) == Begun(at, s, Len(s))
Blank(S) == \A c \in S : flash[c] = ERASED

MsrImage(d) == MtrrImage(d.msr, TRUE, FALSE)

RegionSize(r) == CASE r = "nonvolatile" -> NONVOLATILE_SIZE
                   [] r = "volatile" -> VOLATILE_SIZE
                   [] r = "mtrr" -> MTRR_SIZE

\* What the region that is being saved is to hold.
Goal == IF region = "mtrr" THEN MsrImage(data) ELSE NewData

\* The numbers of the loops, whether or not the chip answers.
LoopOK ==
    pc \in Saving =>
        /\ msr = data.msr
        /\ region = "volatile" => data.vol # <<>>
        /\ pc \in {"probe", "check"} => done = 0
        /\ pc = "check" => region = "mtrr"
        /\ pc # "write" => nvram_pos = 0
        /\ pc = "compare" => /\ region # "mtrr" /\ done <= Len(NewData)
                             /\ done = Len(NewData) \/ done % SECTOR = 0
        /\ pc \in {"erase", "erasing", "write"} =>
              /\ done % SECTOR = 0
              /\ region # "mtrr" => done < Len(NewData)
              /\ done + SECTOR <= RegionSize(region)
        /\ pc = "write" /\ region # "mtrr" => nvram_pos <= Whole /\ nvram_pos % TX = 0
        /\ pc = "write" /\ region = "mtrr" =>
              /\ done = 0 /\ nvram_pos <= Len(MsrImage(data)) /\ nvram_pos % WORD = 0
              /\ modEn <=> nvram_pos < FixedCells

\* How far the save has come, when the chip has answered so far.
Progress ==
    pc \in Saving /\ ~fault =>
        /\ pc # "erasing" => busy = {}
        /\ busy \subseteq Cells(pos, SECTOR)
        /\ region # "nonvolatile" => InFlash(NONVOLATILE_POS, S3Image(data.nv))
        /\ region = "mtrr" /\ data.vol # <<>> => InFlash(VOLATILE_POS, S3Image(data.vol))
        /\ region # "mtrr" \/ pc = "write" => Begun(Pos(region), Goal, done + nvram_pos)
        /\ region = "mtrr" /\ pc \in {"erase", "erasing"} => Blank(Cells(MTRR_POS, done))
        /\ pc = "erasing" => Blank(Cells(pos, SECTOR) \ busy)
        /\ pc = "write" => Blank(Cells(pos + nvram_pos,
                (IF region = "mtrr" THEN MTRR_SIZE ELSE SECTOR) - nvram_pos))

\* The flash holds all of d.
Complete(d) ==
    /\ busy = {}
    /\ InFlash(NONVOLATILE_POS, S3Image(d.nv))
    /\ d.vol # <<>> => InFlash(VOLATILE_POS, S3Image(d.vol))
    /\ InFlash(MTRR_POS, MsrImage(d))

\* What is kept is what this boot has to save, and no step has begun to save it.
KeptOK ==
    /\ kept \in {Nothing, data}
    /\ kept = data => /\ Complete(data)
                      /\ pc \notin {"erase", "erasing", "write"}
                      /\ ~(pc = "probe" /\ region = "mtrr")

\* A system that was started, and that the chip did not fail.
RunningOK ==
    /\ pc \in {"resume", "restore"} => msr = ResetMsr(data)
    /\ pc \in {"os", "resume", "restore"} /\ ~fault =>
          kept = data /\ started = [msr |-> data.msr, modEn |-> FALSE]
    /\ pc = "os" /\ ~fault => msr = data.msr /\ modEn = FALSE
    /\ pc = "restore" /\ ~fault =>
          got.nv = data.nv /\ (data.vol # <<>> => got.vol = data.vol)

IInv == TypeOK /\ LoopOK /\ Progress /\ KeptOK /\ RunningOK
-----------------------------------------------------------------------------
(* Numbers *)

LEMMA Product ==
    ASSUME NEW a \in Int, NEW b \in Int, NEW D \in Nat \ {0}
    PROVE  /\ D * a \in Int /\ D * b \in Int
           /\ a < b => D * a + D <= D * b
           /\ a <= b => D * a <= D * b
           /\ D * (a + 1) = D * a + D
<1>1. D * a \in Int /\ D * b \in Int /\ D * (a + 1) = D * a + D
  OBVIOUS
<1>2. ASSUME a <= b PROVE D * a <= D * b
  <2>1. D * (b - a) >= 0
    BY <1>2
  <2>2. D * (b - a) = D * b - D * a
    OBVIOUS
  <2> QED BY <1>1, <2>1, <2>2
<1>3. ASSUME a < b PROVE D * a + D <= D * b
  <2>1. D * (b - a - 1) >= 0
    BY <1>3
  <2>2. D * (b - a - 1) = D * b - D * a - D
    OBVIOUS
  <2> QED BY <1>1, <2>1, <2>2
<1> QED BY <1>1, <1>2, <1>3

\* Division with remainder.
LEMMA Division ==
    ASSUME NEW n \in Nat, NEW D \in Nat \ {0}
    PROVE  /\ n \div D \in Nat /\ n % D \in 0 .. D - 1
           /\ n = D * (n \div D) + (n % D)
<1>1. n \div D \in Int /\ n % D \in 0 .. D - 1 /\ n = D * (n \div D) + (n % D)
  OBVIOUS
<1>2. n \div D >= 0
  <2> SUFFICES ASSUME n \div D < 0 PROVE FALSE
    BY <1>1
  <2>1. D * (n \div D) + D <= D * 0
    BY <1>1, Product
  <2> QED BY <1>1, <2>1
<1> QED BY <1>1, <1>2

\* Quotient and remainder are the only ones.
LEMMA Quotient ==
    ASSUME NEW q \in Nat, NEW D \in Nat \ {0}, NEW r \in 0 .. D - 1
    PROVE  D * q + r \in Nat /\ (D * q + r) \div D = q /\ (D * q + r) % D = r
<1>1. D * q \in Nat
  OBVIOUS
<1> DEFINE n == D * q + r
           p == n \div D
           s == n % D
<1>2. n \in Nat
  BY <1>1
<1>3. p \in Nat /\ s \in 0 .. D - 1 /\ n = D * p + s
  BY <1>2, Division
<1>4. ~(p < q)
  BY <1>1, <1>3, Product
<1>5. ~(q < p)
  BY <1>1, <1>3, Product
<1>6. p = q
  BY <1>3, <1>4, <1>5
<1> QED BY <1>1, <1>3, <1>6

LEMMA NextMultiple ==
    ASSUME NEW m \in Nat, NEW n \in Nat, NEW D \in Nat \ {0},
           m % D = 0, n % D = 0
    PROVE  /\ m < n => m + D <= n
           /\ (m + D) % D = 0
<1>1. m = D * (m \div D) /\ n = D * (n \div D) /\ m \div D \in Nat /\ n \div D \in Nat
  BY Division
<1>2. m < n => m \div D < n \div D
  BY <1>1, Product
<1>3. m < n => m + D <= n
  BY <1>1, <1>2, Product
<1>4. m + D = D * (m \div D + 1) + 0
  BY <1>1, Product
<1>5. (D * (m \div D + 1) + 0) % D = 0
  BY <1>1, Quotient
<1> QED BY <1>3, <1>4, <1>5

LEMMA ZeroMultiple == ASSUME NEW D \in Nat \ {0} PROVE 0 % D = 0
OBVIOUS

LEMMA MultipleOf ==
    ASSUME NEW q \in Nat, NEW D \in Nat \ {0}
    PROVE  D * q \in Nat /\ (D * q) % D = 0
BY Quotient

-----------------------------------------------------------------------------
(* Sequences and images *)

LEMMA Sizes ==
    /\ SECTOR \in Nat \ {0} /\ TX \in Nat \ {0} /\ WORD \in Nat \ {0}
    /\ VOLATILE_SIZE \in Nat \ {0} /\ VOLATILE_SIZE % SECTOR = 0
    /\ MTRR_SIZE \in Nat \ {0} /\ MTRR_SIZE % SECTOR = 0
    /\ NONVOLATILE_SIZE \in Nat \ {0} /\ NONVOLATILE_SIZE % SECTOR = 0
BY RegionAssumption

LEMMA SubSeqFact ==
    ASSUME NEW S, NEW s \in Seq(S), NEW m \in 1 .. Len(s) + 1,
           NEW n \in m - 1 .. Len(s)
    PROVE  /\ SubSeq(s, m, n) \in Seq(S) /\ Len(SubSeq(s, m, n)) = n - m + 1
           /\ \A i \in 1 .. n - m + 1 : SubSeq(s, m, n)[i] = s[m + i - 1]
OBVIOUS

LEMMA ImageFact ==
    ASSUME NEW d \in Seq(Nat)
    PROVE  /\ S3Image(d) \in Seq(Nat)
           /\ Len(S3Image(d)) = WORD + Len(d)
           /\ S3Image(d)[1] = Len(d)
           /\ \A i \in 1 .. Len(d) : S3Image(d)[WORD + i] = d[i]
<1>1. Len(d) \in Nat /\ WORD \in Nat \ {0}
  BY Sizes
<1>2. Word(Len(d)) \in Seq(Nat) /\ Len(Word(Len(d))) = WORD /\ Word(Len(d))[1] = Len(d)
  BY <1>1 DEF Word
<1> QED BY <1>1, <1>2 DEF S3Image

LEMMA TableLengths ==
    ASSUME NEW m \in Mtrrs
    PROVE  Len(m.fixed) \in Nat /\ Len(m.var) \in Nat
BY DEF Mtrrs

\* Every MTRR of the two tables is read as one.
LEMMA ReadFact ==
    ASSUME NEW m \in Mtrrs, NEW i \in 1 .. Len(m.fixed) + Len(m.var),
           NEW a, NEW b
    PROVE  MtrrRead(m, i, a, b).lo \in Nat /\ MtrrRead(m, i, a, b).hi \in Nat
<1>1. m.fixed \in Seq(Msr) /\ m.var \in Seq(Msr)
  BY DEF Mtrrs
<1>2. CASE i <= Len(m.fixed)
  <2>1. m.fixed[i] \in Msr
    <3>1. i \in 1 .. Len(m.fixed)
      BY <1>2 DEF Mtrrs
    <3> QED BY <1>1, <3>1
  <2>2. m.fixed[i].lo \in Nat /\ m.fixed[i].hi \in Nat
    BY <2>1 DEF Msr
  <2>3. m.fixed[i].lo % 2 \in Nat /\ m.fixed[i].hi % 2 \in Nat
    BY <2>2
  <2>4. rdmsr(m.fixed[i], a).lo \in Nat /\ rdmsr(m.fixed[i], a).hi \in Nat
    BY <2>2, <2>3 DEF rdmsr
  <2> QED BY <1>2, <2>4 DEF MtrrRead
<1>3. CASE ~(i <= Len(m.fixed))
  <2>1. m.var[i - Len(m.fixed)] \in Msr
    <3>1. i - Len(m.fixed) \in 1 .. Len(m.var)
      BY <1>3 DEF Mtrrs
    <3> QED BY <1>1, <3>1
  <2> DEFINE x == m.var[i - Len(m.fixed)]
  <2>2. x.lo \in Nat /\ x.hi \in Nat /\ x = [lo |-> x.lo, hi |-> x.hi]
    BY <2>1 DEF Msr
  <2>3. SysCfg(x, b).lo \in Nat /\ SysCfg(x, b).hi \in Nat
    <3> HIDE DEF x
    <3>1. SysCfg(x, b) = [lo |-> 2 * x.lo + IF b THEN 1 ELSE 0, hi |-> x.hi]
      BY <2>2 DEF SysCfg
    <3> QED BY <2>2, <3>1
  <2> QED BY <1>3, <2>2, <2>3 DEF MtrrRead
<1> QED BY <1>2, <1>3

\* The cell c of the image is one of MTRR number (c - 1) \div (2 * WORD) + 1.
LEMMA CellFact ==
    ASSUME NEW f \in Nat, NEW v \in Nat, NEW c \in 1 .. 2 * WORD * (f + v)
    PROVE  /\ (c - 1) \div (2 * WORD) + 1 \in 1 .. f + v
           /\ c <= 2 * WORD * f <=> (c - 1) \div (2 * WORD) + 1 <= f
<1> DEFINE D == 2 * WORD
           q == (c - 1) \div D
           r == (c - 1) % D
<1>1. D \in Nat \ {0} /\ c - 1 \in Nat
  BY Sizes
<1>2. q \in Nat /\ r \in 0 .. D - 1 /\ c - 1 = D * q + r
  BY <1>1, Division
<1>3. D * (f + v) \in Nat /\ D * f \in Nat /\ c <= D * (f + v)
  BY <1>1
<1> HIDE DEF q, r, D
<1>4. q < f + v
  <2>1. ~(f + v <= q)
    BY <1>1, <1>2, <1>3, Product
  <2> QED BY <1>2, <2>1
<1>5. c <= D * f => q < f
  <2>1. f <= q => D * f <= D * q
    BY <1>1, <1>2, Product
  <2> QED BY <1>1, <1>2, <1>3, <2>1
<1>6. q < f => c <= D * f
  <2>1. q < f => D * q + D <= D * f
    BY <1>1, <1>2, Product
  <2> QED BY <1>1, <1>2, <1>3, <2>1
<1> QED BY <1>2, <1>4, <1>5, <1>6 DEF q, D

LEMMA ImageLength ==
    ASSUME NEW f \in Nat, NEW v \in Nat
    PROVE  /\ 2 * WORD * (f + v) \in Nat /\ 2 * WORD * f \in 0 .. 2 * WORD * (f + v)
           /\ (2 * WORD * (f + v)) % WORD = 0 /\ (2 * WORD * f) % WORD = 0
           /\ v # 0 => 2 * WORD * f < 2 * WORD * (f + v)
           /\ f # 0 => 0 < 2 * WORD * f
<1>1. WORD \in Nat \ {0} /\ 2 * WORD \in Nat \ {0}
  BY Sizes
<1>2. /\ 2 * WORD * (f + v) \in Int /\ 2 * WORD * f \in Int
      /\ 2 * WORD * f <= 2 * WORD * (f + v)
      /\ f < f + v => 2 * WORD * f + 2 * WORD <= 2 * WORD * (f + v)
  BY <1>1, Product
<1>3. 2 * WORD * 0 <= 2 * WORD * f /\ (0 < f => 2 * WORD * 0 + 2 * WORD <= 2 * WORD * f)
  BY <1>1, Product
<1>4. 2 * WORD * (f + v) = WORD * (2 * (f + v)) /\ 2 * WORD * f = WORD * (2 * f)
  BY <1>1
<1>5. 2 * (f + v) \in Nat /\ 2 * f \in Nat
  OBVIOUS
<1>6. (WORD * (2 * (f + v))) % WORD = 0 /\ (WORD * (2 * f)) % WORD = 0
  BY <1>1, <1>5, MultipleOf
<1> QED BY <1>1, <1>2, <1>3, <1>4, <1>6

LEMMA MtrrImageFact ==
    ASSUME NEW m \in Mtrrs, NEW a, NEW b
    PROVE  /\ MtrrImage(m, a, b) \in Seq(Nat)
           /\ Len(MtrrImage(m, a, b)) = 2 * WORD * (Len(m.fixed) + Len(m.var))
<1> DEFINE n == 2 * WORD * (Len(m.fixed) + Len(m.var))
<1>1. n \in Nat
  BY TableLengths, ImageLength
<1>2. ASSUME NEW c \in 1 .. n PROVE MtrrImage(m, a, b)[c] \in Nat
  <2> DEFINE i == (c - 1) \div (2 * WORD) + 1
  <2>1. i \in 1 .. Len(m.fixed) + Len(m.var)
    BY TableLengths, CellFact
  <2>2. MtrrRead(m, i, a, b).lo \in Nat /\ MtrrRead(m, i, a, b).hi \in Nat
    BY <2>1, ReadFact
  <2> QED BY <2>2 DEF MtrrImage
<1>3. MtrrImage(m, a, b) = [c \in 1 .. n |-> MtrrImage(m, a, b)[c]]
  BY DEF MtrrImage
<1>4. MtrrImage(m, a, b) \in [1 .. n -> Nat]
  BY <1>2, <1>3
<1> HIDE DEF n
<1>5. MtrrImage(m, a, b) \in Seq(Nat) /\ Len(MtrrImage(m, a, b)) = n
  BY <1>1, <1>4
<1> QED BY <1>5 DEF n

\* Whether SYS_CFG shows the extension bits matters to the fixed MTRRs and to
\* SYS_CFG only.
LEMMA HalvesAgree ==
    ASSUME NEW m \in Mtrrs, NEW a, NEW b,
           NEW c \in 1 .. Len(MtrrImage(m, TRUE, FALSE))
    PROVE  /\ c <= 2 * WORD * Len(m.fixed) =>
                  MtrrImage(m, TRUE, b)[c] = MtrrImage(m, TRUE, FALSE)[c]
           /\ c > 2 * WORD * Len(m.fixed) =>
                  MtrrImage(m, a, FALSE)[c] = MtrrImage(m, TRUE, FALSE)[c]
<1> DEFINE i == (c - 1) \div (2 * WORD) + 1
<1>1. Len(m.fixed) \in Nat /\ Len(m.var) \in Nat
  BY DEF Mtrrs
<1>2. c \in 1 .. 2 * WORD * (Len(m.fixed) + Len(m.var))
  BY MtrrImageFact
<1>3. i \in 1 .. Len(m.fixed) + Len(m.var) /\ (c <= 2 * WORD * Len(m.fixed) <=> i <= Len(m.fixed))
  BY <1>1, <1>2, CellFact
<1>4. i <= Len(m.fixed) => MtrrRead(m, i, TRUE, b) = MtrrRead(m, i, TRUE, FALSE)
  BY DEF MtrrRead
<1>5. ~(i <= Len(m.fixed)) => MtrrRead(m, i, a, FALSE) = MtrrRead(m, i, TRUE, FALSE)
  BY DEF MtrrRead
<1> DEFINE F == 2 * WORD * Len(m.fixed)
           k == (c - 1) % (2 * WORD)
           Cell(x) == IF k = 0 THEN x.lo ELSE IF k = WORD THEN x.hi ELSE 0
<1>6. ASSUME NEW p, NEW q PROVE MtrrImage(m, p, q)[c] = Cell(MtrrRead(m, i, p, q))
  BY <1>2 DEF MtrrImage
<1>7. F \in Nat /\ c \in Nat
  <2>1. ASSUME NEW f \in Nat PROVE 2 * WORD * f \in Nat
    BY Sizes
  <2>2. F \in Nat
    BY <2>1, Zenon, <1>1
  <2>3. c \in Nat
    BY <1>2
  <2> QED BY <2>2, <2>3
<1> HIDE DEF F, k, i, Cell
<1>8. c <= F <=> i <= Len(m.fixed)
  BY <1>3 DEF F
<1>9. c <= F => MtrrImage(m, TRUE, b)[c] = MtrrImage(m, TRUE, FALSE)[c]
  BY <1>4, <1>6, <1>8
<1>10. c > F => MtrrImage(m, a, FALSE)[c] = MtrrImage(m, TRUE, FALSE)[c]
  <2>1. c > F => ~(c <= F)
    BY <1>7
  <2> QED BY <1>5, <1>6, <1>8, <2>1
<1> QED BY <1>9, <1>10 DEF F

\* Where the two halves of an MTRR are in the image.
LEMMA HalvesPlaced ==
    ASSUME NEW m \in Mtrrs, NEW i \in 1 .. Len(m.fixed) + Len(m.var)
    PROVE  LET at == 2 * WORD * (i - 1)
               image == MtrrImage(m, TRUE, FALSE)
           IN  /\ at \in Nat /\ at + WORD + 1 <= Len(image)
               /\ image[at + 1] = MtrrRead(m, i, TRUE, FALSE).lo
               /\ image[at + WORD + 1] = MtrrRead(m, i, TRUE, FALSE).hi
<1> DEFINE D == 2 * WORD
           N == Len(m.fixed) + Len(m.var)
           at == D * (i - 1)
           image == MtrrImage(m, TRUE, FALSE)
<1>1. N \in Nat
  BY DEF Mtrrs
<1>2. D \in Nat \ {0} /\ i - 1 \in Nat /\ WORD \in 1 .. D - 1 /\ i \in Nat /\ i - 1 < N
  BY Sizes DEF Mtrrs
<1>3. image = [c \in 1 .. D * N |->
                  LET x == MtrrRead(m, (c - 1) \div D + 1, TRUE, FALSE)
                      k == (c - 1) % D
                  IN  IF k = 0 THEN x.lo ELSE IF k = WORD THEN x.hi ELSE 0]
  BY DEF MtrrImage
<1>4. Len(image) = D * N
  BY MtrrImageFact
<1> HIDE DEF D, N, image
<1> DEFINE j == i - 1
<1> HIDE DEF j
<1>5. j \in Nat /\ j < N /\ j + 1 = i
  BY <1>2 DEF j
<1>6. ASSUME NEW r \in 0 .. D - 1
      PROVE  D * j + r \in Nat /\ (D * j + r) \div D = j /\ (D * j + r) % D = r
  BY <1>2, <1>5, Quotient
<1>7. D * j \in Nat /\ D * N \in Nat /\ D * j + D <= D * N
  BY <1>1, <1>2, <1>5, Product
<1>8. D * j \in Nat /\ (D * j) \div D = j /\ (D * j) % D = 0
  <2>1. 0 \in 0 .. D - 1 /\ D * j + 0 = D * j
    BY <1>2, <1>7
  <2> QED BY <1>6, <2>1
<1>9. (D * j + WORD) \div D = j /\ (D * j + WORD) % D = WORD
  BY <1>2, <1>6
<1>10. image[D * j + 1] = MtrrRead(m, i, TRUE, FALSE).lo
  <2>1. D * j + 1 \in 1 .. D * N /\ (D * j + 1) - 1 = D * j
    BY <1>2, <1>7
  <2> QED BY <1>3, <1>5, <1>8, <2>1
<1>11. image[D * j + WORD + 1] = MtrrRead(m, i, TRUE, FALSE).hi
  <2>1. D * j + WORD + 1 \in 1 .. D * N /\ (D * j + WORD + 1) - 1 = D * j + WORD /\ WORD # 0
    BY <1>2, <1>7
  <2> QED BY <1>3, <1>5, <1>9, <2>1
<1>12. D * j + WORD + 1 <= Len(image)
  BY <1>2, <1>4, <1>7
<1>13. at \in Nat /\ at + WORD + 1 <= Len(image)
       /\ image[at + 1] = MtrrRead(m, i, TRUE, FALSE).lo
       /\ image[at + WORD + 1] = MtrrRead(m, i, TRUE, FALSE).hi
  BY <1>7, <1>10, <1>11, <1>12 DEF j
<1> QED BY <1>13 DEF D, image
-----------------------------------------------------------------------------
(* What a boot has to save, and where it goes *)

Regions == {"nonvolatile", "volatile", "mtrr"}
Room(r) == Cells(Pos(r), RegionSize(r))
FixedOf(d) == 2 * WORD * Len(d.msr.fixed)

LEMMA BootFact ==
    ASSUME NEW b \in Boots
    PROVE  /\ b.nv \in Seq(Nat) /\ b.vol \in Seq(Nat) /\ b.msr \in Mtrrs
           /\ b # Nothing
           /\ S3Image(b.nv) \in Seq(Nat) /\ Len(S3Image(b.nv)) \in 1 .. NONVOLATILE_SIZE
           /\ S3Image(b.vol) \in Seq(Nat) /\ Len(S3Image(b.vol)) \in 1 .. VOLATILE_SIZE
           /\ MsrImage(b) \in Seq(Nat) /\ Len(MsrImage(b)) \in 1 .. MTRR_SIZE
           /\ Len(MsrImage(b)) % WORD = 0
           /\ FixedOf(b) \in 1 .. Len(MsrImage(b)) - 1 /\ FixedOf(b) % WORD = 0
<1>1. /\ b \in [nv : Seq(Nat), vol : Seq(Nat), msr : Mtrrs]
      /\ b.msr.fixed # <<>> /\ b.msr.var # <<>>
  BY BootAssumption
<1>2. b.nv \in Seq(Nat) /\ b.vol \in Seq(Nat) /\ b.msr \in Mtrrs
  BY <1>1
<1>3. b # Nothing
  <2>1. DOMAIN b = {"nv", "vol", "msr"} /\ DOMAIN Nothing = {"none"}
    BY <1>1 DEF Nothing
  <2> QED BY <2>1
<1>4. /\ Len(S3Image(b.nv)) <= NONVOLATILE_SIZE
      /\ Len(S3Image(b.vol)) <= VOLATILE_SIZE
      /\ Len(MsrImage(b)) <= MTRR_SIZE
  BY FitAssumption DEF MsrImage
<1>5. /\ S3Image(b.nv) \in Seq(Nat) /\ Len(S3Image(b.nv)) \in 1 .. NONVOLATILE_SIZE
      /\ S3Image(b.vol) \in Seq(Nat) /\ Len(S3Image(b.vol)) \in 1 .. VOLATILE_SIZE
  <2>1. ASSUME NEW d \in Seq(Nat), NEW n \in Nat, Len(S3Image(d)) <= n
        PROVE  S3Image(d) \in Seq(Nat) /\ Len(S3Image(d)) \in 1 .. n
    BY <2>1, ImageFact, Sizes
  <2> QED BY <1>2, <1>4, <2>1, Sizes
<1>6. PICK f \in Nat, v \in Nat : f = Len(b.msr.fixed) /\ v = Len(b.msr.var)
  BY <1>2, TableLengths
<1>7. f # 0 /\ v # 0
  BY <1>1, <1>2, <1>6 DEF Mtrrs
<1>8. MsrImage(b) \in Seq(Nat) /\ Len(MsrImage(b)) = 2 * WORD * (f + v)
  <2>1. /\ MsrImage(b) \in Seq(Nat)
        /\ Len(MsrImage(b)) = 2 * WORD * (Len(b.msr.fixed) + Len(b.msr.var))
    BY <1>2, MtrrImageFact DEF MsrImage
  <2> QED BY <1>6, <2>1
<1>9. FixedOf(b) = 2 * WORD * f
  BY <1>6 DEF FixedOf
<1>10. /\ 2 * WORD * (f + v) \in Nat /\ 2 * WORD * f \in 0 .. 2 * WORD * (f + v)
       /\ (2 * WORD * (f + v)) % WORD = 0 /\ (2 * WORD * f) % WORD = 0
       /\ 2 * WORD * f < 2 * WORD * (f + v)
       /\ 0 < 2 * WORD * f
  BY <1>7, ImageLength
<1>11. /\ Len(MsrImage(b)) \in 1 .. MTRR_SIZE /\ Len(MsrImage(b)) % WORD = 0
       /\ FixedOf(b) \in 1 .. Len(MsrImage(b)) - 1 /\ FixedOf(b) % WORD = 0
  <2> DEFINE n == 2 * WORD * (f + v)
             k == 2 * WORD * f
  <2>1. n \in Nat /\ k \in 0 .. n /\ n % WORD = 0 /\ k % WORD = 0 /\ k < n /\ 0 < k
        /\ Len(MsrImage(b)) = n /\ FixedOf(b) = k /\ n <= MTRR_SIZE
    BY <1>4, <1>8, <1>9, <1>10
  <2> HIDE DEF n, k
  <2> QED BY <2>1, Sizes
<1> QED BY <1>2, <1>3, <1>5, <1>8, <1>11

LEMMA RoomFact ==
    /\ \A r \in Regions : /\ Pos(r) \in Nat /\ RegionSize(r) \in Nat \ {0}
                          /\ RegionSize(r) % SECTOR = 0
                          /\ Pos(r) + RegionSize(r) <= SIZE
                          /\ Room(r) \subseteq 0 .. SIZE - 1
    /\ \A r, q \in Regions : r # q => Room(r) \cap Room(q) = {}
    /\ SIZE \in Nat
<1>1. SIZE \in Nat
  BY Sizes DEF SIZE
<1>2. /\ Pos("volatile") = 0 /\ RegionSize("volatile") = VOLATILE_SIZE
      /\ Pos("mtrr") = VOLATILE_SIZE /\ RegionSize("mtrr") = MTRR_SIZE
      /\ Pos("nonvolatile") = VOLATILE_SIZE + MTRR_SIZE
      /\ RegionSize("nonvolatile") = NONVOLATILE_SIZE
  BY DEF Pos, RegionSize, VOLATILE_POS, MTRR_POS, NONVOLATILE_POS
<1>3. \A r \in Regions : /\ Pos(r) \in Nat /\ RegionSize(r) \in Nat \ {0}
                         /\ RegionSize(r) % SECTOR = 0
                         /\ Pos(r) + RegionSize(r) <= SIZE
  BY <1>2, Sizes DEF Regions, SIZE
<1>4. \A r \in Regions : Room(r) \subseteq 0 .. SIZE - 1
  BY <1>1, <1>3 DEF Room, Cells
<1>5. \A r, q \in Regions : r # q => Room(r) \cap Room(q) = {}
  <2>1. /\ Room("volatile") = 0 .. VOLATILE_SIZE - 1
        /\ Room("mtrr") = VOLATILE_SIZE .. VOLATILE_SIZE + MTRR_SIZE - 1
        /\ Room("nonvolatile") = VOLATILE_SIZE + MTRR_SIZE .. SIZE - 1
    BY <1>2, Sizes DEF Room, Cells, SIZE
  <2>2. /\ Room("volatile") \cap Room("mtrr") = {}
        /\ Room("volatile") \cap Room("nonvolatile") = {}
        /\ Room("mtrr") \cap Room("nonvolatile") = {}
    BY <2>1, Sizes DEF SIZE
  <2> QED BY <2>2 DEF Regions
<1> QED BY <1>1, <1>3, <1>4, <1>5

LEMMA RegionTypes ==
    ASSUME TypeOK
    PROVE  region \in Regions /\ data \in Boots /\ done \in Nat /\ nvram_pos \in Nat
           /\ flash \in [0 .. SIZE - 1 -> Int] /\ busy \subseteq 0 .. SIZE - 1
BY RoomFact DEF TypeOK, Regions

\* The image of the region in hand.
LEMMA GoalFact ==
    ASSUME TypeOK
    PROVE  /\ Goal \in Seq(Nat) /\ Len(Goal) \in 1 .. RegionSize(region)
           /\ region # "mtrr" => Goal = NewData
           /\ region = "mtrr" => Goal = MsrImage(data)
           /\ region = "nonvolatile" => Goal = S3Image(data.nv)
           /\ region = "volatile" => Goal = S3Image(data.vol)
<1>1. region \in Regions /\ data \in Boots
  BY RegionTypes
<1>2. /\ region # "mtrr" => Goal = NewData
      /\ region = "mtrr" => Goal = MsrImage(data)
      /\ region = "nonvolatile" => Goal = S3Image(data.nv)
      /\ region = "volatile" => Goal = S3Image(data.vol)
  BY <1>1 DEF Goal, NewData, Regions
<1>3. /\ region = "mtrr" => RegionSize(region) = MTRR_SIZE
      /\ region = "nonvolatile" => RegionSize(region) = NONVOLATILE_SIZE
      /\ region = "volatile" => RegionSize(region) = VOLATILE_SIZE
  BY DEF RegionSize
<1>4. Goal \in Seq(Nat) /\ Len(Goal) \in 1 .. RegionSize(region)
  BY <1>1, <1>2, <1>3, BootFact DEF Regions
<1> QED BY <1>2, <1>4

\* The sector in hand.
LEMMA SectorFact ==
    ASSUME TypeOK, LoopOK, pc \in {"erase", "erasing", "write"}
    PROVE  /\ pos \in Nat /\ pos = Pos(region) + done
           /\ Cells(pos, SECTOR) \subseteq Room(region)
           /\ Cells(pos, SECTOR) \subseteq 0 .. SIZE - 1
<1>1. done + SECTOR <= RegionSize(region)
  BY DEF LoopOK, Saving
<1>2. done \in Nat /\ region \in Regions
  BY RegionTypes
<1>3. Pos(region) \in Nat /\ RegionSize(region) \in Nat /\ Room(region) \subseteq 0 .. SIZE - 1
  BY <1>2, RoomFact
<1>4. pos \in Nat /\ pos = Pos(region) + done
  BY <1>2, <1>3 DEF pos
<1>5. Cells(pos, SECTOR) \subseteq Room(region)
  BY <1>1, <1>2, <1>3, <1>4, Sizes DEF Room, Cells
<1> QED BY <1>3, <1>4, <1>5

\* The part of the sector that is to be programmed.
LEMMA ThisSectorFact ==
    ASSUME TypeOK, region # "mtrr", done <= Len(NewData)
    PROVE  /\ Left \in Nat /\ Left = Len(NewData) - done
           /\ bytes_to_process \in 0 .. SECTOR
           /\ bytes_to_process <= Left
           /\ bytes_to_process = Left \/ bytes_to_process = SECTOR
           /\ Left > 0 => bytes_to_process > 0
           /\ ThisSector \in Seq(Nat) /\ Len(ThisSector) = bytes_to_process
           /\ \A i \in 1 .. bytes_to_process : ThisSector[i] = NewData[done + i]
           /\ Whole \in 0 .. bytes_to_process /\ Whole % TX = 0
<1>1. NewData \in Seq(Nat) /\ Len(NewData) \in Nat /\ done \in Nat
  BY GoalFact, RegionTypes
<1>2. Left \in Nat /\ Left = Len(NewData) - done
  BY <1>1 DEF Left
<1>3. /\ bytes_to_process \in 0 .. SECTOR /\ bytes_to_process <= Left
      /\ bytes_to_process = Left \/ bytes_to_process = SECTOR
      /\ Left > 0 => bytes_to_process > 0
  BY <1>2, Sizes DEF bytes_to_process
<1> DEFINE b == bytes_to_process
<1>4. b \in Nat /\ b <= Left
  BY <1>3, Sizes
<1> HIDE DEF b
<1>5. /\ SubSeq(NewData, done + 1, done + b) \in Seq(Nat)
      /\ Len(SubSeq(NewData, done + 1, done + b)) = b
      /\ \A i \in 1 .. b : SubSeq(NewData, done + 1, done + b)[i] = NewData[done + i]
  <2>1. done + 1 \in 1 .. Len(NewData) + 1 /\ done + b \in (done + 1) - 1 .. Len(NewData)
        /\ (done + b) - (done + 1) + 1 = b
    BY <1>1, <1>2, <1>4
  <2>2. \A i \in 1 .. b : (done + 1) + i - 1 = done + i
    BY <1>1, <1>4
  <2> DEFINE m == done + 1
             n == done + b
  <2> HIDE DEF m, n
  <2>3. m \in 1 .. Len(NewData) + 1 /\ n \in m - 1 .. Len(NewData) /\ n - m + 1 = b
    BY <2>1 DEF m, n
  <2>4. /\ SubSeq(NewData, m, n) \in Seq(Nat) /\ Len(SubSeq(NewData, m, n)) = n - m + 1
        /\ \A i \in 1 .. n - m + 1 : SubSeq(NewData, m, n)[i] = NewData[m + i - 1]
    BY <1>1, <2>3, SubSeqFact
  <2> QED BY <2>2, <2>3, <2>4 DEF m, n
<1>6. /\ ThisSector \in Seq(Nat) /\ Len(ThisSector) = bytes_to_process
      /\ \A i \in 1 .. bytes_to_process : ThisSector[i] = NewData[done + i]
  BY <1>5 DEF ThisSector, b
<1>7. Whole \in 0 .. bytes_to_process /\ Whole % TX = 0
  <2> DEFINE q == b \div TX
             r == b % TX
  <2>1. q \in Nat /\ r \in 0 .. TX - 1 /\ b = TX * q + r
    BY <1>4, Division, Sizes
  <2>2. TX * q \in Nat /\ (TX * q) % TX = 0
    BY <2>1, MultipleOf, Sizes
  <2>3. Whole = b - r
    BY DEF Whole, b
  <2> HIDE DEF q, r
  <2>4. Whole = TX * q
    BY <1>4, <2>1, <2>2, <2>3, Sizes
  <2> QED BY <1>4, <2>1, <2>2, <2>3, <2>4, Sizes DEF b
<1> QED BY <1>2, <1>3, <1>6, <1>7
-----------------------------------------------------------------------------
(* One lemma for each action *)

LEMMA Frame ==
    ASSUME region' = region, data' = data
    PROVE  /\ NewData' = NewData /\ Goal' = Goal
           /\ done' = done => /\ pos' = pos /\ Left' = Left
                              /\ bytes_to_process' = bytes_to_process
                              /\ ThisSector' = ThisSector /\ Whole' = Whole
BY DEF NewData, Goal, pos, Left, bytes_to_process, ThisSector, Whole

\* TypeOK in two parts.
Flags == modEn \in BOOLEAN /\ fault \in BOOLEAN
Types ==
    /\ flash \in [0 .. SIZE - 1 -> Int]
    /\ busy \subseteq 0 .. SIZE - 1
    /\ data \in Boots
    /\ pc \in Saving \cup {"off", "os", "resume", "restore"}
    /\ region \in {"nonvolatile", "volatile", "mtrr"}
    /\ done \in 0 .. SIZE /\ nvram_pos \in 0 .. SIZE

LEMMA TypeParts == (TypeOK <=> Flags /\ Types) /\ (TypeOK' <=> Flags' /\ Types')
BY Zenon DEF TypeOK, Flags, Types

LEMMA EmptyBegun == ASSUME NEW at, NEW s PROVE Begun(at, s, 0)
BY DEF Begun

LEMMA InitIInv == Init => IInv
<1> SUFFICES ASSUME Init PROVE IInv
  OBVIOUS
<1>1. TypeOK
  <2>1. SIZE \in Nat
    BY RoomFact
  <2>2. Types
    BY <2>1 DEF Init, Types, ERASED, Saving
  <2>3. Flags
    BY Zenon DEF Init, Flags
  <2> QED BY <2>2, <2>3, TypeParts
<1>2. data \in Boots /\ data # Nothing
  BY BootFact DEF Init
<1> QED BY <1>1, <1>2 DEF Init, IInv, LoopOK, Progress, KeptOK, RunningOK, Saving

LEMMA ColdBootStep == ASSUME IInv, ColdBoot PROVE IInv'
<1>1. /\ data' \in Boots /\ data' # Nothing /\ msr' = data'.msr /\ modEn' = FALSE
      /\ pc' = "probe" /\ region' = "nonvolatile" /\ done' = 0 /\ nvram_pos' = 0
      /\ fault' = FALSE /\ flash' = flash /\ busy = {} /\ busy' = {} /\ pc = "off"
      /\ kept' = IF kept = data' THEN kept ELSE Nothing
  BY BootFact DEF ColdBoot, chip
<1>2. TypeOK'
  <2>1. Types'
    BY <1>1, RoomFact, TypeParts DEF IInv, Types, Saving
  <2>2. Flags'
    BY <1>1, Zenon DEF Flags
  <2> QED BY <2>1, <2>2, TypeParts
<1>3. LoopOK'
  BY <1>1 DEF LoopOK
<1>4. Progress'
  BY <1>1, EmptyBegun DEF Progress, Begun
<1>5. KeptOK'
  <2>1. kept' = data' => kept = data /\ data' = data
    BY <1>1 DEF IInv, KeptOK
  <2>2. kept' \in {Nothing, data'}
    BY <1>1
  <2>3. data' = data => (Complete(data) <=> Complete(data)')
    BY <1>1 DEF Complete, InFlash, Begun
  <2> QED BY <1>1, <2>1, <2>2, <2>3 DEF IInv, KeptOK
<1>6. RunningOK'
  BY <1>1 DEF RunningOK
<1> QED BY <1>2, <1>3, <1>4, <1>5, <1>6 DEF IInv

\* The power may fail in any state: what is kept was complete in all of them.
LEMMA PowerOffStep == ASSUME IInv, PowerOff PROVE IInv'
<1>1. /\ pc' = "off" /\ busy' = {} /\ flash' = flash
      /\ UNCHANGED <<msr, modEn, data, region, done, nvram_pos, fault, kept, started>>
  BY DEF PowerOff, cpu, loop, history
<1>2. TypeOK'
  BY <1>1, RoomFact DEF IInv, TypeOK, Saving
<1>3. LoopOK' /\ Progress' /\ RunningOK'
  BY <1>1 DEF LoopOK, Progress, RunningOK, Saving
<1>4. KeptOK'
  BY <1>1 DEF IInv, KeptOK, Complete, InFlash, Begun
<1> QED BY <1>2, <1>3, <1>4 DEF IInv

LEMMA ProbeStep == ASSUME IInv, spi_flash_probe PROVE IInv'
<1>1. /\ pc = "probe" /\ pc' = (IF region = "mtrr" THEN "erase" ELSE "compare")
      /\ UNCHANGED <<flash, busy, msr, modEn, data, region, done, nvram_pos,
                     fault, kept, started, got>>
  BY DEF spi_flash_probe, chip, cpu, loop, history
<1>2. TypeOK'
  BY <1>1 DEF IInv, TypeOK, Saving
<1>3. NewData' = NewData /\ Goal' = Goal /\ pos' = pos
  BY <1>1, Frame
<1>4. LoopOK'
  <2>1. done = 0 /\ nvram_pos = 0 /\ msr = data.msr /\ (region = "volatile" => data.vol # <<>>)
    BY <1>1 DEF IInv, LoopOK, Saving
  <2>2. 0 % SECTOR = 0 /\ 0 + SECTOR <= RegionSize("mtrr")
    <3>1. 0 < RegionSize("mtrr") /\ RegionSize("mtrr") \in Nat /\ RegionSize("mtrr") % SECTOR = 0
      BY RoomFact DEF Regions
    <3>2. 0 + SECTOR <= RegionSize("mtrr")
      BY <3>1, ZeroMultiple, NextMultiple, Sizes
    <3> QED BY <3>2, ZeroMultiple, Sizes
  <2>3. region # "mtrr" => 0 <= Len(NewData)
    BY GoalFact DEF IInv
  <2> QED BY <1>1, <1>3, <2>1, <2>2, <2>3 DEF LoopOK
<1>5. Progress'
  <2>1. Cells(MTRR_POS, 0) = {}
    BY Sizes DEF Cells, MTRR_POS
  <2>2. done = 0 /\ nvram_pos = 0
    BY <1>1 DEF IInv, LoopOK, Saving
  <2>3. Blank(Cells(MTRR_POS, done))'
    BY <1>1, <2>1, <2>2 DEF Blank
  <2> QED BY <1>1, <1>3, <2>2, <2>3 DEF IInv, Progress, Saving, InFlash, Begun, Blank
<1>6. KeptOK' /\ RunningOK'
  BY <1>1 DEF IInv, KeptOK, RunningOK, Complete, InFlash, Begun
<1> QED BY <1>2, <1>4, <1>5, <1>6 DEF IInv

\* amdS3Save behind a block, and behind the MTRRs.
LEMMA NextRegion ==
    ASSUME TypeOK, amdS3Save(region), region # "mtrr"
    PROVE  /\ done' = 0 /\ nvram_pos' = 0
           /\ \/ pc' = "probe" /\ region = "nonvolatile" /\ region' = "volatile" /\ data.vol # <<>>
              \/ pc' = "check" /\ region' = "mtrr" /\ (region = "volatile" \/ data.vol = <<>>)
<1>1. data.vol \in Seq(Nat) /\ region \in Regions
  BY RegionTypes, BootFact
<1>2. Len(data.vol) = 0 <=> data.vol = <<>>
  <2>1. ASSUME NEW d \in Seq(Nat) PROVE Len(d) = 0 <=> d = <<>>
    OBVIOUS
  <2> QED BY <1>1, <2>1
<1> QED BY <1>1, <1>2 DEF amdS3Save, Regions

LEMMA LastRegion ==
    ASSUME amdS3Save("mtrr")
    PROVE  done' = 0 /\ nvram_pos' = 0 /\ pc' = "os" /\ region' = "mtrr"
BY DEF amdS3Save

LEMMA NoChipStep == ASSUME IInv, spi_flash_probe_fails PROVE IInv'
<1>1. /\ pc = "probe" /\ fault' = TRUE /\ amdS3Save(region)
      /\ IF region = "mtrr" THEN OsStarts(modEn, TRUE) ELSE UNCHANGED <<started, kept>>
      /\ UNCHANGED <<flash, busy, msr, modEn, data>>
  BY DEF spi_flash_probe_fails, chip, cpu
<1>2. /\ TypeOK /\ msr = data.msr
  BY <1>1 DEF IInv, LoopOK, Saving
<1>3. /\ done' = 0 /\ nvram_pos' = 0 /\ region' \in {"nonvolatile", "volatile", "mtrr"}
      /\ pc' \in {"probe", "check", "os"} /\ (pc' = "check" => region' = "mtrr")
      /\ region' = "volatile" => data.vol # <<>>
      /\ pc' = "os" <=> region = "mtrr"
      /\ pc' = "probe" => region' # "mtrr"
  BY <1>1, <1>2, NextRegion, LastRegion
<1>4. TypeOK'
  <2>1. Types'
    BY <1>1, <1>2, <1>3, RoomFact, TypeParts DEF Types, Saving
  <2>2. Flags'
    BY <1>1, <1>2, Zenon DEF Flags, TypeOK
  <2> QED BY <2>1, <2>2, TypeParts
<1>5. LoopOK'
  BY <1>1, <1>2, <1>3 DEF LoopOK
<1>6. Progress'
  BY <1>1 DEF Progress
<1>7. KeptOK'
  <2>1. data # Nothing
    BY <1>2, RegionTypes, BootFact
  <2>2. kept' = Nothing \/ kept' = kept
    BY <1>1 DEF OsStarts
  <2>3. Complete(data) => Complete(data)'
    BY <1>1 DEF Complete, InFlash, Begun
  <2> QED BY <1>1, <1>3, <2>1, <2>2, <2>3 DEF IInv, KeptOK
<1>8. RunningOK'
  BY <1>1, <1>3 DEF RunningOK
<1> QED BY <1>4, <1>5, <1>6, <1>7, <1>8 DEF IInv

LEMMA SaveS3InfoReturnsStep == ASSUME IInv, SaveS3InfoReturns PROVE IInv'
<1>1. /\ pc = "compare" /\ Left = 0 /\ amdS3Save(region)
      /\ UNCHANGED <<flash, busy, msr, modEn, data, fault, kept, started>>
  BY DEF SaveS3InfoReturns, chip, cpu, history
<1>2. /\ TypeOK /\ msr = data.msr /\ region # "mtrr" /\ done <= Len(NewData) /\ nvram_pos = 0
  BY <1>1 DEF IInv, LoopOK, Saving
<1>3. /\ done' = 0 /\ nvram_pos' = 0
      /\ \/ pc' = "probe" /\ region = "nonvolatile" /\ region' = "volatile" /\ data.vol # <<>>
         \/ pc' = "check" /\ region' = "mtrr" /\ (region = "volatile" \/ data.vol = <<>>)
  BY <1>1, <1>2, NextRegion
<1>4. TypeOK'
  <2>1. Types'
    BY <1>1, <1>2, <1>3, RoomFact, TypeParts DEF Types, Saving
  <2>2. Flags'
    BY <1>1, <1>2, Zenon DEF Flags, TypeOK
  <2> QED BY <2>1, <2>2, TypeParts
<1>5. LoopOK'
  BY <1>1, <1>2, <1>3 DEF LoopOK
<1>6. Progress'
  <2> SUFFICES ASSUME ~fault PROVE Progress'
    BY <1>1 DEF Progress
  <2>1. done = Len(NewData) /\ done + nvram_pos = Len(NewData)
    BY <1>1, <1>2, ThisSectorFact, RegionTypes
  <2>2. busy = {} /\ InFlash(Pos(region), Goal)
    BY <1>1, <1>2, <2>1, GoalFact DEF IInv, Progress, Saving, InFlash
  <2>3. /\ region = "nonvolatile" => InFlash(NONVOLATILE_POS, S3Image(data.nv))
        /\ region = "volatile" => InFlash(VOLATILE_POS, S3Image(data.vol))
    BY <1>2, <2>2, GoalFact DEF Pos
  <2>4. region = "volatile" => InFlash(NONVOLATILE_POS, S3Image(data.nv))
    BY <1>1 DEF IInv, Progress, Saving
  <2>5. region \in {"nonvolatile", "volatile"}
    BY <1>2 DEF TypeOK
  <2>6. (InFlash(NONVOLATILE_POS, S3Image(data.nv)))'
    BY <1>1, <2>3, <2>4, <2>5 DEF InFlash, Begun
  <2>7. region' = "mtrr" /\ data.vol # <<>> => (InFlash(VOLATILE_POS, S3Image(data.vol)))'
    BY <1>1, <1>3, <2>3 DEF InFlash, Begun
  <2> QED BY <1>1, <1>3, <2>2, <2>6, <2>7, EmptyBegun DEF Progress, Begun
<1>7. KeptOK'
  BY <1>1, <1>3 DEF IInv, KeptOK, Complete, InFlash, Begun
<1>8. RunningOK'
  BY <1>3 DEF RunningOK
<1> QED BY <1>4, <1>5, <1>6, <1>7, <1>8 DEF IInv

\* The comparison is exact: a sector of a block that is complete is passed.
LEMMA CompleteHolds ==
    ASSUME TypeOK, region # "mtrr", region = "volatile" => data.vol # <<>>,
           done <= Len(NewData), Complete(data)
    PROVE  Holds(pos, ThisSector)
<1>1. busy = {} /\ InFlash(Pos(region), NewData)
  <2>1. region \in {"nonvolatile", "volatile"}
    BY DEF TypeOK
  <2> QED BY <2>1 DEF Complete, NewData, Pos
<1>2. done \in Nat /\ Pos(region) \in Nat /\ Len(NewData) \in Nat
  BY RegionTypes, RoomFact, GoalFact
<1>3. /\ bytes_to_process \in Nat /\ done + bytes_to_process <= Len(NewData)
      /\ Len(ThisSector) = bytes_to_process
      /\ \A i \in 1 .. bytes_to_process : ThisSector[i] = NewData[done + i]
  BY <1>2, ThisSectorFact, Sizes
<1>4. ASSUME NEW i \in 1 .. bytes_to_process PROVE flash[pos + i - 1] = ThisSector[i]
  <2>1. done + i \in 1 .. Len(NewData) /\ pos + i - 1 = Pos(region) + (done + i) - 1
    BY <1>2, <1>3 DEF pos
  <2>2. flash[Pos(region) + (done + i) - 1] = NewData[done + i]
    BY <1>1, <2>1 DEF InFlash, Begun
  <2> QED BY <1>3, <2>1, <2>2
<1> QED BY <1>1, <1>3, <1>4 DEF Holds

LEMMA CompareStep == ASSUME IInv, Compare PROVE IInv'
<1>1. /\ pc = "compare" /\ Left > 0
      /\ UNCHANGED <<flash, busy, msr, modEn, data, region, nvram_pos, fault, kept, started>>
      /\ IF Holds(pos, ThisSector) THEN done' = done + bytes_to_process /\ pc' = "compare"
                                   ELSE done' = done /\ pc' = "erase"
  BY DEF Compare, chip, cpu, history
<1>2. /\ TypeOK /\ msr = data.msr /\ region # "mtrr" /\ done <= Len(NewData) /\ nvram_pos = 0
      /\ region = "volatile" => data.vol # <<>>
      /\ done = Len(NewData) \/ done % SECTOR = 0
  BY <1>1 DEF IInv, LoopOK, Saving
<1>3. /\ done \in Nat /\ Pos(region) \in Nat /\ Len(NewData) \in Nat
      /\ RegionSize(region) \in Nat /\ RegionSize(region) % SECTOR = 0
      /\ Len(NewData) <= RegionSize(region) /\ RegionSize(region) <= SIZE
      /\ SIZE \in Nat
  BY <1>2, RegionTypes, RoomFact, GoalFact
<1>4. /\ bytes_to_process \in Nat /\ done + bytes_to_process <= Len(NewData)
      /\ Left = Len(NewData) - done
      /\ bytes_to_process = Left \/ bytes_to_process = SECTOR
      /\ Len(ThisSector) = bytes_to_process
      /\ \A i \in 1 .. bytes_to_process : ThisSector[i] = NewData[done + i]
  BY <1>2, <1>3, ThisSectorFact, Sizes, SMTT(30)
<1>5. done < Len(NewData) /\ done % SECTOR = 0 /\ done + SECTOR <= RegionSize(region)
  <2>1. done < Len(NewData) /\ done % SECTOR = 0
    BY <1>1, <1>2, <1>3, <1>4
  <2>2. done < RegionSize(region)
    BY <1>3, <2>1
  <2> QED BY <1>3, <2>1, <2>2, NextMultiple, Sizes
<1>6. NewData' = NewData /\ Goal' = Goal /\ Goal = NewData
  BY <1>1, <1>2, Frame, GoalFact
<1>7. TypeOK'
  <2>1. done' \in 0 .. SIZE
    BY <1>1, <1>3, <1>4
  <2>2. Types'
    BY <1>1, <1>2, <2>1, TypeParts DEF Types, Saving
  <2>3. Flags'
    BY <1>1, <1>2, Zenon DEF Flags, TypeOK
  <2> QED BY <2>2, <2>3, TypeParts
<1>8. CASE Holds(pos, ThisSector)
  <2>1. done' = done + bytes_to_process /\ pc' = "compare"
    BY <1>1, <1>8
  <2>2. LoopOK'
    <3>1. done' = Len(NewData) \/ done' % SECTOR = 0
      BY <1>3, <1>4, <1>5, <2>1, NextMultiple, Sizes
    <3> QED BY <1>1, <1>2, <1>4, <1>6, <2>1, <3>1 DEF LoopOK
  <2>3. Progress'
    <3> SUFFICES ASSUME ~fault PROVE Progress'
      BY <1>1 DEF Progress
    <3>1. Begun(Pos(region), NewData, done)
      BY <1>1, <1>2, <1>3, <1>6 DEF IInv, Progress, Saving
    <3>2. ASSUME NEW i \in 1 .. done + bytes_to_process
          PROVE  flash[Pos(region) + i - 1] = NewData[i]
      <4>1. CASE i <= done
        BY <1>3, <1>4, <3>1, <4>1 DEF Begun
      <4>2. CASE i > done
        <5>1. i - done \in 1 .. bytes_to_process /\ done + (i - done) = i
              /\ pos + (i - done) - 1 = Pos(region) + i - 1
          BY <1>3, <1>4, <4>2 DEF pos
        <5>2. flash[pos + (i - done) - 1] = ThisSector[i - done]
          BY <1>4, <1>8, <5>1 DEF Holds
        <5> QED BY <1>4, <5>1, <5>2
      <4> QED BY <1>3, <1>4, <4>1, <4>2
    <3>3. Begun(Pos(region), Goal, done + nvram_pos)'
      <4>1. done' + nvram_pos' = done + bytes_to_process
        BY <1>1, <1>2, <1>3, <1>4, <2>1
      <4> QED BY <1>1, <1>6, <3>2, <4>1 DEF Begun
    <3>4. busy = {}
      BY <1>1 DEF IInv, Progress, Saving
    <3> QED BY <1>1, <1>2, <2>1, <3>3, <3>4 DEF IInv, Progress, Saving, InFlash, Begun
  <2>4. KeptOK'
    BY <1>1, <2>1 DEF IInv, KeptOK, Complete, InFlash, Begun
  <2>5. RunningOK'
    BY <2>1 DEF RunningOK
  <2> QED BY <1>7, <2>2, <2>3, <2>4, <2>5 DEF IInv
<1>9. CASE ~Holds(pos, ThisSector)
  <2>1. done' = done /\ pc' = "erase"
    BY <1>1, <1>9
  <2>2. LoopOK'
    BY <1>1, <1>2, <1>5, <1>6, <2>1 DEF LoopOK
  <2>3. Progress'
    <3>1. pos' = pos
      BY <1>1, <2>1, Frame
    <3> QED BY <1>1, <1>2, <1>6, <2>1, <3>1 DEF IInv, Progress, Saving, InFlash, Begun
  <2>4. KeptOK'
    <3>1. kept # data
      BY <1>2, <1>9, CompleteHolds DEF IInv, KeptOK
    <3> QED BY <1>1, <3>1 DEF IInv, KeptOK
  <2>5. RunningOK'
    BY <2>1 DEF RunningOK
  <2> QED BY <1>7, <2>2, <2>3, <2>4, <2>5 DEF IInv
<1> QED BY <1>8, <1>9

LEMMA CheckStep == ASSUME IInv, check_saved_mtrr_data PROVE IInv'
<1> DEFINE image == MtrrImage(msr, TRUE, FALSE)
           head == SubSeq(image, 1, FixedCells)
<1>1. /\ pc = "check" /\ UNCHANGED <<flash, busy, msr, data, fault>>
      /\ modEn' = ~Holds(MTRR_POS, head)
      /\ IF Holds(MTRR_POS, image) THEN amdS3Save("mtrr") /\ OsStarts(modEn', fault)
         ELSE pc' = "probe" /\ UNCHANGED <<region, done, nvram_pos, started, kept>>
  BY DEF check_saved_mtrr_data, chip, loop
<1>2. /\ TypeOK /\ msr = data.msr /\ region = "mtrr" /\ done = 0 /\ nvram_pos = 0
  BY <1>1 DEF IInv, LoopOK, Saving
<1>3. /\ data \in Boots /\ data # Nothing /\ image = MsrImage(data) /\ FixedCells = FixedOf(data)
      /\ image \in Seq(Nat) /\ Len(image) \in Nat /\ FixedCells \in 1 .. Len(image) - 1
  <2>1. data \in Boots
    BY <1>2, RegionTypes
  <2>2. image = MsrImage(data) /\ FixedCells = FixedOf(data)
    BY <1>2 DEF MsrImage, FixedCells, FixedOf
  <2>3. /\ data # Nothing /\ MsrImage(data) \in Seq(Nat) /\ Len(MsrImage(data)) \in 1 .. MTRR_SIZE
        /\ FixedOf(data) \in 1 .. Len(MsrImage(data)) - 1
    BY <2>1, BootFact
  <2> HIDE DEF image
  <2> QED BY <2>1, <2>2, <2>3, Sizes
<1> HIDE DEF image
<1>4. CASE Holds(MTRR_POS, image)
  <2>1. /\ done' = 0 /\ nvram_pos' = 0 /\ pc' = "os" /\ region' = "mtrr"
        /\ OsStarts(modEn', fault)
    BY <1>1, <1>4, LastRegion
  <2>2. Holds(MTRR_POS, head)
    <3>1. Len(head) = FixedCells /\ \A i \in 1 .. FixedCells : head[i] = image[i]
      BY <1>3
    <3> QED BY <1>3, <1>4, <3>1 DEF Holds
  <2>3. modEn' = FALSE
    BY <1>1, <2>2
  <2>4. TypeOK'
    <3>1. Types'
      BY <1>1, <1>2, <2>1, RoomFact, TypeParts DEF Types, Saving
    <3>2. Flags'
      BY <1>1, <1>2, <2>3, Zenon DEF Flags, TypeOK
    <3> QED BY <3>1, <3>2, TypeParts
  <2>5. LoopOK' /\ Progress'
    BY <2>1 DEF LoopOK, Progress, Saving
  <2>6. ~fault => Complete(data)
    <3> SUFFICES ASSUME ~fault PROVE Complete(data)
      OBVIOUS
    <3>1. /\ busy = {} /\ InFlash(NONVOLATILE_POS, S3Image(data.nv))
          /\ data.vol # <<>> => InFlash(VOLATILE_POS, S3Image(data.vol))
      BY <1>1, <1>2 DEF IInv, Progress, Saving
    <3>2. InFlash(MTRR_POS, MsrImage(data))
      BY <1>3, <1>4 DEF Holds, InFlash, Begun
    <3> QED BY <3>1, <3>2 DEF Complete
  <2>7. Complete(data) => Complete(data)'
    BY <1>1 DEF Complete, InFlash, Begun
  <2>8. KeptOK'
    BY <1>1, <1>3, <2>1, <2>6, <2>7 DEF KeptOK, OsStarts
  <2>9. RunningOK'
    BY <1>1, <1>2, <2>1, <2>3 DEF RunningOK, OsStarts
  <2> QED BY <2>4, <2>5, <2>8, <2>9 DEF IInv
<1>5. CASE ~Holds(MTRR_POS, image)
  <2>1. pc' = "probe" /\ UNCHANGED <<region, done, nvram_pos, started, kept>>
    BY <1>1, <1>5
  <2>2. TypeOK'
    <3>1. Types'
      BY <1>1, <1>2, <2>1, TypeParts DEF Types, Saving
    <3>2. Flags'
      BY <1>1, <1>2, Zenon DEF Flags, TypeOK
    <3> QED BY <3>1, <3>2, TypeParts
  <2>3. LoopOK'
    BY <1>1, <1>2, <2>1 DEF LoopOK
  <2>4. Progress'
    BY <1>1, <1>2, <2>1 DEF IInv, Progress, Saving, InFlash, Begun
  <2>5. KeptOK'
    <3>1. ~Complete(data)
      BY <1>3, <1>5 DEF Complete, Holds, InFlash, Begun
    <3> QED BY <1>1, <2>1, <3>1 DEF IInv, KeptOK
  <2>6. RunningOK'
    BY <2>1 DEF RunningOK
  <2> QED BY <2>2, <2>3, <2>4, <2>5, <2>6 DEF IInv
<1> QED BY <1>4, <1>5

\* What is written into one region leaves the others alone.
LEMMA Elsewhere ==
    ASSUME NEW r \in Regions, NEW q \in Regions, r # q,
           NEW s \in Seq(Nat), Len(s) <= RegionSize(r), InFlash(Pos(r), s),
           \A c \in (0 .. SIZE - 1) \ Room(q) : flash'[c] = flash[c]
    PROVE  InFlash(Pos(r), s)'
<1>1. SUFFICES ASSUME NEW i \in 1 .. Len(s) PROVE flash'[Pos(r) + i - 1] = s[i]
  BY DEF InFlash, Begun, Pos, VOLATILE_POS, MTRR_POS, NONVOLATILE_POS
<1>2. Pos(r) \in Nat /\ RegionSize(r) \in Nat
  BY RoomFact
<1>3. Pos(r) + i - 1 \in Room(r)
  BY <1>2 DEF Room, Cells
<1>4. Pos(r) + i - 1 \in (0 .. SIZE - 1) \ Room(q)
  BY <1>3, RoomFact
<1>5. flash[Pos(r) + i - 1] = s[i]
  BY DEF InFlash, Begun
<1> QED BY <1>4, <1>5

\* The regions saved before stay in the flash while this one is written.
LEMMA SavedStays ==
    ASSUME TypeOK, region' = region, data' = data,
           \A c \in (0 .. SIZE - 1) \ Room(region) : flash'[c] = flash[c],
           region # "nonvolatile" => InFlash(NONVOLATILE_POS, S3Image(data.nv)),
           region = "mtrr" /\ data.vol # <<>> => InFlash(VOLATILE_POS, S3Image(data.vol))
    PROVE  /\ region' # "nonvolatile" => InFlash(NONVOLATILE_POS, S3Image(data.nv))'
           /\ region' = "mtrr" /\ data'.vol # <<>> => InFlash(VOLATILE_POS, S3Image(data.vol))'
<1>1. region \in Regions /\ data \in Boots
  BY RegionTypes
<1>2. /\ S3Image(data.nv) \in Seq(Nat) /\ Len(S3Image(data.nv)) <= NONVOLATILE_SIZE
      /\ S3Image(data.vol) \in Seq(Nat) /\ Len(S3Image(data.vol)) <= VOLATILE_SIZE
  BY <1>1, BootFact
<1>3. /\ Pos("nonvolatile") = NONVOLATILE_POS /\ RegionSize("nonvolatile") = NONVOLATILE_SIZE
      /\ Pos("volatile") = VOLATILE_POS /\ RegionSize("volatile") = VOLATILE_SIZE
  BY DEF Pos, RegionSize
<1>4. ASSUME NEW r \in Regions, r # region, NEW s \in Seq(Nat), Len(s) <= RegionSize(r),
             InFlash(Pos(r), s)
      PROVE  \A i \in 1 .. Len(s) : flash'[Pos(r) + i - 1] = s[i]
  BY <1>1, <1>4, Elsewhere DEF InFlash, Begun, Pos, VOLATILE_POS, MTRR_POS, NONVOLATILE_POS
<1>5. ASSUME region # "nonvolatile" PROVE InFlash(NONVOLATILE_POS, S3Image(data.nv))'
  <2>1. \A i \in 1 .. Len(S3Image(data.nv)) :
            flash'[NONVOLATILE_POS + i - 1] = S3Image(data.nv)[i]
    BY <1>2, <1>3, <1>4, <1>5 DEF Regions
  <2> QED BY <2>1 DEF InFlash, Begun
<1>6. ASSUME region = "mtrr", data.vol # <<>> PROVE InFlash(VOLATILE_POS, S3Image(data.vol))'
  <2>1. \A i \in 1 .. Len(S3Image(data.vol)) :
            flash'[VOLATILE_POS + i - 1] = S3Image(data.vol)[i]
    BY <1>2, <1>3, <1>4, <1>6 DEF Regions
  <2> QED BY <2>1 DEF InFlash, Begun
<1> QED BY <1>5, <1>6

\* Cells in front of the sector in hand.
LEMMA InFront ==
    ASSUME TypeOK, LoopOK, pc \in {"erase", "erasing", "write"}, NEW i \in 1 .. done
    PROVE  /\ Pos(region) + i - 1 \in 0 .. SIZE - 1
           /\ Pos(region) + i - 1 \notin Cells(pos, SECTOR)
<1>1. /\ done \in Nat /\ Pos(region) \in Nat /\ RegionSize(region) \in Nat
      /\ Pos(region) + RegionSize(region) <= SIZE /\ SIZE \in Nat
  BY RegionTypes, RoomFact
<1>2. done + SECTOR <= RegionSize(region)
  BY DEF LoopOK, Saving
<1> QED BY <1>1, <1>2, Sizes DEF pos, Cells

\* What an erase of the sector in hand leaves alone.
LEMMA EraseLeaves ==
    ASSUME IInv, pc \in {"erase", "erasing"}, ~fault, region' = region, data' = data,
           done' = done, nvram_pos' = nvram_pos,
           \A c \in (0 .. SIZE - 1) \ Cells(pos, SECTOR) : flash'[c] = flash[c]
    PROVE  /\ region' # "nonvolatile" => InFlash(NONVOLATILE_POS, S3Image(data.nv))'
           /\ region' = "mtrr" /\ data'.vol # <<>> => InFlash(VOLATILE_POS, S3Image(data.vol))'
           /\ region' # "mtrr" => Begun(Pos(region), Goal, done + nvram_pos)'
           /\ region' = "mtrr" => Blank(Cells(MTRR_POS, done))'
<1>1. TypeOK /\ LoopOK /\ nvram_pos = 0 /\ done \in Nat
  BY RegionTypes DEF IInv, LoopOK, Saving
<1>2. /\ region # "nonvolatile" => InFlash(NONVOLATILE_POS, S3Image(data.nv))
      /\ region = "mtrr" /\ data.vol # <<>> => InFlash(VOLATILE_POS, S3Image(data.vol))
      /\ region # "mtrr" => Begun(Pos(region), Goal, done + nvram_pos)
      /\ region = "mtrr" => Blank(Cells(MTRR_POS, done))
  BY DEF IInv, Progress, Saving
<1>3. \A c \in (0 .. SIZE - 1) \ Room(region) : flash'[c] = flash[c]
  BY <1>1, SectorFact
<1>4. Goal' = Goal
  BY Frame
<1>5. ASSUME NEW i \in 1 .. done PROVE flash'[Pos(region) + i - 1] = flash[Pos(region) + i - 1]
  BY <1>1, InFront
<1>6. region' # "mtrr" => Begun(Pos(region), Goal, done + nvram_pos)'
  <2>1. done + nvram_pos = done
    BY <1>1
  <2> QED BY <1>2, <1>4, <1>5, <2>1 DEF Begun
<1>7. region' = "mtrr" => Blank(Cells(MTRR_POS, done))'
  <2> SUFFICES ASSUME region = "mtrr", NEW c \in Cells(MTRR_POS, done)
               PROVE  flash'[c] = ERASED
    BY DEF Blank
  <2>1. Pos(region) = MTRR_POS /\ MTRR_POS \in Nat
    BY Sizes DEF Pos, MTRR_POS
  <2>2. c \in Int /\ c - MTRR_POS + 1 \in 1 .. done /\ MTRR_POS + (c - MTRR_POS + 1) - 1 = c
    BY <1>1, <2>1 DEF Cells
  <2>3. flash'[c] = flash[c]
    BY <1>5, <2>1, <2>2
  <2> QED BY <1>2, <2>3 DEF Blank
<1> QED BY <1>1, <1>2, <1>3, <1>6, <1>7, SavedStays

LEMMA EraseStartsStep == ASSUME IInv, EraseStarts PROVE IInv'
<1>1. /\ pc = "erase" /\ pc' = "erasing"
      /\ UNCHANGED <<msr, modEn, data, region, done, nvram_pos, fault, kept, started>>
      /\ IF busy = {} THEN busy' = Cells(pos, SECTOR) /\ flash' = Fill(pos, SECTOR, TORN)
         ELSE flash' = flash /\ busy' = busy
  BY DEF EraseStarts, chip, cpu, loop, history
<1>2. TypeOK /\ LoopOK /\ kept # data
  BY <1>1 DEF IInv, KeptOK
<1>3. flash \in [0 .. SIZE - 1 -> Int] /\ Cells(pos, SECTOR) \subseteq 0 .. SIZE - 1
  BY <1>1, <1>2, RegionTypes, SectorFact
<1>4. TypeOK'
  <2>1. flash' \in [0 .. SIZE - 1 -> Int]
    BY <1>1, <1>3 DEF Fill, TORN
  <2>2. busy' \subseteq 0 .. SIZE - 1
    BY <1>1, <1>2, <1>3 DEF TypeOK
  <2>3. Types'
    BY <1>1, <1>2, <2>1, <2>2, TypeParts DEF Types, Saving
  <2>4. Flags'
    BY <1>1, <1>2, Zenon DEF Flags, TypeOK
  <2> QED BY <2>3, <2>4, TypeParts
<1>5. NewData' = NewData /\ pos' = pos
  BY <1>1, Frame
<1>6. LoopOK'
  BY <1>1, <1>2, <1>5 DEF LoopOK, Saving
<1>7. Progress'
  <2> SUFFICES ASSUME ~fault PROVE Progress'
    BY <1>1 DEF Progress
  <2>1. busy = {}
    BY <1>1 DEF IInv, Progress, Saving
  <2>2. busy' = Cells(pos, SECTOR) /\ flash' = Fill(pos, SECTOR, TORN)
    BY <1>1, <2>1
  <2>3. \A c \in (0 .. SIZE - 1) \ Cells(pos, SECTOR) : flash'[c] = flash[c]
    BY <1>3, <2>2 DEF Fill
  <2>4. Blank(Cells(pos, SECTOR) \ busy)'
    BY <1>5, <2>2 DEF Blank, Cells
  <2>5. (busy \subseteq Cells(pos, SECTOR))'
    BY <1>5, <2>2 DEF Cells
  <2>6. /\ region' # "nonvolatile" => InFlash(NONVOLATILE_POS, S3Image(data.nv))'
        /\ region' = "mtrr" /\ data'.vol # <<>> => InFlash(VOLATILE_POS, S3Image(data.vol))'
        /\ region' # "mtrr" => Begun(Pos(region), Goal, done + nvram_pos)'
        /\ region' = "mtrr" => Blank(Cells(MTRR_POS, done))'
    BY <1>1, <2>3, EraseLeaves
  <2> QED BY <1>1, <2>4, <2>5, <2>6 DEF Progress
<1>8. KeptOK' /\ RunningOK'
  BY <1>1, <1>2 DEF IInv, KeptOK, RunningOK
<1> QED BY <1>4, <1>6, <1>7, <1>8 DEF IInv

LEMMA ChipReadyStep == ASSUME IInv, ChipReady PROVE IInv'
<1>1. /\ busy # {} /\ busy' = {}
      /\ flash' = [c \in DOMAIN flash |-> IF c \in busy THEN ERASED ELSE flash[c]]
      /\ UNCHANGED <<msr, modEn, data, pc, region, done, nvram_pos, fault, kept, started, got>>
  BY DEF ChipReady, cpu, loop, history
<1>2. TypeOK /\ LoopOK /\ kept # data
  BY <1>1 DEF IInv, KeptOK, Complete
<1>3. flash \in [0 .. SIZE - 1 -> Int]
  BY <1>2, RegionTypes
<1>4. TypeOK'
  <2>1. flash' \in [0 .. SIZE - 1 -> Int]
    BY <1>1, <1>3 DEF ERASED
  <2>2. Types'
    BY <1>1, <1>2, <2>1, TypeParts DEF Types, Saving
  <2>3. Flags'
    BY <1>1, <1>2, Zenon DEF Flags, TypeOK
  <2> QED BY <2>2, <2>3, TypeParts
<1>5. NewData' = NewData /\ pos' = pos /\ Whole' = Whole
  BY <1>1, Frame
<1>6. LoopOK'
  BY <1>1, <1>2, <1>5 DEF LoopOK, FixedCells
<1>7. Progress'
  <2> SUFFICES ASSUME ~fault, pc \in Saving PROVE Progress'
    BY <1>1 DEF Progress
  <2>1. pc = "erasing" /\ busy \subseteq Cells(pos, SECTOR) /\ Blank(Cells(pos, SECTOR) \ busy)
    BY <1>1 DEF IInv, Progress
  <2>2. \A c \in (0 .. SIZE - 1) \ Cells(pos, SECTOR) : flash'[c] = flash[c]
    BY <1>1, <1>3, <2>1
  <2>3. Cells(pos, SECTOR) \subseteq 0 .. SIZE - 1
    BY <1>2, <2>1, SectorFact
  <2>4. \A c \in Cells(pos, SECTOR) : flash'[c] = ERASED
    BY <1>1, <1>3, <2>1, <2>3 DEF Blank
  <2>5. Blank(Cells(pos, SECTOR) \ busy)'
    BY <1>5, <2>4 DEF Blank, Cells
  <2>6. /\ region' # "nonvolatile" => InFlash(NONVOLATILE_POS, S3Image(data.nv))'
        /\ region' = "mtrr" /\ data'.vol # <<>> => InFlash(VOLATILE_POS, S3Image(data.vol))'
        /\ region' # "mtrr" => Begun(Pos(region), Goal, done + nvram_pos)'
        /\ region' = "mtrr" => Blank(Cells(MTRR_POS, done))'
    BY <1>1, <2>1, <2>2, EraseLeaves
  <2> QED BY <1>1, <2>1, <2>5, <2>6 DEF Progress
<1>8. KeptOK' /\ RunningOK'
  BY <1>1, <1>2 DEF IInv, KeptOK, RunningOK
<1> QED BY <1>4, <1>6, <1>7, <1>8 DEF IInv

LEMMA EraseEndsStep == ASSUME IInv, EraseEnds PROVE IInv'
<1>1. /\ pc = "erasing" /\ busy = {}
      /\ UNCHANGED <<flash, busy, msr, data, region, nvram_pos, fault, kept, started>>
      /\ IF region # "mtrr" THEN pc' = "write" /\ UNCHANGED <<done, modEn>>
         ELSE IF done + SECTOR < MTRR_SIZE
         THEN pc' = "erase" /\ done' = done + SECTOR /\ UNCHANGED modEn
         ELSE pc' = "write" /\ done' = 0 /\ modEn' = TRUE
  BY DEF EraseEnds, chip, history
<1>2. TypeOK /\ LoopOK /\ kept # data
  BY <1>1 DEF IInv, KeptOK
<1>3. /\ msr = data.msr /\ nvram_pos = 0 /\ done % SECTOR = 0
      /\ region = "volatile" => data.vol # <<>>
      /\ region # "mtrr" => done < Len(NewData)
      /\ done + SECTOR <= RegionSize(region)
  BY <1>1, <1>2 DEF LoopOK, Saving
<1>4. /\ done \in Nat /\ SIZE \in Nat /\ MTRR_SIZE <= SIZE
      /\ region = "mtrr" => RegionSize(region) = MTRR_SIZE /\ Pos(region) = MTRR_POS
  BY <1>2, RegionTypes, RoomFact, Sizes DEF SIZE, RegionSize, Pos
<1>5. NewData' = NewData /\ Goal' = Goal
  BY <1>1, Frame
<1>6. pc' \in {"write", "erase"} /\ KeptOK' /\ RunningOK'
  BY <1>1, <1>2 DEF IInv, KeptOK, RunningOK
<1>7. TypeOK'
  <2>1. done' \in 0 .. SIZE
    BY <1>1, <1>2, <1>4, Sizes DEF TypeOK
  <2>2. Types'
    BY <1>1, <1>2, <1>6, <2>1, TypeParts DEF Types, Saving
  <2>3. Flags'
    BY <1>1, <1>2, Zenon DEF Flags, TypeOK
  <2> QED BY <2>2, <2>3, TypeParts
<1>8. ~fault => /\ region # "nonvolatile" => InFlash(NONVOLATILE_POS, S3Image(data.nv))
                /\ region = "mtrr" /\ data.vol # <<>> => InFlash(VOLATILE_POS, S3Image(data.vol))
                /\ region # "mtrr" => Begun(Pos(region), Goal, done + nvram_pos)
                /\ region = "mtrr" => Blank(Cells(MTRR_POS, done))
                /\ Blank(Cells(pos, SECTOR))
  BY <1>1 DEF IInv, Progress, Saving
<1>9. CASE region # "mtrr"
  <2>1. pc' = "write" /\ done' = done /\ pos' = pos /\ Whole' = Whole
    BY <1>1, <1>9, Frame
  <2>2. 0 <= Whole /\ 0 % TX = 0
    <3>1. done <= Len(NewData)
      BY <1>2, <1>3, <1>4, <1>9, GoalFact
    <3> QED BY <1>2, <1>9, <3>1, ThisSectorFact, ZeroMultiple, Sizes
  <2>3. LoopOK'
    BY <1>1, <1>3, <1>5, <1>9, <2>1, <2>2 DEF LoopOK
  <2>4. Progress'
    <3>1. Cells(pos + nvram_pos, SECTOR - nvram_pos) = Cells(pos, SECTOR)
      BY <1>1, <1>2, <1>3, SectorFact, Sizes DEF Cells
    <3> QED BY <1>1, <1>5, <1>8, <1>9, <2>1, <3>1 DEF Progress, InFlash, Begun, Blank
  <2> QED BY <1>6, <1>7, <2>3, <2>4 DEF IInv
<1>10. CASE region = "mtrr" /\ done + SECTOR < MTRR_SIZE
  <2>1. pc' = "erase" /\ done' = done + SECTOR
    BY <1>1, <1>10
  <2>2. done' % SECTOR = 0 /\ done' + SECTOR <= MTRR_SIZE /\ done' \in Nat
    <3>1. (done + SECTOR) % SECTOR = 0
      BY <1>3, <1>4, NextMultiple, Sizes
    <3>2. done' \in Nat /\ done' % SECTOR = 0 /\ done' < MTRR_SIZE
      BY <1>4, <1>10, <2>1, <3>1, Sizes
    <3> QED BY <3>2, NextMultiple, Sizes
  <2>3. LoopOK'
    BY <1>1, <1>3, <1>4, <1>10, <2>1, <2>2 DEF LoopOK
  <2>4. ~fault => Blank(Cells(MTRR_POS, done + SECTOR))
    <3>1. pos = MTRR_POS + done /\ MTRR_POS \in Nat
      BY <1>4, <1>10, Sizes DEF pos, MTRR_POS
    <3>2. \A c \in Cells(MTRR_POS, done + SECTOR) :
             c \in Cells(MTRR_POS, done) \/ c \in Cells(pos, SECTOR)
      BY <1>4, <3>1, Sizes DEF Cells
    <3> QED BY <1>8, <1>10, <3>2 DEF Blank
  <2>5. Progress'
    <3>1. busy' = {} /\ pc' = "erase" /\ region' = "mtrr"
      BY <1>1, <1>10, <2>1
    <3>2. ~fault => Blank(Cells(MTRR_POS, done))'
      BY <1>1, <2>1, <2>4 DEF Blank
    <3>3. ~fault => /\ InFlash(NONVOLATILE_POS, S3Image(data.nv))'
                    /\ data'.vol # <<>> => InFlash(VOLATILE_POS, S3Image(data.vol))'
      BY <1>1, <1>8, <1>10 DEF InFlash, Begun
    <3> QED BY <1>1, <3>1, <3>2, <3>3 DEF Progress
  <2> QED BY <1>6, <1>7, <2>3, <2>5 DEF IInv
<1>11. CASE region = "mtrr" /\ ~(done + SECTOR < MTRR_SIZE)
  <2>1. pc' = "write" /\ done' = 0 /\ modEn' = TRUE
    BY <1>1, <1>11
  <2>2. done + SECTOR = MTRR_SIZE /\ SECTOR <= MTRR_SIZE
    BY <1>3, <1>4, <1>11, Sizes
  <2>3. /\ 0 % SECTOR = 0 /\ 0 % WORD = 0 /\ 0 + SECTOR <= MTRR_SIZE
        /\ 0 <= Len(MsrImage(data)) /\ 0 < FixedCells
    <3>1. FixedCells = FixedOf(data)
      BY <1>3 DEF FixedCells, FixedOf
    <3>2. Len(MsrImage(data)) \in 1 .. MTRR_SIZE /\ FixedOf(data) \in 1 .. Len(MsrImage(data)) - 1
      BY <1>2, RegionTypes, BootFact
    <3> QED BY <2>2, <3>1, <3>2, ZeroMultiple, Sizes
  <2>4. LoopOK'
    BY <1>1, <1>3, <1>4, <1>11, <2>1, <2>3 DEF LoopOK, FixedCells
  <2>5. ~fault => Blank(Cells(MTRR_POS, MTRR_SIZE))
    <3>1. pos = MTRR_POS + done /\ MTRR_POS \in Nat
      BY <1>4, <1>11, Sizes DEF pos, MTRR_POS
    <3>2. \A c \in Cells(MTRR_POS, MTRR_SIZE) :
             c \in Cells(MTRR_POS, done) \/ c \in Cells(pos, SECTOR)
      BY <1>4, <2>2, <3>1, Sizes DEF Cells
    <3> QED BY <1>8, <1>11, <3>2 DEF Blank
  <2>6. Progress'
    <3>1. busy' = {} /\ region' = "mtrr" /\ done' + nvram_pos' = 0
      BY <1>1, <1>3, <1>11, <2>1
    <3>2. ~fault => Blank(Cells(pos + nvram_pos, MTRR_SIZE - nvram_pos))'
      <4>1. pos' = MTRR_POS
        BY <1>4, <2>1, <3>1, Sizes DEF pos, Pos, MTRR_POS
      <4>2. Cells(pos + nvram_pos, MTRR_SIZE - nvram_pos)' = Cells(MTRR_POS, MTRR_SIZE)
        BY <1>1, <1>3, <4>1, Sizes DEF Cells, MTRR_POS
      <4> QED BY <1>1, <2>5, <4>2 DEF Blank
    <3>3. ~fault => /\ InFlash(NONVOLATILE_POS, S3Image(data.nv))'
                    /\ data'.vol # <<>> => InFlash(VOLATILE_POS, S3Image(data.vol))'
      BY <1>1, <1>8, <1>11 DEF InFlash, Begun
    <3>4. Begun(Pos(region), Goal, done + nvram_pos)'
      BY <3>1 DEF Begun
    <3> QED BY <1>1, <2>1, <3>1, <3>2, <3>3, <3>4 DEF Progress
  <2> QED BY <1>6, <1>7, <2>4, <2>6 DEF IInv
<1> QED BY <1>9, <1>10, <1>11

\* Whatever the chip does, the loops go on as if it had erased.
LEMMA EraseTimesOutStep == ASSUME IInv, EraseTimesOut PROVE IInv'
<1>1. /\ pc = "erasing" /\ fault' = TRUE /\ pc' = "write"
      /\ done' = IF region = "mtrr" THEN 0 ELSE done
      /\ modEn' = (modEn \/ region = "mtrr")
      /\ UNCHANGED <<flash, busy, msr, data, region, nvram_pos, kept, started>>
  BY DEF EraseTimesOut, chip
<1>2. TypeOK /\ LoopOK /\ kept # data
  BY <1>1 DEF IInv, KeptOK
<1>3. /\ msr = data.msr /\ nvram_pos = 0 /\ done % SECTOR = 0
      /\ region = "volatile" => data.vol # <<>>
      /\ region # "mtrr" => done < Len(NewData)
      /\ done + SECTOR <= RegionSize(region)
  BY <1>1, <1>2 DEF LoopOK, Saving
<1>4. done \in Nat /\ RegionSize(region) \in Nat /\ SIZE \in Nat
  BY <1>2, RegionTypes, RoomFact
<1>5. TypeOK'
  <2>1. Types'
    BY <1>1, <1>2, <1>4, TypeParts DEF Types, Saving
  <2>2. Flags'
    BY <1>1, Zenon DEF Flags
  <2> QED BY <2>1, <2>2, TypeParts
<1>6. LoopOK'
  <2>1. CASE region # "mtrr"
    <3>1. done <= Len(NewData)
      BY <1>2, <1>3, <1>4, <2>1, GoalFact
    <3>2. 0 <= Whole /\ 0 % TX = 0
      BY <1>2, <2>1, <3>1, ThisSectorFact, ZeroMultiple, Sizes
    <3>3. done' = done /\ NewData' = NewData /\ Whole' = Whole
      BY <1>1, <2>1, Frame
    <3> QED BY <1>1, <1>3, <2>1, <3>2, <3>3 DEF LoopOK
  <2>2. CASE region = "mtrr"
    <3>1. modEn' = TRUE /\ done' = 0
      BY <1>1, <2>2
    <3>2. FixedCells = FixedOf(data)
      BY <1>3 DEF FixedCells, FixedOf
    <3>3. Len(MsrImage(data)) \in 1 .. MTRR_SIZE /\ FixedOf(data) \in 1 .. Len(MsrImage(data)) - 1
      BY <1>2, RegionTypes, BootFact
    <3>4. /\ 0 % SECTOR = 0 /\ 0 % WORD = 0 /\ 0 + SECTOR <= RegionSize(region)
          /\ 0 <= Len(MsrImage(data)) /\ 0 < FixedCells
      BY <1>3, <1>4, <3>2, <3>3, ZeroMultiple, Sizes
    <3> QED BY <1>1, <1>3, <2>2, <3>1, <3>4 DEF LoopOK, FixedCells
  <2> QED BY <2>1, <2>2
<1>7. Progress' /\ KeptOK' /\ RunningOK'
  BY <1>1, <1>2 DEF IInv, Progress, KeptOK, RunningOK
<1> QED BY <1>5, <1>6, <1>7 DEF IInv

LEMMA WriteType ==
    ASSUME TypeOK, NEW at \in Nat, NEW s \in Seq(Nat), Write(at, s)
    PROVE  flash' \in [0 .. SIZE - 1 -> Int]
<1>1. flash \in [0 .. SIZE - 1 -> Int]
  BY RegionTypes
<1>2. ASSUME NEW c \in 0 .. SIZE - 1, c \in Cells(at, Len(s)) PROVE s[c - at + 1] \in Int
  BY <1>2 DEF Cells
<1>3. Program(at, s) \in [0 .. SIZE - 1 -> Int]
  BY <1>1, <1>2 DEF Program, TORN
<1> QED BY <1>1, <1>3 DEF Write, Programs

\* A write notes its failure, and otherwise programs.
LEMMA WriteNotes ==
    ASSUME TypeOK, NEW at, NEW s, Write(at, s)
    PROVE  fault' \in BOOLEAN /\ (~fault' => ~fault /\ Programs(at, s))
<1>1. CASE Programs(at, s) /\ fault' = fault
  BY <1>1, Zenon DEF TypeOK
<1>2. CASE fault' = TRUE
  BY <1>2, Zenon
<1> QED BY <1>1, <1>2 DEF Write

\* How much of the flash is erased for the region in hand.
Span == IF region = "mtrr" THEN MTRR_SIZE ELSE SECTOR

\* The next n cells of the image are programmed.
ProgramsNext(s, n, at) ==
    /\ s \in Seq(Nat) /\ n \in Nat /\ n = Len(s)
    /\ at = pos + nvram_pos /\ Programs(at, s) /\ nvram_pos + n <= Span
    /\ \A i \in 1 .. n : s[i] = Goal[done + nvram_pos + i]

\* The image has then begun that much further.
LEMMA Programmed ==
    ASSUME IInv, pc = "write", ~fault, NEW s, NEW n, NEW at, ProgramsNext(s, n, at)
    PROVE  /\ \A i \in 1 .. done + nvram_pos + n : flash'[Pos(region) + i - 1] = Goal[i]
           /\ \A c \in Cells(pos + nvram_pos + n, Span - (nvram_pos + n)) :
                  flash'[c] = ERASED
           /\ \A c \in (0 .. SIZE - 1) \ Room(region) : flash'[c] = flash[c]
<1>1. TypeOK /\ LoopOK /\ n \in Nat /\ n = Len(s)
  BY DEF IInv, ProgramsNext
<1>2. /\ busy = {} /\ Begun(Pos(region), Goal, done + nvram_pos)
      /\ Blank(Cells(pos + nvram_pos, Span - nvram_pos))
  BY DEF IInv, Progress, Saving, Span
<1>3. /\ done \in Nat /\ nvram_pos \in Nat /\ Pos(region) \in Nat /\ RegionSize(region) \in Nat
      /\ Pos(region) + RegionSize(region) <= SIZE /\ SIZE \in Nat
      /\ pos = Pos(region) + done /\ pos \in Nat /\ Span \in Nat
      /\ flash \in [0 .. SIZE - 1 -> Int]
  <2>1. region \in Regions /\ done \in Nat /\ nvram_pos \in Nat /\ flash \in [0 .. SIZE - 1 -> Int]
    BY <1>1, RegionTypes
  <2>2. pos = Pos(region) + done /\ pos \in Nat
    BY <1>1, SectorFact
  <2>3. Span \in Nat
    BY Sizes DEF Span
  <2> QED BY <2>1, <2>2, <2>3, RoomFact
<1>4. done + Span <= RegionSize(region)
  <2>1. done + SECTOR <= RegionSize(region) /\ (region = "mtrr" => done = 0)
    BY <1>1 DEF LoopOK, Saving
  <2>2. region = "mtrr" => Span = MTRR_SIZE /\ RegionSize(region) = MTRR_SIZE
    BY DEF Span, RegionSize
  <2>3. region # "mtrr" => Span = SECTOR
    BY DEF Span
  <2> QED BY <2>1, <2>2, <2>3, Sizes
<1>5. flash' = Program(at, s)
  BY <1>2 DEF Programs, ProgramsNext
<1>6. at = Pos(region) + done + nvram_pos /\ nvram_pos + n <= Span /\ at = pos + nvram_pos
  BY <1>3 DEF ProgramsNext
<1>7. /\ \A c \in Cells(at, n) :
             c \in 0 .. SIZE - 1 /\ c \in Cells(at, Span - nvram_pos) /\ c \in Room(region)
      /\ \A i \in 1 .. done + nvram_pos :
             Pos(region) + i - 1 \in 0 .. SIZE - 1 /\ Pos(region) + i - 1 \notin Cells(at, n)
      /\ \A i \in done + nvram_pos + 1 .. done + nvram_pos + n :
             /\ i - (done + nvram_pos) \in 1 .. n /\ done + nvram_pos + (i - (done + nvram_pos)) = i
             /\ Pos(region) + i - 1 \in Cells(at, n)
             /\ (Pos(region) + i - 1) - at + 1 = i - (done + nvram_pos)
      /\ \A c \in Cells(at + n, Span - (nvram_pos + n)) :
             c \in 0 .. SIZE - 1 /\ c \notin Cells(at, n) /\ c \in Cells(at, Span - nvram_pos)
  <2>1. /\ Pos(region) \in Nat /\ RegionSize(region) \in Nat /\ SIZE \in Nat /\ Span \in Nat
        /\ done \in Nat /\ nvram_pos \in Nat /\ Pos(region) + RegionSize(region) <= SIZE
    BY <1>3
  <2> DEFINE P == Pos(region)
             R == RegionSize(region)
             Z == SIZE
             d == done
             v == nvram_pos
             S == Span
  <2>2. /\ P \in Nat /\ R \in Nat /\ Z \in Nat /\ d \in Nat /\ v \in Nat /\ n \in Nat /\ S \in Nat
        /\ P + R <= Z /\ d + S <= R /\ v + n <= S /\ at = P + d + v
    BY <1>1, <1>4, <1>6, <2>1
  <2> HIDE DEF P, R, Z, d, v, S
  <2>3. /\ \A c \in Cells(at, n) :
               c \in 0 .. Z - 1 /\ c \in Cells(at, S - v) /\ c \in Cells(P, R)
        /\ \A i \in 1 .. d + v : P + i - 1 \in 0 .. Z - 1 /\ P + i - 1 \notin Cells(at, n)
        /\ \A i \in d + v + 1 .. d + v + n :
               /\ i - (d + v) \in 1 .. n /\ d + v + (i - (d + v)) = i
               /\ P + i - 1 \in Cells(at, n)
               /\ (P + i - 1) - at + 1 = i - (d + v)
        /\ \A c \in Cells(at + n, S - (v + n)) :
               c \in 0 .. Z - 1 /\ c \notin Cells(at, n) /\ c \in Cells(at, S - v)
    BY <2>2 DEF Cells
  <2> QED BY <2>3, Zenon DEF Room, P, R, Z, d, v, S
<1>8. ASSUME NEW c \in 0 .. SIZE - 1, c \notin Cells(at, n) PROVE flash'[c] = flash[c]
  BY <1>1, <1>3, <1>5, <1>8 DEF Program
<1>9. ASSUME NEW c \in Cells(at, n) PROVE flash'[c] = s[c - at + 1]
  <2>1. flash[c] = ERASED
    BY <1>2, <1>6, <1>7 DEF Blank
  <2>2. c \in DOMAIN flash /\ c \in Cells(at, Len(s))
    BY <1>1, <1>3, <1>7
  <2> QED BY <1>5, <2>1, <2>2, Zenon DEF Program
<1>10. ASSUME NEW i \in 1 .. done + nvram_pos + n
       PROVE  flash'[Pos(region) + i - 1] = Goal[i]
  <2>1. CASE i \in 1 .. done + nvram_pos
    <3>1. flash[Pos(region) + i - 1] = Goal[i]
      BY <1>2, <2>1 DEF Begun
    <3> QED BY <1>7, <1>8, <2>1, <3>1
  <2>2. CASE i \in done + nvram_pos + 1 .. done + nvram_pos + n
    <3> DEFINE j == i - (done + nvram_pos)
    <3>1. /\ j \in 1 .. n /\ done + nvram_pos + j = i
          /\ Pos(region) + i - 1 \in Cells(at, n)
          /\ (Pos(region) + i - 1) - at + 1 = j
      BY <1>7, <2>2
    <3> HIDE DEF j
    <3>2. flash'[Pos(region) + i - 1] = s[j]
      BY <1>9, <3>1
    <3> QED BY <3>1, <3>2 DEF ProgramsNext
  <2> QED BY <1>1, <1>3, <2>1, <2>2
<1>11. ASSUME NEW c \in Cells(pos + nvram_pos + n, Span - (nvram_pos + n))
       PROVE  flash'[c] = ERASED
  BY <1>2, <1>6, <1>7, <1>8 DEF Blank
<1>12. ASSUME NEW c \in (0 .. SIZE - 1) \ Room(region) PROVE flash'[c] = flash[c]
  BY <1>7, <1>8
<1> QED BY <1>10, <1>11, <1>12

LEMMA WriteChunkStep == ASSUME IInv, WriteChunk PROVE IInv'
<1> DEFINE s == SubSeq(ThisSector, nvram_pos + 1, nvram_pos + TX)
           at == pos + nvram_pos
<1>1. /\ pc = "write" /\ region # "mtrr" /\ nvram_pos < Whole /\ Write(at, s)
      /\ nvram_pos' = nvram_pos + TX /\ pc' = "write"
      /\ UNCHANGED <<busy, msr, modEn, data, region, done, kept, started>>
  BY DEF WriteChunk, cpu
<1>2. TypeOK /\ LoopOK /\ kept # data
  BY <1>1 DEF IInv, KeptOK
<1>3. /\ msr = data.msr /\ done % SECTOR = 0 /\ done < Len(NewData) /\ nvram_pos % TX = 0
      /\ region = "volatile" => data.vol # <<>>
      /\ done + SECTOR <= RegionSize(region)
  BY <1>1, <1>2 DEF LoopOK, Saving
<1>4. /\ done \in Nat /\ nvram_pos \in Nat /\ SIZE \in Nat /\ RegionSize(region) <= SIZE
      /\ pos \in Nat /\ Len(NewData) \in Nat /\ RegionSize(region) \in Nat
      /\ Goal = NewData /\ Pos(region) \in Nat
  BY <1>1, <1>2, RegionTypes, RoomFact, SectorFact, GoalFact, SMTT(30)
<1>5. /\ Whole \in Nat /\ Whole % TX = 0 /\ Whole <= bytes_to_process
      /\ bytes_to_process \in Nat /\ bytes_to_process <= SECTOR
      /\ done + bytes_to_process <= Len(NewData)
      /\ ThisSector \in Seq(Nat) /\ Len(ThisSector) = bytes_to_process
      /\ \A i \in 1 .. bytes_to_process : ThisSector[i] = NewData[done + i]
  <2>1. done <= Len(NewData)
    BY <1>3, <1>4
  <2>2. /\ Left = Len(NewData) - done /\ bytes_to_process \in 0 .. SECTOR
        /\ bytes_to_process <= Left /\ Whole \in 0 .. bytes_to_process /\ Whole % TX = 0
        /\ ThisSector \in Seq(Nat) /\ Len(ThisSector) = bytes_to_process
        /\ \A i \in 1 .. bytes_to_process : ThisSector[i] = NewData[done + i]
    BY <1>1, <1>2, <2>1, ThisSectorFact
  <2> QED BY <1>4, <2>2, Sizes
<1>6. nvram_pos + TX <= Whole /\ (nvram_pos + TX) % TX = 0
  BY <1>1, <1>3, <1>4, <1>5, NextMultiple, Sizes
<1>7. /\ s \in Seq(Nat) /\ Len(s) = TX
      /\ \A i \in 1 .. TX : s[i] = NewData[done + nvram_pos + i]
  <2> DEFINE m == nvram_pos + 1
             n == nvram_pos + TX
  <2>1. m \in 1 .. Len(ThisSector) + 1 /\ n \in m - 1 .. Len(ThisSector) /\ n - m + 1 = TX
    BY <1>4, <1>5, <1>6, Sizes
  <2>2. ASSUME NEW i \in 1 .. TX
        PROVE  m + i - 1 = nvram_pos + i /\ nvram_pos + i \in 1 .. bytes_to_process
               /\ done + (nvram_pos + i) = done + nvram_pos + i
    BY <1>4, <1>5, <1>6, Sizes
  <2> HIDE DEF m, n
  <2>3. /\ SubSeq(ThisSector, m, n) \in Seq(Nat) /\ Len(SubSeq(ThisSector, m, n)) = n - m + 1
        /\ \A i \in 1 .. n - m + 1 : SubSeq(ThisSector, m, n)[i] = ThisSector[m + i - 1]
    <3> DEFINE q == ThisSector
    <3>1. q \in Seq(Nat) /\ m \in 1 .. Len(q) + 1 /\ n \in m - 1 .. Len(q)
      BY <1>5, <2>1
    <3> HIDE DEF q
    <3>2. /\ SubSeq(q, m, n) \in Seq(Nat) /\ Len(SubSeq(q, m, n)) = n - m + 1
          /\ \A i \in 1 .. n - m + 1 : SubSeq(q, m, n)[i] = q[m + i - 1]
      BY <3>1, SubSeqFact
    <3> QED BY <3>2 DEF q
  <2>4. SubSeq(ThisSector, m, n) = s
    BY DEF m, n
  <2> HIDE DEF s
  <2>5. s \in Seq(Nat) /\ Len(s) = TX
    BY <2>1, <2>3, <2>4
  <2>6. ASSUME NEW i \in 1 .. TX PROVE s[i] = NewData[done + nvram_pos + i]
    <3>1. s[i] = ThisSector[m + i - 1]
      BY <2>1, <2>3, <2>4
    <3> QED BY <1>5, <2>2, <3>1
  <2> QED BY <2>5, <2>6
<1> HIDE DEF s
<1>8. NewData' = NewData /\ Goal' = Goal /\ pos' = pos /\ Whole' = Whole
  BY <1>1, Frame
<1>9. TypeOK'
  <2>1. flash' \in [0 .. SIZE - 1 -> Int]
    BY <1>1, <1>2, <1>4, <1>7, WriteType
  <2>2. nvram_pos' \in 0 .. SIZE
    BY <1>1, <1>3, <1>4, <1>5, <1>6, Sizes
  <2>3. Types'
    BY <1>1, <1>2, <2>1, <2>2, TypeParts DEF Types, Saving
  <2>4. Flags'
    <3>1. fault' \in BOOLEAN
      BY <1>1, <1>2, WriteNotes
    <3> QED BY <1>1, <1>2, <3>1, Zenon DEF Flags, TypeOK
  <2> QED BY <2>3, <2>4, TypeParts
<1>10. LoopOK'
  BY <1>1, <1>3, <1>6, <1>8 DEF LoopOK
<1>11. Progress'
  <2> SUFFICES ASSUME ~fault' PROVE Progress'
    BY DEF Progress
  <2>0. ~fault /\ Programs(at, s)
    BY <1>1, <1>2, WriteNotes
  <2>1. nvram_pos + TX <= Span /\ Span = SECTOR /\ at \in Nat
    <3>1. Span = SECTOR
      BY <1>1 DEF Span
    <3> QED BY <1>4, <1>5, <1>6, <3>1, Sizes
  <2>2. /\ \A i \in 1 .. done + nvram_pos + TX : flash'[Pos(region) + i - 1] = Goal[i]
        /\ \A c \in Cells(pos + nvram_pos + TX, Span - (nvram_pos + TX)) :
               flash'[c] = ERASED
        /\ \A c \in (0 .. SIZE - 1) \ Room(region) : flash'[c] = flash[c]
    <3>1. ProgramsNext(s, TX, at)
      BY <1>1, <1>4, <1>7, <2>0, <2>1, Sizes DEF ProgramsNext
    <3> QED BY <1>1, <2>0, <3>1, Programmed
  <2>3. /\ busy = {}
        /\ region # "nonvolatile" => InFlash(NONVOLATILE_POS, S3Image(data.nv))
        /\ region = "mtrr" /\ data.vol # <<>> => InFlash(VOLATILE_POS, S3Image(data.vol))
    BY <1>1, <2>0 DEF IInv, Progress, Saving
  <2>4. /\ region' # "nonvolatile" => InFlash(NONVOLATILE_POS, S3Image(data.nv))'
        /\ region' = "mtrr" /\ data'.vol # <<>> => InFlash(VOLATILE_POS, S3Image(data.vol))'
    BY <1>1, <1>2, <2>2, <2>3, SavedStays
  <2>5. Begun(Pos(region), Goal, done + nvram_pos)'
    <3>1. done' + nvram_pos' = done + nvram_pos + TX
      BY <1>1, <1>4, <1>7, Sizes
    <3> QED BY <1>1, <1>8, <2>2, <3>1 DEF Begun
  <2>6. Blank(Cells(pos + nvram_pos, SECTOR - nvram_pos))'
    <3>1. pos' + nvram_pos' = pos + nvram_pos + TX
          /\ SECTOR - nvram_pos' = Span - (nvram_pos + TX)
      BY <1>1, <1>4, <1>7, <1>8, <2>1, Sizes
    <3> QED BY <2>2, <3>1 DEF Blank, Cells
  <2> QED BY <1>1, <2>3, <2>4, <2>5, <2>6 DEF Progress
<1>12. KeptOK' /\ RunningOK'
  BY <1>1, <1>2 DEF IInv, KeptOK, RunningOK
<1> QED BY <1>9, <1>10, <1>11, <1>12 DEF IInv

LEMMA WriteTailStep == ASSUME IInv, WriteTail PROVE IInv'
<1> DEFINE b == bytes_to_process
           w == Whole
           s == SubSeq(ThisSector, w + 1, b)
           at == pos + w
<1>1. /\ pc = "write" /\ region # "mtrr" /\ nvram_pos = w /\ Write(at, s)
      /\ nvram_pos' = 0 /\ done' = done + b /\ pc' = "compare"
      /\ UNCHANGED <<busy, msr, modEn, data, region, kept, started>>
  BY DEF WriteTail, cpu
<1>2. TypeOK /\ LoopOK /\ kept # data
  BY <1>1 DEF IInv, KeptOK
<1>3. /\ msr = data.msr /\ done % SECTOR = 0 /\ done < Len(NewData)
      /\ region = "volatile" => data.vol # <<>>
  BY <1>1, <1>2 DEF LoopOK, Saving
<1>4. /\ done \in Nat /\ SIZE \in Nat /\ RegionSize(region) <= SIZE
      /\ pos \in Nat /\ Len(NewData) \in Nat /\ RegionSize(region) \in Nat
      /\ Goal = NewData /\ Len(NewData) <= RegionSize(region)
  BY <1>1, <1>2, RegionTypes, RoomFact, SectorFact, GoalFact, SMTT(30)
<1>5. /\ w \in Nat /\ w <= b /\ b \in Nat /\ b <= SECTOR
      /\ done + b <= Len(NewData) /\ (done + b = Len(NewData) \/ b = SECTOR)
      /\ ThisSector \in Seq(Nat) /\ Len(ThisSector) = b
      /\ \A i \in 1 .. b : ThisSector[i] = NewData[done + i]
  <2>1. done <= Len(NewData)
    BY <1>3, <1>4
  <2>2. /\ Left = Len(NewData) - done /\ b \in 0 .. SECTOR
        /\ b <= Left /\ (b = Left \/ b = SECTOR) /\ w \in 0 .. b
        /\ ThisSector \in Seq(Nat) /\ Len(ThisSector) = b
        /\ \A i \in 1 .. b : ThisSector[i] = NewData[done + i]
    BY <1>1, <1>2, <2>1, ThisSectorFact
  <2> HIDE DEF b, w
  <2> QED BY <1>4, <2>2, Sizes
<1> HIDE DEF b, w
<1>6. /\ s \in Seq(Nat) /\ Len(s) = b - w
      /\ \A i \in 1 .. b - w : s[i] = NewData[done + w + i]
  <2> DEFINE m == w + 1
  <2>1. m \in 1 .. Len(ThisSector) + 1 /\ b \in m - 1 .. Len(ThisSector) /\ b - m + 1 = b - w
    BY <1>5
  <2>2. ASSUME NEW i \in 1 .. b - w
        PROVE  m + i - 1 = w + i /\ w + i \in 1 .. b /\ done + (w + i) = done + w + i
    BY <1>4, <1>5
  <2> HIDE DEF m
  <2>3. /\ SubSeq(ThisSector, m, b) \in Seq(Nat) /\ Len(SubSeq(ThisSector, m, b)) = b - m + 1
        /\ \A i \in 1 .. b - m + 1 : SubSeq(ThisSector, m, b)[i] = ThisSector[m + i - 1]
    BY <1>5, <2>1, SubSeqFact
  <2>4. SubSeq(ThisSector, m, b) = s
    BY DEF m
  <2> HIDE DEF s
  <2>5. s \in Seq(Nat) /\ Len(s) = b - w
    BY <2>1, <2>3, <2>4
  <2>6. ASSUME NEW i \in 1 .. b - w PROVE s[i] = NewData[done + w + i]
    <3>1. s[i] = ThisSector[m + i - 1]
      BY <2>1, <2>3, <2>4
    <3> QED BY <1>5, <2>2, <3>1
  <2> QED BY <2>5, <2>6
<1> HIDE DEF s
<1>7. NewData' = NewData /\ Goal' = Goal
  BY <1>1, Frame
<1>8. TypeOK'
  <2>1. flash' \in [0 .. SIZE - 1 -> Int]
    <3>1. at \in Nat
      BY <1>4, <1>5
    <3> HIDE DEF at
    <3> QED BY <1>1, <1>2, <1>6, <3>1, WriteType
  <2>2. done' \in 0 .. SIZE /\ nvram_pos' \in 0 .. SIZE
    BY <1>1, <1>4, <1>5
  <2>3. Types'
    BY <1>1, <1>2, <2>1, <2>2, TypeParts DEF Types, Saving
  <2>4. Flags'
    <3>1. fault' \in BOOLEAN
      BY <1>1, <1>2, WriteNotes
    <3> QED BY <1>1, <1>2, <3>1, Zenon DEF Flags, TypeOK
  <2> QED BY <2>3, <2>4, TypeParts
<1>9. LoopOK'
  <2>1. (done + SECTOR) % SECTOR = 0
    BY <1>3, <1>4, NextMultiple, Sizes
  <2>2. done' <= Len(NewData)
    BY <1>1, <1>5
  <2>3. done' = Len(NewData) \/ done' % SECTOR = 0
    <3>1. CASE b = SECTOR
      BY <1>1, <2>1, <3>1
    <3>2. CASE done + b = Len(NewData)
      BY <1>1, <3>2
    <3> QED BY <1>5, <3>1, <3>2
  <2> QED BY <1>1, <1>3, <1>7, <2>2, <2>3 DEF LoopOK
<1>10. Progress'
  <2> SUFFICES ASSUME ~fault' PROVE Progress'
    BY DEF Progress
  <2>0. ~fault /\ Programs(at, s)
    BY <1>1, <1>2, WriteNotes
  <2>1. ProgramsNext(s, b - w, at)
    <3>1. Span = SECTOR
      BY <1>1 DEF Span
    <3>2. nvram_pos + (b - w) <= Span /\ b - w \in Nat
      BY <1>1, <1>5, <3>1, Sizes
    <3> QED BY <1>1, <1>4, <1>6, <2>0, <3>2 DEF ProgramsNext
  <2>2. /\ \A i \in 1 .. done + nvram_pos + (b - w) : flash'[Pos(region) + i - 1] = Goal[i]
        /\ \A c \in (0 .. SIZE - 1) \ Room(region) : flash'[c] = flash[c]
    BY <1>1, <2>0, <2>1, Programmed
  <2>3. /\ busy = {}
        /\ region # "nonvolatile" => InFlash(NONVOLATILE_POS, S3Image(data.nv))
        /\ region = "mtrr" /\ data.vol # <<>> => InFlash(VOLATILE_POS, S3Image(data.vol))
    BY <1>1, <2>0 DEF IInv, Progress, Saving
  <2>4. /\ region' # "nonvolatile" => InFlash(NONVOLATILE_POS, S3Image(data.nv))'
        /\ region' = "mtrr" /\ data'.vol # <<>> => InFlash(VOLATILE_POS, S3Image(data.vol))'
    BY <1>1, <1>2, <2>2, <2>3, SavedStays
  <2>5. Begun(Pos(region), Goal, done + nvram_pos)'
    <3>1. done' + nvram_pos' = done + nvram_pos + (b - w)
      BY <1>1, <1>4, <1>5
    <3> QED BY <1>1, <1>7, <2>2, <3>1 DEF Begun
  <2> QED BY <1>1, <2>3, <2>4, <2>5 DEF Progress
<1>11. KeptOK' /\ RunningOK'
  BY <1>1, <1>2 DEF IInv, KeptOK, RunningOK
<1> QED BY <1>8, <1>9, <1>10, <1>11 DEF IInv

\* The image in hand while the MTRRs are written, against the one to be saved.
LEMMA ImageInHand ==
    ASSUME TypeOK, LoopOK, pc = "write", region = "mtrr"
    PROVE  /\ Image \in Seq(Nat) /\ Len(Image) = Len(MsrImage(data))
           /\ \A c \in 1 .. Len(MsrImage(data)) :
                  (modEn = TRUE /\ c <= FixedCells) \/ (modEn = FALSE /\ c > FixedCells) =>
                      Image[c] = MsrImage(data)[c]
<1>1. msr = data.msr
  BY DEF LoopOK, Saving
<1>2. data \in Boots /\ data.msr \in Mtrrs
  BY RegionTypes, BootFact
<1>3. /\ Image \in Seq(Nat)
      /\ Len(Image) = 2 * WORD * (Len(data.msr.fixed) + Len(data.msr.var))
  BY <1>1, <1>2, MtrrImageFact DEF Image
<1>4. Len(MsrImage(data)) = 2 * WORD * (Len(data.msr.fixed) + Len(data.msr.var))
  BY <1>2, MtrrImageFact DEF MsrImage
<1>5. ASSUME NEW c \in 1 .. Len(MsrImage(data)), modEn = TRUE, c <= FixedCells
      PROVE  Image[c] = MsrImage(data)[c]
  <2>1. Image = MtrrImage(data.msr, TRUE, TRUE)
    BY <1>1, <1>5 DEF Image
  <2>2. c <= 2 * WORD * Len(data.msr.fixed)
    BY <1>1, <1>5 DEF FixedCells
  <2>3. c \in 1 .. Len(MtrrImage(data.msr, TRUE, FALSE))
    BY DEF MsrImage
  <2>4. MtrrImage(data.msr, TRUE, TRUE)[c] = MtrrImage(data.msr, TRUE, FALSE)[c]
    BY <1>2, <2>2, <2>3, HalvesAgree
  <2> QED BY <2>1, <2>4 DEF MsrImage
<1>6. ASSUME NEW c \in 1 .. Len(MsrImage(data)), modEn = FALSE, c > FixedCells
      PROVE  Image[c] = MsrImage(data)[c]
  <2>1. Image = MtrrImage(data.msr, FALSE, FALSE)
    BY <1>1, <1>6 DEF Image
  <2>2. c > 2 * WORD * Len(data.msr.fixed)
    BY <1>1, <1>6 DEF FixedCells
  <2>3. c \in 1 .. Len(MtrrImage(data.msr, TRUE, FALSE))
    BY DEF MsrImage
  <2>4. MtrrImage(data.msr, FALSE, FALSE)[c] = MtrrImage(data.msr, TRUE, FALSE)[c]
    BY <1>2, <2>2, <2>3, HalvesAgree
  <2> QED BY <2>1, <2>4 DEF MsrImage
<1> QED BY <1>3, <1>4, <1>5, <1>6

LEMMA WriteMtrrStep == ASSUME IInv, write_mtrr PROVE IInv'
<1> DEFINE s == SubSeq(Image, nvram_pos + 1, nvram_pos + WORD)
           at == MTRR_POS + nvram_pos
           v == nvram_pos
           N == Len(MsrImage(data))
           F == FixedOf(data)
<1>1. /\ pc = "write" /\ region = "mtrr" /\ v < Len(Image) /\ Write(at, s)
      /\ nvram_pos' = v + WORD /\ pc' = "write" /\ modEn' = (nvram_pos' < FixedCells)
      /\ UNCHANGED <<busy, msr, data, region, done, kept, started>>
  BY DEF write_mtrr
<1>2. TypeOK /\ LoopOK /\ kept # data /\ v \in Nat /\ SIZE \in Nat
  BY <1>1, RegionTypes, RoomFact DEF IInv, KeptOK
<1>3. /\ msr = data.msr /\ done = 0 /\ v <= N /\ v % WORD = 0
      /\ modEn <=> v < FixedCells
  BY <1>1, <1>2 DEF LoopOK, Saving
<1>4. /\ N \in Nat /\ N <= MTRR_SIZE /\ N % WORD = 0 /\ FixedCells = F
      /\ F \in Nat /\ F < N /\ F % WORD = 0
  <2>1. data \in Boots /\ FixedCells = F
    BY <1>2, <1>3, RegionTypes DEF FixedCells, FixedOf
  <2>2. N \in 1 .. MTRR_SIZE /\ N % WORD = 0 /\ F \in 1 .. N - 1 /\ F % WORD = 0
    BY <2>1, BootFact
  <2> HIDE DEF N, F
  <2> QED BY <2>1, <2>2, Sizes
<1>5. /\ Image \in Seq(Nat) /\ Len(Image) = N /\ Goal = MsrImage(data)
      /\ \A c \in 1 .. N : (modEn = TRUE /\ c <= F) \/ (modEn = FALSE /\ c > F) =>
              Image[c] = Goal[c]
  BY <1>1, <1>2, <1>4, ImageInHand, GoalFact
<1> HIDE DEF N, F
<1>6. v < N /\ v + WORD <= N /\ (v + WORD) % WORD = 0 /\ (v < F => v + WORD <= F)
  BY <1>1, <1>2, <1>3, <1>4, <1>5, NextMultiple, Sizes
<1>7. /\ s \in Seq(Nat) /\ Len(s) = WORD
      /\ \A i \in 1 .. WORD : s[i] = Image[v + i]
  <2> DEFINE m == v + 1
             n == v + WORD
  <2>1. m \in 1 .. Len(Image) + 1 /\ n \in m - 1 .. Len(Image) /\ n - m + 1 = WORD
    BY <1>2, <1>4, <1>5, <1>6, Sizes
  <2>2. ASSUME NEW i \in 1 .. WORD PROVE m + i - 1 = v + i
    BY <1>2, Sizes
  <2> HIDE DEF m, n
  <2>3. /\ SubSeq(Image, m, n) \in Seq(Nat) /\ Len(SubSeq(Image, m, n)) = n - m + 1
        /\ \A i \in 1 .. n - m + 1 : SubSeq(Image, m, n)[i] = Image[m + i - 1]
    BY <1>5, <2>1, SubSeqFact
  <2>4. SubSeq(Image, m, n) = s
    BY DEF m, n
  <2> HIDE DEF s
  <2> QED BY <2>1, <2>2, <2>3, <2>4
<1> HIDE DEF s
<1>8. ASSUME NEW i \in 1 .. WORD PROVE s[i] = Goal[v + i]
  <2>1. v + i \in 1 .. N /\ (v < F => v + i <= F) /\ (~(v < F) => v + i > F)
    BY <1>2, <1>4, <1>6, Sizes
  <2>2. modEn = TRUE \/ modEn = FALSE
    BY <1>2, Zenon DEF TypeOK
  <2>3. (modEn = TRUE /\ v + i <= F) \/ (modEn = FALSE /\ v + i > F)
    <3>1. modEn <=> v < F
      BY <1>3, <1>4
    <3> QED BY <2>1, <2>2, <3>1
  <2>4. Image[v + i] = Goal[v + i]
    BY <1>5, <2>1, <2>3, Zenon
  <2> QED BY <1>7, <2>4
<1>9. NewData' = NewData /\ Goal' = Goal /\ pos' = pos /\ pos = MTRR_POS /\ FixedCells' = FixedCells
  <2>1. MTRR_POS \in Nat /\ Pos("mtrr") = MTRR_POS
    BY Sizes DEF MTRR_POS, Pos
  <2>2. pos = MTRR_POS
    BY <1>1, <1>3, <2>1 DEF pos
  <2> QED BY <1>1, <2>2, Frame DEF FixedCells
<1>10. TypeOK'
  <2>1. flash' \in [0 .. SIZE - 1 -> Int]
    <3>1. at \in Nat
      BY <1>2, Sizes DEF MTRR_POS
    <3> HIDE DEF at
    <3> QED BY <1>1, <1>2, <1>7, <3>1, WriteType
  <2>2. nvram_pos' \in 0 .. SIZE
    BY <1>1, <1>2, <1>4, <1>6, Sizes DEF SIZE
  <2>3. Types'
    BY <1>1, <1>2, <2>1, <2>2, TypeParts DEF Types, Saving
  <2>4. Flags'
    <3>1. (nvram_pos' < FixedCells) \in BOOLEAN
      OBVIOUS
    <3>2. fault' \in BOOLEAN
      BY <1>1, <1>2, WriteNotes
    <3> QED BY <1>1, <1>2, <3>1, <3>2, Zenon DEF Flags, TypeOK
  <2> QED BY <2>3, <2>4, TypeParts
<1>11. LoopOK'
  <2>1. N' = N
    BY <1>1 DEF N, MsrImage
  <2>2. modEn' <=> nvram_pos' < FixedCells'
    BY <1>1, <1>9
  <2>3. nvram_pos' <= Len(MsrImage(data))' /\ nvram_pos' % WORD = 0
    BY <1>1, <1>6, <2>1 DEF N
  <2>4. /\ done' % SECTOR = 0 /\ done' + SECTOR <= RegionSize(region')
    BY <1>1, <1>2 DEF LoopOK, Saving
  <2> QED BY <1>1, <1>3, <2>2, <2>3, <2>4 DEF LoopOK
<1>12. Progress'
  <2> SUFFICES ASSUME ~fault' PROVE Progress'
    BY DEF Progress
  <2>0. ~fault /\ Programs(at, s)
    BY <1>1, <1>2, WriteNotes
  <2>1. ProgramsNext(s, WORD, at)
    <3>1. Span = MTRR_SIZE
      BY <1>1 DEF Span
    <3>2. v + WORD <= Span /\ WORD \in Nat /\ at = pos + nvram_pos
      BY <1>2, <1>4, <1>6, <1>9, <3>1, Sizes
    <3>3. ASSUME NEW i \in 1 .. WORD PROVE s[i] = Goal[done + nvram_pos + i]
      <4>1. done + nvram_pos + i = v + i
        BY <1>2, <1>3, Sizes
      <4> QED BY <1>8, <4>1
    <3> QED BY <1>1, <1>7, <2>0, <3>2, <3>3 DEF ProgramsNext
  <2>2. /\ \A i \in 1 .. done + nvram_pos + WORD : flash'[Pos(region) + i - 1] = Goal[i]
        /\ \A c \in Cells(pos + nvram_pos + WORD, Span - (nvram_pos + WORD)) :
               flash'[c] = ERASED
        /\ \A c \in (0 .. SIZE - 1) \ Room(region) : flash'[c] = flash[c]
    BY <1>1, <2>0, <2>1, Programmed
  <2>3. /\ busy = {}
        /\ region # "nonvolatile" => InFlash(NONVOLATILE_POS, S3Image(data.nv))
        /\ region = "mtrr" /\ data.vol # <<>> => InFlash(VOLATILE_POS, S3Image(data.vol))
    BY <1>1, <2>0 DEF IInv, Progress, Saving
  <2>4. /\ region' # "nonvolatile" => InFlash(NONVOLATILE_POS, S3Image(data.nv))'
        /\ region' = "mtrr" /\ data'.vol # <<>> => InFlash(VOLATILE_POS, S3Image(data.vol))'
    BY <1>1, <1>2, <2>2, <2>3, SavedStays
  <2>5. Begun(Pos(region), Goal, done + nvram_pos)'
    <3>1. done' + nvram_pos' = done + nvram_pos + WORD
      BY <1>1, <1>2, <1>3, Sizes
    <3> QED BY <1>1, <1>9, <2>2, <3>1 DEF Begun
  <2>6. Blank(Cells(pos + nvram_pos, MTRR_SIZE - nvram_pos))'
    <3>1. pos' + nvram_pos' = pos + nvram_pos + WORD
          /\ MTRR_SIZE - nvram_pos' = Span - (nvram_pos + WORD)
      <4>1. pos \in Nat /\ Span = MTRR_SIZE
        BY <1>1, <1>9, Sizes DEF Span, MTRR_POS
      <4> QED BY <1>1, <1>2, <1>9, <4>1, Sizes
    <3> QED BY <2>2, <3>1 DEF Blank, Cells
  <2> QED BY <1>1, <2>3, <2>4, <2>5, <2>6 DEF Progress
<1>13. KeptOK' /\ RunningOK'
  BY <1>1, <1>2 DEF IInv, KeptOK, RunningOK
<1> QED BY <1>10, <1>11, <1>12, <1>13 DEF IInv

LEMMA SaveMtrrReturnsStep == ASSUME IInv, SaveMtrrReturns PROVE IInv'
<1>1. /\ pc = "write" /\ region = "mtrr" /\ nvram_pos = Len(Image)
      /\ amdS3Save("mtrr") /\ OsStarts(modEn, fault)
      /\ UNCHANGED <<flash, busy, msr, modEn, data, fault>>
  BY DEF SaveMtrrReturns, chip, cpu
<1>2. TypeOK /\ LoopOK /\ data \in Boots /\ data # Nothing
  BY RegionTypes, BootFact DEF IInv
<1>3. done' = 0 /\ nvram_pos' = 0 /\ pc' = "os" /\ region' = "mtrr"
  BY <1>1, LastRegion
<1> DEFINE N == Len(MsrImage(data))
           F == FixedOf(data)
<1>4. msr = data.msr /\ done = 0 /\ (modEn <=> nvram_pos < FixedCells)
  BY <1>1, <1>2 DEF LoopOK, Saving
<1>5. N \in Nat /\ F \in Nat /\ F < N /\ FixedCells = F /\ nvram_pos = N
  <2>1. FixedCells = F
    BY <1>4 DEF FixedCells, FixedOf
  <2>2. N \in 1 .. MTRR_SIZE /\ F \in 1 .. N - 1
    BY <1>2, BootFact
  <2>3. nvram_pos = N
    BY <1>1, <1>2, ImageInHand
  <2> HIDE DEF N, F
  <2> QED BY <2>1, <2>2, <2>3, Sizes
<1>6. modEn = FALSE
  <2>1. ~(nvram_pos < FixedCells)
    <3> HIDE DEF N, F
    <3> QED BY <1>5
  <2>2. modEn \in BOOLEAN
    BY <1>2, Zenon DEF TypeOK
  <2> QED BY <1>4, <2>1, <2>2
<1>7. TypeOK'
  <2>1. Types'
    BY <1>1, <1>2, <1>3, RoomFact, TypeParts DEF Types, Saving
  <2>2. Flags'
    BY <1>1, <1>2, Zenon DEF Flags, TypeOK
  <2> QED BY <2>1, <2>2, TypeParts
<1>8. LoopOK' /\ Progress'
  BY <1>3 DEF LoopOK, Progress, Saving
<1>9. ~fault => Complete(data)
  <2> SUFFICES ASSUME ~fault PROVE Complete(data)
    OBVIOUS
  <2>1. /\ busy = {} /\ InFlash(NONVOLATILE_POS, S3Image(data.nv))
        /\ data.vol # <<>> => InFlash(VOLATILE_POS, S3Image(data.vol))
        /\ Begun(Pos(region), Goal, done + nvram_pos)
    BY <1>1 DEF IInv, Progress, Saving
  <2>2. InFlash(MTRR_POS, MsrImage(data))
    <3>1. done + nvram_pos = N /\ Goal = MsrImage(data) /\ Pos(region) = MTRR_POS
      <4>1. done + nvram_pos = N
        <5> HIDE DEF N
        <5> QED BY <1>4, <1>5
      <4> QED BY <1>1, <1>2, <4>1, GoalFact DEF Pos
    <3> QED BY <2>1, <3>1 DEF InFlash
  <2> QED BY <2>1, <2>2 DEF Complete
<1>10. Complete(data) => Complete(data)'
  BY <1>1 DEF Complete, InFlash, Begun
<1>11. KeptOK'
  BY <1>1, <1>2, <1>3, <1>9, <1>10 DEF KeptOK, OsStarts
<1>12. RunningOK'
  BY <1>1, <1>3, <1>4, <1>6 DEF RunningOK, OsStarts
<1> QED BY <1>7, <1>8, <1>11, <1>12 DEF IInv

-----------------------------------------------------------------------------
(* Sleep and wake-up *)

LEMMA SleepStep == ASSUME IInv, Sleep PROVE IInv'
<1>1. /\ pc = "os" /\ pc' = "resume" /\ msr' = ResetMsr(data) /\ modEn' = FALSE
      /\ UNCHANGED <<flash, busy, data, region, done, nvram_pos, fault, kept, started>>
  BY DEF Sleep, chip, loop, history
<1>2. TypeOK'
  <2>1. Types'
    BY <1>1, TypeParts DEF IInv, Types, Saving
  <2>2. Flags'
    BY <1>1, Zenon DEF IInv, Flags, TypeOK
  <2> QED BY <2>1, <2>2, TypeParts
<1>3. LoopOK' /\ Progress'
  BY <1>1 DEF LoopOK, Progress, Saving
<1>4. KeptOK'
  BY <1>1 DEF IInv, KeptOK, Complete, InFlash, Begun
<1>5. RunningOK'
  <2>1. ResetMsr(data)' = ResetMsr(data)
    BY <1>1 DEF ResetMsr
  <2> QED BY <1>1, <2>1 DEF IInv, RunningOK
<1> QED BY <1>2, <1>3, <1>4, <1>5 DEF IInv

\* A block whose image is in the flash is read back.
LEMMA ReadBack ==
    ASSUME TypeOK, NEW r \in Regions, NEW d \in Seq(Nat), busy = {},
           Len(S3Image(d)) <= RegionSize(r), InFlash(Pos(r), S3Image(d))
    PROVE  S3Info(Pos(r)) = d
<1> DEFINE at == Pos(r)
           n == Len(d)
<1>1. /\ at \in Nat /\ n \in Nat /\ SIZE \in Nat /\ at + RegionSize(r) <= SIZE
      /\ RegionSize(r) \in Nat /\ WORD \in Nat \ {0} /\ WORD + n <= RegionSize(r)
      /\ Len(S3Image(d)) = WORD + n
  <2>1. at \in Nat /\ SIZE \in Nat /\ at + RegionSize(r) <= SIZE /\ RegionSize(r) \in Nat
    BY RoomFact
  <2>2. WORD \in Nat \ {0} /\ n \in Nat /\ Len(S3Image(d)) = WORD + n
    BY ImageFact, Sizes
  <2> QED BY <2>1, <2>2
<1>2. /\ S3Image(d)[1] = n
      /\ \A i \in 1 .. n : S3Image(d)[WORD + i] = d[i]
  BY ImageFact
<1>3. \A i \in 1 .. WORD + n : flash[at + i - 1] = S3Image(d)[i]
  BY <1>1 DEF InFlash, Begun
<1> HIDE DEF at, n
<1>4. flash[at] = n
  <2>1. 1 \in 1 .. WORD + n /\ at + 1 - 1 = at
    BY <1>1
  <2> QED BY <1>2, <1>3, <2>1
<1>5. n \in 0 .. SIZE - WORD - at
  BY <1>1
<1>6. S3Info(at) = [i \in 1 .. n |-> flash[at + WORD + i - 1]]
  BY <1>4, <1>5 DEF S3Info
<1>7. ASSUME NEW i \in 1 .. n PROVE flash[at + WORD + i - 1] = d[i]
  <2>1. WORD + i \in 1 .. WORD + n /\ at + (WORD + i) - 1 = at + WORD + i - 1
    BY <1>1
  <2> QED BY <1>2, <1>3, <2>1
<1>8. S3Info(at) = [i \in 1 .. n |-> d[i]]
  BY <1>6, <1>7
<1>9. d = [i \in 1 .. n |-> d[i]]
  BY DEF n
<1> QED BY <1>8, <1>9 DEF at

\* What is kept can be read.
LEMMA CompleteRead ==
    ASSUME TypeOK, NEW d \in Boots, Complete(d)
    PROVE  /\ S3Info(NONVOLATILE_POS) = d.nv
           /\ d.vol # <<>> => S3Info(VOLATILE_POS) = d.vol
           /\ Holds(MTRR_POS, MtrrImage(d.msr, TRUE, FALSE))
<1>1. /\ Pos("nonvolatile") = NONVOLATILE_POS /\ RegionSize("nonvolatile") = NONVOLATILE_SIZE
      /\ Pos("volatile") = VOLATILE_POS /\ RegionSize("volatile") = VOLATILE_SIZE
      /\ "nonvolatile" \in Regions /\ "volatile" \in Regions
  BY DEF Pos, RegionSize, Regions
<1>2. /\ d.nv \in Seq(Nat) /\ Len(S3Image(d.nv)) \in 1 .. NONVOLATILE_SIZE
      /\ d.vol \in Seq(Nat) /\ Len(S3Image(d.vol)) \in 1 .. VOLATILE_SIZE
  BY BootFact
<1>3. Len(S3Image(d.nv)) <= NONVOLATILE_SIZE /\ Len(S3Image(d.vol)) <= VOLATILE_SIZE
  BY <1>2, Sizes
<1>4. S3Info(NONVOLATILE_POS) = d.nv
  <2>1. busy = {} /\ InFlash(Pos("nonvolatile"), S3Image(d.nv))
    BY <1>1 DEF Complete
  <2>2. S3Info(Pos("nonvolatile")) = d.nv
    BY <1>1, <1>2, <1>3, <2>1, ReadBack
  <2> QED BY <1>1, <2>2
<1>5. ASSUME d.vol # <<>> PROVE S3Info(VOLATILE_POS) = d.vol
  <2>1. busy = {} /\ InFlash(Pos("volatile"), S3Image(d.vol))
    BY <1>1, <1>5 DEF Complete
  <2>2. S3Info(Pos("volatile")) = d.vol
    BY <1>1, <1>2, <1>3, <2>1, ReadBack
  <2> QED BY <1>1, <2>2
<1>6. Holds(MTRR_POS, MtrrImage(d.msr, TRUE, FALSE))
  BY DEF Complete, InFlash, Begun, Holds, MsrImage
<1> QED BY <1>4, <1>5, <1>6

LEMMA GetS3InfoStep == ASSUME IInv, OemAgesaGetS3Info PROVE IInv'
<1>1. /\ pc = "resume" /\ pc' = "restore"
      /\ got' = [nv |-> S3Info(NONVOLATILE_POS), vol |-> S3Info(VOLATILE_POS)]
      /\ UNCHANGED <<flash, busy, msr, modEn, data, region, done, nvram_pos, fault, kept, started>>
  BY DEF OemAgesaGetS3Info, chip, cpu, loop, history
<1>2. TypeOK'
  <2>1. Types'
    BY <1>1, TypeParts DEF IInv, Types, Saving
  <2>2. Flags'
    BY <1>1, Zenon DEF IInv, Flags, TypeOK
  <2> QED BY <2>1, <2>2, TypeParts
<1>3. LoopOK' /\ Progress'
  BY <1>1 DEF LoopOK, Progress, Saving
<1>4. KeptOK'
  BY <1>1 DEF IInv, KeptOK, Complete, InFlash, Begun
<1>5. RunningOK'
  <2>1. ~fault => kept = data /\ started = [msr |-> data.msr, modEn |-> FALSE]
    BY <1>1 DEF IInv, RunningOK
  <2>2. msr = ResetMsr(data) /\ ResetMsr(data)' = ResetMsr(data)
    BY <1>1 DEF IInv, RunningOK, ResetMsr
  <2>3. ~fault => got'.nv = data.nv /\ (data.vol # <<>> => got'.vol = data.vol)
    <3> SUFFICES ASSUME ~fault PROVE got'.nv = data.nv /\ (data.vol # <<>> => got'.vol = data.vol)
      OBVIOUS
    <3>1. Complete(data)
      BY <2>1 DEF IInv, KeptOK
    <3>2. S3Info(NONVOLATILE_POS) = data.nv /\ (data.vol # <<>> => S3Info(VOLATILE_POS) = data.vol)
      BY <3>1, RegionTypes, CompleteRead DEF IInv
    <3>3. got'.nv = S3Info(NONVOLATILE_POS) /\ got'.vol = S3Info(VOLATILE_POS)
      BY <1>1
    <3> QED BY <3>2, <3>3
  <2> QED BY <1>1, <2>1, <2>2, <2>3 DEF RunningOK
<1> QED BY <1>2, <1>3, <1>4, <1>5 DEF IInv

LEMMA ResetLengths ==
    ASSUME NEW b \in Boots
    PROVE  /\ Len(ResetMsr(b).fixed) = Len(b.msr.fixed)
           /\ Len(ResetMsr(b).var) = Len(b.msr.var)
<1>1. b.msr.fixed \in Seq(Msr) /\ b.msr.var \in Seq(Msr)
  BY BootFact DEF Mtrrs
<1>2. ASSUME NEW s \in Seq(Msr) PROVE Len([i \in DOMAIN s |-> [lo |-> 0, hi |-> 0]]) = Len(s)
  OBVIOUS
<1> QED BY <1>1, <1>2 DEF ResetMsr

\* The MTRRs as the flash holds them.
LEMMA SavedFact ==
    ASSUME TypeOK, InFlash(MTRR_POS, MsrImage(data)),
           NEW i \in 1 .. Len(data.msr.fixed) + Len(data.msr.var)
    PROVE  SavedMsr(i) = [lo |-> MtrrRead(data.msr, i, TRUE, FALSE).lo,
                          hi |-> MtrrRead(data.msr, i, TRUE, FALSE).hi]
<1> DEFINE k == 2 * WORD * (i - 1)
           L == Len(MsrImage(data))
           image == MsrImage(data)
<1>1. data \in Boots /\ data.msr \in Mtrrs
  BY RegionTypes, BootFact
<1>2. /\ k \in Nat /\ k + WORD + 1 <= L
      /\ image[k + 1] = MtrrRead(data.msr, i, TRUE, FALSE).lo
      /\ image[k + WORD + 1] = MtrrRead(data.msr, i, TRUE, FALSE).hi
  BY <1>1, HalvesPlaced DEF MsrImage
<1>3. L \in Nat /\ WORD \in Nat \ {0} /\ MTRR_POS \in Nat
  <2>1. L \in 1 .. MTRR_SIZE
    BY <1>1, BootFact
  <2> HIDE DEF L
  <2> QED BY <2>1, Sizes DEF MTRR_POS
<1>4. \A j \in 1 .. L : flash[MTRR_POS + j - 1] = image[j]
  BY DEF InFlash, Begun
<1>5. SavedMsr(i) = [lo |-> flash[MTRR_POS + k], hi |-> flash[MTRR_POS + k + WORD]]
  BY DEF SavedMsr
<1> HIDE DEF k, L, image
<1>6. /\ k + 1 \in 1 .. L /\ MTRR_POS + (k + 1) - 1 = MTRR_POS + k
      /\ k + WORD + 1 \in 1 .. L /\ MTRR_POS + (k + WORD + 1) - 1 = MTRR_POS + k + WORD
  BY <1>2, <1>3
<1>7. flash[MTRR_POS + k] = image[k + 1] /\ flash[MTRR_POS + k + WORD] = image[k + WORD + 1]
  BY <1>4, <1>6
<1> QED BY <1>2, <1>5, <1>7

\* Two tables that hold the same MTRRs are the same.
LEMMA SameTable ==
    ASSUME NEW s \in Seq(Msr), NEW n \in Nat, n = Len(s), NEW t,
           t = [i \in 1 .. n |-> t[i]], \A i \in 1 .. n : t[i] = s[i]
    PROVE  t = s
OBVIOUS

LEMMA RestoreStep == ASSUME IInv, restore_mtrr PROVE IInv'
<1> DEFINE f == Len(msr.fixed)
           v == Len(msr.var)
           last == SavedMsr(f + v)
           fixed == [i \in 1..f |-> SavedMsr(i)]
           var == [i \in 1..v |-> IF i = v THEN [last EXCEPT !.lo = @ \div 2]
                                           ELSE SavedMsr(f + i)]
<1>1. /\ pc = "restore" /\ pc' = "os" /\ msr' = [fixed |-> fixed, var |-> var]
      /\ modEn' = (last.lo % 2 = 1)
      /\ UNCHANGED <<flash, busy, data, region, done, nvram_pos, fault, kept, started>>
  BY DEF restore_mtrr, chip, loop, history
<1>2. TypeOK /\ data \in Boots /\ data.msr \in Mtrrs
  BY RegionTypes, BootFact DEF IInv
<1>3. TypeOK'
  <2>1. Types'
    BY <1>1, <1>2, TypeParts DEF Types, Saving
  <2>2. Flags'
    <3>1. (last.lo % 2 = 1) \in BOOLEAN
      OBVIOUS
    <3> QED BY <1>1, <1>2, <3>1, Zenon DEF Flags, TypeOK
  <2> QED BY <2>1, <2>2, TypeParts
<1>4. LoopOK' /\ Progress'
  BY <1>1 DEF LoopOK, Progress, Saving
<1>5. KeptOK'
  BY <1>1 DEF IInv, KeptOK, Complete, InFlash, Begun
<1>6. ~fault => kept = data /\ started = [msr |-> data.msr, modEn |-> FALSE]
  BY <1>1 DEF IInv, RunningOK
<1>7. ~fault => msr' = data.msr /\ modEn' = FALSE
  <2> SUFFICES ASSUME ~fault PROVE msr' = data.msr /\ modEn' = FALSE
    OBVIOUS
  <2>1. InFlash(MTRR_POS, MsrImage(data))
    BY <1>6 DEF IInv, KeptOK, Complete
  <2> DEFINE F == data.msr.fixed
             V == data.msr.var
  <2>2. f = Len(F) /\ v = Len(V)
    <3>1. msr = ResetMsr(data)
      BY <1>1 DEF IInv, RunningOK
    <3> QED BY <1>2, <3>1, ResetLengths
  <2>3. F \in Seq(Msr) /\ V \in Seq(Msr) /\ data.msr = [fixed |-> F, var |-> V]
    BY <1>2 DEF Mtrrs
  <2>4. f \in Nat /\ v \in Nat /\ v # 0
    <3>1. Len(F) \in Nat /\ Len(V) \in Nat
      BY <1>2, TableLengths
    <3>2. V # <<>>
      BY <1>2, BootAssumption
    <3>3. Len(V) # 0
      BY <2>3, <3>2
    <3> QED BY <2>2, <3>1, <3>3
  <2> HIDE DEF f, v
  <2>5. ASSUME NEW i \in 1 .. f + v
        PROVE  SavedMsr(i) = [lo |-> MtrrRead(data.msr, i, TRUE, FALSE).lo,
                              hi |-> MtrrRead(data.msr, i, TRUE, FALSE).hi]
    <3>1. i \in 1 .. Len(data.msr.fixed) + Len(data.msr.var)
      BY <2>2
    <3> QED BY <1>2, <2>1, <3>1, SavedFact
  <2>6. ASSUME NEW x \in Msr
        PROVE  x.lo \in Nat /\ x.hi \in Nat /\ x = [lo |-> x.lo, hi |-> x.hi]
    BY DEF Msr
  <2>7. ASSUME NEW i \in 1 .. f PROVE SavedMsr(i) = F[i]
    <3>1. MtrrRead(data.msr, i, TRUE, FALSE) = F[i]
      <4>1. i <= Len(data.msr.fixed)
        BY <2>2, <2>4
      <4>2. MtrrRead(data.msr, i, TRUE, FALSE) = rdmsr(F[i], TRUE)
        BY <4>1, Zenon DEF MtrrRead
      <4> QED BY <4>2, Zenon DEF rdmsr
    <3>2. F[i] \in Msr
      BY <2>2, <2>3
    <3>3. i \in 1 .. f + v
      BY <2>4
    <3> HIDE DEF F
    <3>4. SavedMsr(i) = [lo |-> F[i].lo, hi |-> F[i].hi]
      BY <2>5, <3>1, <3>3
    <3> QED BY <2>6, <3>2, <3>4
  <2>8. ASSUME NEW i \in 1 .. v, i # v PROVE SavedMsr(f + i) = V[i]
    <3>1. f + i \in 1 .. f + v /\ ~(f + i <= f) /\ f + i # f + v /\ (f + i) - f = i
      BY <2>4, <2>8
    <3>2. MtrrRead(data.msr, f + i, TRUE, FALSE) = V[i]
      BY <2>2, <3>1 DEF MtrrRead
    <3>3. V[i] \in Msr
      BY <2>2, <2>3
    <3> HIDE DEF V
    <3>4. SavedMsr(f + i) = [lo |-> V[i].lo, hi |-> V[i].hi]
      BY <2>5, <3>1, <3>2
    <3> QED BY <2>6, <3>3, <3>4
  <2>9. last = [lo |-> 2 * V[v].lo, hi |-> V[v].hi] /\ V[v].lo \in Nat /\ V[v] \in Msr
    <3>1. f + v \in 1 .. f + v /\ ~(f + v <= f) /\ (f + v) - f = v /\ v \in 1 .. v
      BY <2>4
    <3>2. MtrrRead(data.msr, f + v, TRUE, FALSE) = SysCfg(V[v], FALSE)
      BY <2>2, <3>1 DEF MtrrRead
    <3>3. V[v] \in Msr
      BY <2>2, <2>3, <3>1
    <3> DEFINE x == V[v]
    <3>4. x.lo \in Nat /\ x.hi \in Nat /\ x = [lo |-> x.lo, hi |-> x.hi]
      BY <2>6, <3>3
    <3> HIDE DEF x
    <3>5. SysCfg(x, FALSE) = [lo |-> 2 * x.lo, hi |-> x.hi]
      BY <3>4 DEF SysCfg
    <3>6. last = [lo |-> SysCfg(x, FALSE).lo, hi |-> SysCfg(x, FALSE).hi]
      BY <2>5, <3>1, <3>2 DEF x
    <3>7. last = [lo |-> 2 * x.lo, hi |-> x.hi]
      <4> HIDE DEF last
      <4> QED BY <3>5, <3>6
    <3> QED BY <3>3, <3>4, <3>7 DEF x
  <2> HIDE DEF last
  <2>10. ASSUME NEW a \in Nat PROVE (2 * a) \div 2 = a /\ (2 * a) % 2 = 0
    OBVIOUS
  <2>11. last.lo % 2 = 0 /\ [last EXCEPT !.lo = @ \div 2] = V[v]
    <3> DEFINE x == V[v]
    <3>1. last = [lo |-> 2 * x.lo, hi |-> x.hi] /\ x.lo \in Nat /\ x = [lo |-> x.lo, hi |-> x.hi]
      BY <2>6, <2>9
    <3> HIDE DEF x
    <3>2. last.lo = 2 * x.lo /\ [last EXCEPT !.lo = @ \div 2] = [lo |-> (2 * x.lo) \div 2, hi |-> x.hi]
      BY <3>1
    <3>3. last.lo % 2 = 0 /\ [last EXCEPT !.lo = @ \div 2] = x
      BY <2>10, <3>1, <3>2
    <3> QED BY <3>3 DEF x
  <2>12. modEn' = FALSE
    <3>1. ~(last.lo % 2 = 1)
      BY <2>11
    <3>2. (last.lo % 2 = 1) = FALSE
      BY <3>1
    <3> QED BY <1>1, <3>2
  <2>13. fixed = F
    <3>1. fixed = [i \in 1 .. f |-> fixed[i]] /\ \A i \in 1 .. f : fixed[i] = F[i]
      BY <2>7
    <3> HIDE DEF fixed, F
    <3> QED BY <2>2, <2>3, <2>4, <3>1, SameTable
  <2>14. var = V
    <3>1. var = [i \in 1 .. v |-> var[i]] /\ \A i \in 1 .. v : var[i] = V[i]
      BY <2>8, <2>11
    <3> HIDE DEF var, V
    <3> QED BY <2>2, <2>3, <2>4, <3>1, SameTable
  <2> QED BY <1>1, <2>3, <2>12, <2>13, <2>14
<1>8. RunningOK'
  BY <1>1, <1>6, <1>7 DEF RunningOK
<1> QED BY <1>3, <1>4, <1>5, <1>8 DEF IInv

-----------------------------------------------------------------------------
(* The theorems *)

LEMMA StutterStep == ASSUME IInv, UNCHANGED vars PROVE IInv'
<1>1. UNCHANGED <<flash, busy, msr, modEn, data, pc, region, done, nvram_pos,
                  fault, kept, started, got>>
  BY DEF vars, chip, cpu, loop, history
<1>2. TypeOK'
  BY <1>1, Zenon DEF IInv, TypeOK
<1>3. NewData' = NewData /\ Goal' = Goal /\ pos' = pos /\ Whole' = Whole
  BY <1>1, Frame
<1>4. FixedCells' = FixedCells /\ MsrImage(data)' = MsrImage(data) /\ ResetMsr(data)' = ResetMsr(data)
  BY <1>1 DEF FixedCells, MsrImage, ResetMsr
<1>5. LoopOK'
  BY <1>1, <1>3, <1>4 DEF IInv, LoopOK
<1>6. Progress'
  BY <1>1, <1>3, <1>4 DEF IInv, Progress, InFlash, Begun, Blank
<1>7. KeptOK' /\ RunningOK'
  BY <1>1, <1>4 DEF IInv, KeptOK, RunningOK, Complete, InFlash, Begun
<1> QED BY <1>2, <1>5, <1>6, <1>7 DEF IInv

\* The numbers of the loops, the progress of a save, what is kept and what the
\* running system was started with are as IInv says, in every state of every
\* sequence of boots, sleeps, time-outs, failed writes and power failures.
THEOREM Invariance == Spec => []IInv
<1>1. Init => IInv
  BY InitIInv
<1>2. IInv /\ [Next]_vars => IInv'
  BY ColdBootStep, CheckStep, ProbeStep, NoChipStep, CompareStep, SaveS3InfoReturnsStep,
     EraseStartsStep, EraseEndsStep, EraseTimesOutStep, WriteChunkStep, WriteTailStep,
     WriteMtrrStep, SaveMtrrReturnsStep, SleepStep, GetS3InfoStep, RestoreStep,
     PowerOffStep, ChipReadyStep, StutterStep
  DEF Next
<1> QED BY <1>1, <1>2, PTL DEF Spec

\* What a boot has saved without an error is in the flash, complete, whenever no
\* boot is saving: a power failure at any command, an erase that outlasts its
\* time-out, or a write that fails, is never mistaken for a complete save.
THEOREM FlashIsSound == Spec => []FlashSound
<1>1. IInv => FlashSound
  <2> SUFFICES ASSUME IInv PROVE FlashSound
    OBVIOUS
  <2>1. TypeOK /\ kept \in {Nothing, data} /\ data \in Boots /\ (kept = data => Complete(data))
    BY RegionTypes DEF IInv, KeptOK
  <2>2. ASSUME kept # Nothing
        PROVE  /\ S3Info(NONVOLATILE_POS) = kept.nv
               /\ kept.vol # <<>> => S3Info(VOLATILE_POS) = kept.vol
               /\ Holds(MTRR_POS, MtrrImage(kept.msr, TRUE, FALSE))
    <3>1. kept = data /\ Complete(kept) /\ kept \in Boots
      BY <2>1, <2>2
    <3> QED BY <2>1, <3>1, CompleteRead
  <2> QED BY <2>1, <2>2 DEF FlashSound, KeptIsThere
<1> QED BY <1>1, Invariance, PTL

\* A wake-up hands AGESA the blocks of the boot that started the system, of
\* whatever length, across any number of sectors.
THEOREM WakeUpGetsItsData == Spec => []DataBack
<1>1. IInv => DataBack
  BY DEF IInv, RunningOK, DataBack
<1> QED BY <1>1, Invariance, PTL

\* A wake-up leaves the MTRRs as the system was started with: the extension
\* bits of every fixed one survive the save and the restore, and SYS_CFG hides
\* them again.
THEOREM WakeUpRestoresMtrrs == Spec => []MtrrsBack
<1>1. IInv => MtrrsBack
  <2> SUFFICES ASSUME IInv, pc = "os", ~fault
               PROVE  msr = started.msr /\ modEn = started.modEn
    BY DEF MtrrsBack
  <2>1. started = [msr |-> data.msr, modEn |-> FALSE] /\ msr = data.msr /\ modEn = FALSE
    BY DEF IInv, RunningOK
  <2>2. started.msr = data.msr /\ started.modEn = FALSE
    BY <2>1, Zenon
  <2> QED BY <2>1, <2>2
<1> QED BY <1>1, Invariance, PTL

\* A boot that has to save what the flash already holds erases and programs
\* nothing: of all the steps only the ones of an erase and of a write change
\* the flash, and no such boot gets to them.
THEOREM SameDataIsNotWritten == Spec => SameDataNoWear
<1>1. IInv /\ [Next]_vars => [(pc \in Saving /\ kept = data) => flash' = flash]_vars
  <2> SUFFICES ASSUME IInv, Next, pc \in Saving, kept = data PROVE flash' = flash
    OBVIOUS
  <2>1. pc \notin {"erase", "erasing", "write"} /\ busy = {}
    BY DEF IInv, KeptOK, Complete
  <2>2. CASE ColdBoot \/ check_saved_mtrr_data \/ spi_flash_probe
    BY <2>2 DEF ColdBoot, check_saved_mtrr_data, spi_flash_probe, chip
  <2>3. CASE spi_flash_probe_fails \/ Compare \/ SaveS3InfoReturns
    BY <2>3 DEF spi_flash_probe_fails, Compare, SaveS3InfoReturns, chip
  <2>4. CASE EraseStarts \/ EraseEnds \/ EraseTimesOut \/ WriteChunk
    BY <2>1, <2>4 DEF EraseStarts, EraseEnds, EraseTimesOut, WriteChunk
  <2>5. CASE WriteTail \/ write_mtrr \/ SaveMtrrReturns \/ ChipReady
    BY <2>1, <2>5 DEF WriteTail, write_mtrr, SaveMtrrReturns, ChipReady
  <2>6. CASE Sleep \/ OemAgesaGetS3Info \/ restore_mtrr \/ PowerOff
    BY <2>6 DEF Sleep, OemAgesaGetS3Info, restore_mtrr, PowerOff, chip
  <2> QED BY <2>2, <2>3, <2>4, <2>5, <2>6 DEF Next
<1> QED BY <1>1, Invariance, PTL DEF Spec, SameDataNoWear
=============================================================================
