---------------------------- MODULE CbmemProofs ----------------------------
(***************************************************************************)
(* Proofs about Cbmem, for every size of table, region and section.        *)
(***************************************************************************)
EXTENDS Cbmem, WellFoundedInduction, TLAPS

\* A set of naturals has a least element.
LEMMA LeastNat ==
    ASSUME NEW T, T \subseteq Nat, T # {}
    PROVE  \E x \in T : \A y \in T : x <= y
<1>1. PICK x \in T : \A y \in T : <<y, x>> \notin OpToRel(<, Nat)
  BY WFMin, NatLessThanWellFounded
<1>2. \A y \in T : ~(y < x)
  <2> SUFFICES ASSUME NEW y \in T, y < x PROVE FALSE
    OBVIOUS
  <2>1. <<y, x>> \in Nat \X Nat /\ <<y, x>>[1] < <<y, x>>[2]
    OBVIOUS
  <2>2. <<y, x>> \in OpToRel(<, Nat)
    BY <2>1, Zenon DEF OpToRel
  <2> QED BY <1>1, <2>2
<1> QED BY <1>2

\* The loops over the table stop at the first entry with the id.
LEMMA FirstFact ==
    ASSUME NEW t, NEW id, Has(t, id)
    PROVE  /\ First(t, id) \in Slots
           /\ t[First(t, id)].id = id
           /\ \A k \in Slots : t[k].id = id => First(t, id) <= k
<1> DEFINE T == {i \in Slots : t[i].id = id}
<1>1. T \subseteq Nat /\ T # {}
  BY EntriesAssumption DEF Has, Slots
<1>2. PICK i \in T : \A k \in T : i <= k
  BY <1>1, LeastNat
<1>3. \E j \in Slots : t[j].id = id /\ \A k \in Slots : t[k].id = id => j <= k
  BY <1>2
<1> QED BY <1>3 DEF First
-----------------------------------------------------------------------------
\* The inductive invariant, of a table t.  A table without the magic is one
\* that DRAM has lost; with it, entry 0 is the free space, the sections
\* follow it without a gap in the table, in the order of their addresses.
FreeSpace(t) ==
    /\ t[0].id = CBMEM_ID_FREESPACE
    /\ Start <= t[0].base
    /\ t[0].base + t[0].size = End
Placed(t) ==
    \A i \in Slots \ {0} :
        t[i].id # CBMEM_ID_NONE =>
            Start <= t[i].base /\ t[i].base + t[i].size <= t[0].base
Ordered(t) ==
    \A i, k \in Slots \ {0} :
        i < k /\ t[i].id # CBMEM_ID_NONE /\ t[k].id # CBMEM_ID_NONE =>
            t[i].base + t[i].size <= t[k].base
Unique(t) ==
    \A i, k \in Slots :
        t[i].id = t[k].id /\ t[i].id # CBMEM_ID_NONE => i = k
Dense(t) ==
    \A i, k \in Slots :
        i < k /\ t[k].id # CBMEM_ID_NONE => t[i].id # CBMEM_ID_NONE
TableOK(t) ==
    /\ t \in [Slots -> Entry]
    /\ (t[0].magic /\ FreeSpace(t)) \/ t = NoToc
    /\ Placed(t) /\ Ordered(t) /\ Unique(t) /\ Dense(t)

LEMMA SlotsFact == 0 \in Slots /\ Slots \subseteq Nat
BY EntriesAssumption DEF Slots

LEMMA IdsFact ==
    /\ CBMEM_ID_NONE \notin Ids /\ CBMEM_ID_FREESPACE \notin Ids
    /\ CBMEM_ID_NONE # CBMEM_ID_FREESPACE
BY IdsAssumption DEF CBMEM_ID_NONE, CBMEM_ID_FREESPACE

LEMMA NoTocOK == TableOK(NoToc)
<1>1. NoEntry \in Entry
  BY DEF NoEntry, Entry
<1>2. \A i \in Slots : NoToc[i].id = CBMEM_ID_NONE
  BY DEF NoToc, NoEntry
<1>3. NoToc \in [Slots -> Entry]
  BY <1>1 DEF NoToc
<1> QED
  BY <1>2, <1>3, SlotsFact DEF TableOK, Placed, Ordered, Unique, Dense

LEMMA EmptyTocOK == TableOK(EmptyToc) /\ EmptyToc[0].magic
<1>1. /\ EmptyToc[0] = [magic |-> TRUE, id |-> CBMEM_ID_FREESPACE,
                        base |-> Start, size |-> End - Start]
      /\ \A i \in Slots \ {0} : EmptyToc[i] = NoEntry
  BY SlotsFact DEF EmptyToc
<1>2. EmptyToc \in [Slots -> Entry]
  BY RegionAssumption DEF EmptyToc, NoEntry, Entry
<1>3. \A i \in Slots \ {0} : EmptyToc[i].id = CBMEM_ID_NONE
  BY <1>1 DEF NoEntry
<1>4. FreeSpace(EmptyToc)
  BY <1>1, RegionAssumption DEF FreeSpace
<1> QED
  BY <1>1, <1>2, <1>3, <1>4, SlotsFact
     DEF TableOK, Placed, Ordered, Unique, Dense

\* What cbmem_add changes when it makes a section.
Added(t, id, size, f, n, u) ==
    /\ f \in Slots \ {0} /\ t[f].id = CBMEM_ID_NONE
    /\ \A k \in Slots : k < f <=> t[k].id # CBMEM_ID_NONE
    /\ n \in Nat /\ size <= n /\ n <= t[0].size
    /\ u \in [Slots -> Entry]
    /\ u[f] = [magic |-> TRUE, id |-> id, base |-> t[0].base, size |-> n]
    /\ u[0] = [magic |-> t[0].magic, id |-> t[0].id,
               base |-> t[0].base + n, size |-> t[0].size - n]
    /\ \A i \in Slots \ {0, f} : u[i] = t[i]
    /\ FreeSpace(t) /\ t[0].magic

LEMMA AddFact ==
    ASSUME NEW t, TableOK(t), NEW id \in Ids, NEW size \in Nat,
           CanAdd(t, id, size)
    PROVE  Added(t, id, size, First(t, CBMEM_ID_NONE), SectionSize(t, size),
                 AddTo(t, id, size))
<1> DEFINE f == First(t, CBMEM_ID_NONE)
           n == SectionSize(t, size)
           u == AddTo(t, id, size)
<1>1. t \in [Slots -> Entry] /\ t[0] \in Entry /\ t[0].size \in Nat /\ t[0].base \in Nat
  BY SlotsFact DEF TableOK, Entry
<1>2. Has(t, CBMEM_ID_NONE) /\ t[0].magic /\ size <= t[0].size
  BY DEF CanAdd
<1>3. FreeSpace(t)
  BY <1>2, SlotsFact DEF TableOK, NoToc, NoEntry
<1>4. /\ f \in Slots /\ t[f].id = CBMEM_ID_NONE
      /\ \A k \in Slots : t[k].id = CBMEM_ID_NONE => f <= k
  BY <1>2, FirstFact
<1>5. f # 0
  BY <1>3, <1>4, IdsFact DEF FreeSpace
<1>6. \A k \in Slots : k < f <=> t[k].id # CBMEM_ID_NONE
  <2> SUFFICES ASSUME NEW k \in Slots PROVE k < f <=> t[k].id # CBMEM_ID_NONE
    OBVIOUS
  <2>1. k \in Nat /\ f \in Nat
    BY <1>4, SlotsFact
  <2>2. f < k => t[k].id = CBMEM_ID_NONE
    BY <1>4 DEF TableOK, Dense
  <2> QED BY <1>4, <2>1, <2>2
<1>7. ALIGN(size) \in Nat /\ size <= ALIGN(size)
  <2> DEFINE q == (size + BLOCK - 1) \div BLOCK
             r == (size + BLOCK - 1) % BLOCK
  <2>1. q \in Int /\ r \in 0 .. BLOCK - 1 /\ size + BLOCK - 1 = BLOCK * q + r
    BY BlockAssumption
  <2>2. q >= 0
    BY BlockAssumption
  <2> HIDE DEF q, r
  <2>3. size <= q * BLOCK /\ q * BLOCK \in Nat
    BY <2>1, <2>2, BlockAssumption
  <2> QED BY <2>3 DEF ALIGN, q
<1>8. n \in Nat /\ size <= n /\ n <= t[0].size
  BY <1>1, <1>2, <1>7 DEF SectionSize
<1>9. u = [t EXCEPT ![f] = [magic |-> TRUE, id |-> id, base |-> t[0].base, size |-> n],
                    ![0].base = @ + n, ![0].size = @ - n]
  BY DEF AddTo
<1> HIDE DEF f, n, u
<1>10. u[f] = [magic |-> TRUE, id |-> id, base |-> t[0].base, size |-> n]
  BY <1>1, <1>4, <1>5, <1>9, SlotsFact
<1>11. u[0] = [t[0] EXCEPT !.base = @ + n, !.size = @ - n]
  BY <1>1, <1>4, <1>5, <1>9, SlotsFact
<1>12. u[0] = [magic |-> t[0].magic, id |-> t[0].id,
               base |-> t[0].base + n, size |-> t[0].size - n]
  BY <1>1, <1>11 DEF Entry
<1>13. \A i \in Slots \ {0, f} : u[i] = t[i]
  BY <1>1, <1>9
<1>14. u[f] \in Entry /\ u[0] \in Entry
  BY <1>1, <1>8, <1>10, <1>12 DEF Entry
<1>15. DOMAIN u = Slots /\ \A i \in Slots : u[i] \in Entry
  BY <1>1, <1>9, <1>13, <1>14
<1>16. u \in [Slots -> Entry]
  BY <1>1, <1>9, <1>15
<1> QED
  BY <1>2, <1>3, <1>4, <1>5, <1>6, <1>8, <1>10, <1>12, <1>13, <1>16
     DEF Added, f, n, u

LEMMA AddOK ==
    ASSUME NEW t, TableOK(t), NEW id \in Ids, NEW size \in Nat
    PROVE  TableOK(AddTo(t, id, size))
<1>1. CASE ~CanAdd(t, id, size)
  BY <1>1 DEF AddTo
<1>2. CASE CanAdd(t, id, size)
  <2> DEFINE f == First(t, CBMEM_ID_NONE)
             n == SectionSize(t, size)
             u == AddTo(t, id, size)
  <2>1. Added(t, id, size, f, n, u)
    BY <1>2, AddFact
  <2> HIDE DEF f, n, u
  <2>3. /\ u[f].id = id /\ u[f].base = t[0].base /\ u[f].size = n
        /\ u[0].magic /\ u[0].id = CBMEM_ID_FREESPACE
        /\ u[0].base = t[0].base + n /\ u[0].size = t[0].size - n
    BY <2>1 DEF Added, FreeSpace
  <2>4. \A i \in Slots : t[i].base \in Nat /\ t[i].size \in Nat /\ i \in Nat
    BY SlotsFact DEF TableOK, Entry
  <2>5. /\ id # CBMEM_ID_NONE /\ id # CBMEM_ID_FREESPACE
        /\ \A i \in Slots : t[i].id # id
    BY <1>2, IdsFact DEF CanAdd, Has
  <2>6. Start \in Nat /\ End \in Nat
    BY RegionAssumption
  <2>7. Placed(t) /\ Ordered(t) /\ Unique(t)
    BY DEF TableOK
  <2>8. FreeSpace(u)
    BY <2>1, <2>3, <2>4, <2>6, SlotsFact DEF Added, FreeSpace
  <2>9. Placed(u)
    <3> SUFFICES ASSUME NEW i \in Slots \ {0}, u[i].id # CBMEM_ID_NONE
                 PROVE  Start <= u[i].base /\ u[i].base + u[i].size <= u[0].base
      BY DEF Placed
    <3>1. CASE i = f
      BY <3>1, <2>1, <2>3, <2>4, <2>6, SlotsFact DEF Added, FreeSpace
    <3>2. CASE i # f
      <4>1. u[i] = t[i]
        BY <3>2, <2>1 DEF Added
      <4>2. Start <= t[i].base /\ t[i].base + t[i].size <= t[0].base
        BY <4>1, <2>7 DEF Placed
      <4> QED BY <4>1, <4>2, <2>1, <2>3, <2>4, SlotsFact DEF Added
    <3> QED BY <3>1, <3>2
  <2>10. Ordered(u)
    <3> SUFFICES ASSUME NEW i \in Slots \ {0}, NEW k \in Slots \ {0}, i < k,
                        u[i].id # CBMEM_ID_NONE, u[k].id # CBMEM_ID_NONE
                 PROVE  u[i].base + u[i].size <= u[k].base
      BY DEF Ordered
    <3>1. CASE i = f
      BY <3>1, <2>1, <2>4 DEF Added
    <3>2. CASE k = f
      <4>1. u[i] = t[i]
        BY <3>2, <2>1, <2>4 DEF Added
      <4>2. t[i].base + t[i].size <= t[0].base
        BY <4>1, <2>7 DEF Placed
      <4> QED BY <4>1, <4>2, <3>2, <2>3
    <3>3. CASE i # f /\ k # f
      <4>1. u[i] = t[i] /\ u[k] = t[k]
        BY <3>3, <2>1 DEF Added
      <4> QED BY <4>1, <2>7 DEF Ordered
    <3> QED BY <3>1, <3>2, <3>3
  <2>11. \A i \in Slots : u[i].id = IF i = f THEN id ELSE t[i].id
    BY <2>1, <2>3, SlotsFact, ZenonT(30) DEF Added, FreeSpace
  <2>12. Unique(u)
    BY <2>5, <2>7, <2>11 DEF Unique
  <2>13. Dense(u)
    <3> SUFFICES ASSUME NEW i \in Slots, NEW k \in Slots, i < k,
                        u[k].id # CBMEM_ID_NONE
                 PROVE  u[i].id # CBMEM_ID_NONE
      BY DEF Dense
    <3>1. i <= f /\ k <= f
      BY <2>1, <2>4, <2>11 DEF Added
    <3> QED BY <3>1, <2>1, <2>4, <2>5, <2>11 DEF Added
  <2> QED
    BY <2>1, <2>3, <2>8, <2>9, <2>10, <2>12, <2>13 DEF Added, TableOK, u
<1> QED BY <1>1, <1>2

-----------------------------------------------------------------------------
Inv == TableOK(toc)

LEMMA Inductive == Inv /\ [Next]_vars => Inv'
<1> SUFFICES ASSUME Inv, [Next]_vars PROVE Inv'
  OBVIOUS
<1>1. ASSUME NEW w \in BOOLEAN, cbmem_recovery(w) PROVE Inv'
  <2>1. TableOK(Recovered(toc, w))
    BY EmptyTocOK DEF Inv, Recovered
  <2>2. GDT \in Ids /\ GdtSize \in Nat
    BY IdsAssumption, BlockAssumption DEF GdtSize
  <2> QED BY <1>1, <2>1, <2>2, AddOK DEF Inv, cbmem_recovery
<1>2. CASE cbmem_recovery_romstage
  <2>1. TableOK(Recovered(toc, TRUE))
    BY EmptyTocOK DEF Inv, Recovered
  <2>2. CAR_GLOBALS \in Ids /\ CarSize \in Nat
    BY IdsAssumption DEF CarSize
  <2> QED BY <1>2, <2>1, <2>2, AddOK DEF Inv, cbmem_recovery_romstage
<1>3. CASE DramLost
  BY <1>3, NoTocOK DEF Inv, DramLost
<1>4. ASSUME NEW id \in Ids, NEW size \in Sizes, cbmem_add(id, size)
      PROVE  Inv'
  BY <1>4, AddOK, SizesAssumption DEF Inv, cbmem_add
<1>5. CASE UNCHANGED vars
  BY <1>5 DEF vars, Inv
<1> QED BY <1>1, <1>2, <1>3, <1>4, <1>5 DEF Next

\* The table is well formed in every reachable state.
LEMMA Invariance == Spec => []Inv
<1>1. Init => Inv
  BY NoTocOK DEF Init, Inv
<1> QED BY <1>1, Inductive, PTL DEF Spec

\* The entries of the table have their types; in particular no size of
\* cbmem_add makes the free space negative.
THEOREM TypeCorrect == Spec => []TypeOK
<1>1. Inv => TypeOK
  BY DEF Inv, TableOK, TypeOK
<1> QED BY <1>1, Invariance, PTL

\* cbmem_add hands out each byte of the region at most once, for regions and
\* tables of every size and all sequences of requests, boots and wake-ups.
THEOREM SectionsDisjoint == Spec => []Disjoint
<1>1. Inv => Disjoint
  <2> SUFFICES ASSUME Inv, toc[0].magic
               PROVE  /\ FreeSpace(toc) /\ Placed(toc) /\ Ordered(toc)
    BY DEF Disjoint, Sections, FreeSpace, Placed, Ordered
  <2>1. ~NoToc[0].magic
    BY SlotsFact DEF NoToc, NoEntry
  <2> QED BY <2>1 DEF Inv, TableOK
<1> QED BY <1>1, Invariance, PTL

\* An id names at most one section, and the used entries are a prefix.
THEOREM IdsUnique == Spec => []OneSectionPerId
<1>1. Inv => OneSectionPerId
  BY DEF Inv, TableOK, OneSectionPerId, Unique, Dense
<1> QED BY <1>1, Invariance, PTL

\* A new section has at least the size it was asked for.
THEOREM AddsFit == Spec => AddFits
<1>1. Inv /\ [Next]_vars =>
        [\A id \in Ids, size \in Sizes :
           ~Has(toc, id) /\ cbmem_add(id, size) /\ Has(toc', id) =>
               toc'[First(toc', id)].size >= size]_vars
  <2> SUFFICES ASSUME Inv, NEW id \in Ids, NEW size \in Sizes,
                      ~Has(toc, id), cbmem_add(id, size), Has(toc', id)
               PROVE  toc'[First(toc', id)].size >= size
    OBVIOUS
  <2>1. CanAdd(toc, id, size) /\ toc' = AddTo(toc, id, size)
    BY DEF cbmem_add, AddTo
  <2>2. size \in Nat
    BY SizesAssumption
  <2> DEFINE f == First(toc, CBMEM_ID_NONE)
             n == SectionSize(toc, size)
  <2>3. Added(toc, id, size, f, n, toc')
    BY <2>1, <2>2, AddFact DEF Inv
  <2> HIDE DEF f, n
  <2>4. First(toc', id) \in Slots /\ toc'[First(toc', id)].id = id
    BY FirstFact
  <2>5. \A i \in Slots \ {f} : toc'[i].id # id
    BY <2>3 DEF Added, Has
  <2>6. First(toc', id) = f
    BY <2>4, <2>5
  <2> QED BY <2>2, <2>3, <2>6 DEF Added
<1> QED BY <1>1, Invariance, PTL DEF Spec, AddFits

\* The table is sound: typed, its sections apart, one for each id.
THEOREM TableIsSound == Spec => []TableSound
BY TypeCorrect, SectionsDisjoint, IdsUnique, PTL DEF TableSound

\* An addition leaves a section that is there where it is: the loops find the
\* same entry, with the same contents.
LEMMA AddKeeps ==
    ASSUME NEW t, TableOK(t), NEW new \in Ids, NEW size \in Nat,
           NEW id \in Ids, Has(t, id)
    PROVE  LET u == AddTo(t, new, size)
               i == First(t, id)
           IN  Has(u, id) /\ First(u, id) = i /\ u[i] = t[i]
<1>1. CASE ~CanAdd(t, new, size)
  BY <1>1 DEF AddTo
<1>2. CASE CanAdd(t, new, size)
  <2> DEFINE f == First(t, CBMEM_ID_NONE)
             n == SectionSize(t, size)
             u == AddTo(t, new, size)
             i == First(t, id)
  <2>1. Added(t, new, size, f, n, u)
    BY <1>2, AddFact
  <2>2. i \in Slots /\ t[i].id = id
    BY FirstFact
  <2>3. new # id
    BY <1>2 DEF CanAdd
  <2> HIDE DEF f, n, u, i
  <2>4. i # f /\ i # 0
    BY <2>1, <2>2, IdsFact DEF Added, FreeSpace
  <2>5. u[i] = t[i]
    BY <2>1, <2>2, <2>4 DEF Added
  <2>6. Has(u, id)
    BY <2>2, <2>5 DEF Has
  <2>7. First(u, id) \in Slots /\ u[First(u, id)].id = id
    BY <2>6, FirstFact
  <2>8. \A k \in Slots : u[k].id = id => t[k].id = id
    BY <2>1, <2>3, IdsFact DEF Added, FreeSpace
  <2>9. t[First(u, id)].id = t[i].id /\ t[i].id # CBMEM_ID_NONE
    BY <2>2, <2>7, <2>8, IdsFact
  <2>10. First(u, id) = i
    BY <2>2, <2>7, <2>9 DEF TableOK, Unique
  <2> QED BY <2>5, <2>6, <2>10 DEF u, i
<1> QED BY <1>1, <1>2

\* A section stays where it is, with its size, until a boot that is not a
\* wake-up makes the table anew or the DRAM is lost.
THEOREM SectionsDoStay == Spec => SectionsStay
<1> DEFINE Stays(id) == LET i == First(toc, id) IN
                        Has(toc', id) /\ First(toc', id) = i /\ toc'[i] = toc[i]
<1>1. ASSUME Inv, [Next]_vars, NEW id \in Ids, Has(toc, id),
             ~cbmem_recovery(FALSE), ~DramLost
      PROVE  Stays(id)
  <2>1. toc # NoToc
    BY <1>1, IdsFact DEF Has, NoToc, NoEntry
  <2>2. cbmem_check_toc(toc)
    BY <1>1, <2>1 DEF Inv, TableOK, cbmem_check_toc
  <2>3. Recovered(toc, TRUE) = toc
    BY <2>2 DEF Recovered
  <2>4. CASE UNCHANGED toc
    BY <1>1, <2>4
  <2>5. CASE cbmem_recovery(TRUE)
    <3>1. GDT \in Ids /\ GdtSize \in Nat
      BY IdsAssumption, BlockAssumption DEF GdtSize
    <3>2. toc' = AddTo(toc, GDT, GdtSize)
      BY <2>3, <2>5 DEF cbmem_recovery
    <3> QED BY <1>1, <3>1, <3>2, AddKeeps DEF Inv
  <2>6. ASSUME NEW new \in Ids, NEW size \in Sizes, cbmem_add(new, size)
        PROVE  Stays(id)
    BY <1>1, <2>6, SizesAssumption, AddKeeps DEF Inv, cbmem_add
  <2>7. CASE cbmem_recovery_romstage
    <3>1. CAR_GLOBALS \in Ids /\ CarSize \in Nat
      BY IdsAssumption DEF CarSize
    <3>2. toc' = AddTo(toc, CAR_GLOBALS, CarSize)
      BY <2>3, <2>7 DEF cbmem_recovery_romstage
    <3> QED BY <1>1, <3>1, <3>2, AddKeeps DEF Inv
  <2> QED
    BY <1>1, <2>4, <2>5, <2>6, <2>7 DEF Next, vars
<1>2. Inv /\ [Next]_vars =>
        [\A id \in Ids :
           Has(toc, id) /\ ~cbmem_recovery(FALSE) /\ ~DramLost => Stays(id)]_vars
  BY <1>1
<1> QED BY <1>2, Invariance, PTL DEF Spec, SectionsStay
=============================================================================
