------------------------------- MODULE Cbmem -------------------------------
(***************************************************************************)
(* The high tables memory of src/src/lib/cbmem.c (static CBMEM,            *)
(* CONFIG_DYNAMIC_CBMEM=0): a table of contents (TOC) at the start of a    *)
(* region below the top of memory, whose entry 0 describes the free space. *)
(* Sections are only ever added; a boot that is not a wake-up starts with  *)
(* an empty table, a wake-up from S3 keeps the table it finds in DRAM.     *)
(***************************************************************************)
EXTENDS Integers

CONSTANTS
    Ids,                \* the CBMEM_ID_* that sections are added with
    MAX_CBMEM_ENTRIES,  \* 16 in the code
    BLOCK,              \* 512 in the code: sections are multiples of it
    Start,              \* address after the TOC: baseaddr + CBMEM_TOC_RESERVED
    End,                \* address after the region: baseaddr + size
    Sizes,              \* the sizes that callers ask for
    GDT,                \* CBMEM_ID_GDT, added by cbmem_arch_init
    CAR_GLOBALS         \* CBMEM_ID_CAR_GLOBALS, added by car_migrate_variables

ASSUME EntriesAssumption == MAX_CBMEM_ENTRIES \in Nat \ {0, 1}
ASSUME BlockAssumption == BLOCK \in Nat \ {0}
ASSUME RegionAssumption == Start \in Nat \ {0} /\ End \in Nat /\ Start <= End
ASSUME SizesAssumption == Sizes \subseteq Nat
ASSUME IdsAssumption ==
    {GDT, CAR_GLOBALS} \subseteq Ids /\ {"free", "none"} \cap Ids = {}

CBMEM_ID_FREESPACE == "free"
CBMEM_ID_NONE      == "none"
NULL               == 0

Slots == 0 .. MAX_CBMEM_ENTRIES - 1
Entry == [magic : BOOLEAN, id : Ids \cup {CBMEM_ID_FREESPACE, CBMEM_ID_NONE},
          base : Nat, size : Nat]

VARIABLE toc        \* the table in DRAM

vars == <<toc>>

\* DRAM that holds no table.
NoEntry == [magic |-> FALSE, id |-> CBMEM_ID_NONE, base |-> 0, size |-> 0]
NoToc   == [i \in Slots |-> NoEntry]

\* cbmem_initialize_empty.
EmptyToc ==
    [i \in Slots |->
        IF i = 0 THEN [magic |-> TRUE, id |-> CBMEM_ID_FREESPACE,
                       base |-> Start, size |-> End - Start]
                 ELSE NoEntry]

cbmem_check_toc(t) == t[0].magic

\* First(t, id): the slot the loops of cbmem_find and cbmem_add stop at.
Has(t, id)   == \E i \in Slots : t[i].id = id
First(t, id) == CHOOSE i \in Slots :
                    t[i].id = id /\ \A k \in Slots : t[k].id = id => i <= k

cbmem_find(t, id) == IF Has(t, id) THEN t[First(t, id)].base ELSE NULL

ALIGN(n) == ((n + BLOCK - 1) \div BLOCK) * BLOCK

\* The size a section gets: whole blocks, or what is left.
SectionSize(t, size) == IF ALIGN(size) < t[0].size THEN ALIGN(size)
                                                   ELSE t[0].size

\* Mutant: the size is not compared with what is free.
CanAdd_unchecked(t, id, size) ==
    /\ ~Has(t, id)
    /\ t[0].magic
    /\ Has(t, CBMEM_ID_NONE)

\* cbmem_add succeeds with a new section.
CanAdd(t, id, size) ==
    /\ ~Has(t, id)
    /\ t[0].magic
    /\ size <= t[0].size
    /\ Has(t, CBMEM_ID_NONE)

\* Mutant: the free space is moved on by the size that was asked for.
AddTo_freespace(t, id, size) ==
    IF ~CanAdd(t, id, size) THEN t
    ELSE [t EXCEPT ![First(t, CBMEM_ID_NONE)] =
                      [magic |-> TRUE, id |-> id, base |-> t[0].base,
                       size |-> SectionSize(t, size)],
                   ![0].base = @ + size,
                   ![0].size = @ - size]

\* The table after cbmem_add(id, size): as it was when the section is there
\* already or there is no room for it.
AddTo(t, id, size) ==
    IF ~CanAdd(t, id, size) THEN t
    ELSE LET n == SectionSize(t, size) IN
         [t EXCEPT ![First(t, CBMEM_ID_NONE)] =
                      [magic |-> TRUE, id |-> id, base |-> t[0].base,
                       size |-> n],
                   ![0].base = @ + n,
                   ![0].size = @ - n]

TypeOK == toc \in [Slots -> Entry]

Init == toc = NoToc

cbmem_add(id, size) == toc' = AddTo(toc, id, size)

\* Mutant: a wake-up wipes the table too.
Recovered_wipe(t, is_wakeup) == EmptyToc

\* The table cbmem_recovery works on, in ramstage: wiped on a boot that is
\* not a wake-up, made anew when a wake-up does not find it.
Recovered(t, is_wakeup) ==
    IF is_wakeup /\ cbmem_check_toc(t) THEN t ELSE EmptyToc

\* cbmem_recovery in ramstage; cbmem_arch_init moves the GDT into a section.
GdtSize == BLOCK
cbmem_recovery(is_wakeup) ==
    toc' = AddTo(Recovered(toc, is_wakeup), GDT, GdtSize)

\* cbmem_recovery(1) in romstage (backup_resume), where cbmem_arch_init and
\* cbmem_fail_resume do nothing and car_migrate_variables moves the few bytes
\* of its variables into a section.
CarSize == 1
cbmem_recovery_romstage == toc' = AddTo(Recovered(toc, TRUE), CAR_GLOBALS, CarSize)

\* External: the DRAM loses its contents.
DramLost == toc' = NoToc

Next ==
    \/ \E w \in BOOLEAN : cbmem_recovery(w)
    \/ cbmem_recovery_romstage
    \/ DramLost
    \/ \E id \in Ids, size \in Sizes : cbmem_add(id, size)

Spec == Init /\ [][Next]_vars

-----------------------------------------------------------------------------
Sections(t) == {i \in Slots \ {0} : t[i].id # CBMEM_ID_NONE}

\* Sections neither overlap each other nor the free space, and all of them
\* lie behind the TOC and inside the region that is kept from the OS:
\* cbmem_add hands out each byte once.
Disjoint ==
    toc[0].magic =>
        /\ \A i \in Sections(toc) :
              /\ Start <= toc[i].base
              /\ toc[i].base + toc[i].size <= toc[0].base
        /\ \A i, k \in Sections(toc) :
              i < k => toc[i].base + toc[i].size <= toc[k].base
        /\ toc[0].base + toc[0].size = End

\* No id names two sections, so cbmem_find finds the section cbmem_add made,
\* and the used entries come before the unused ones, so that the first unused
\* entry is the only one that cbmem_add has to look for.
OneSectionPerId ==
    \A i, k \in Slots :
        /\ toc[i].id = toc[k].id /\ toc[i].id # CBMEM_ID_NONE => i = k
        /\ i < k /\ toc[k].id # CBMEM_ID_NONE => toc[i].id # CBMEM_ID_NONE

\* The table stays sound under every sequence of boots, wake-ups, losses of
\* DRAM and additions.
TableSound == TypeOK /\ Disjoint /\ OneSectionPerId

\* A section that cbmem_add makes holds what was asked for: rounding to whole
\* blocks never gives less, not even for the last section in the region.
AddFits ==
    [][\A id \in Ids, size \in Sizes :
          ~Has(toc, id) /\ cbmem_add(id, size) /\ Has(toc', id) =>
              toc'[First(toc', id)].size >= size]_vars

\* A section never moves or changes until a boot that is not a wake-up makes
\* the table anew: addresses that cbmem_add or cbmem_find returned, and that
\* the OS was given, stay valid across a sleep.
SectionsStay ==
    [][\A id \in Ids :
          Has(toc, id) /\ ~cbmem_recovery(FALSE) /\ ~DramLost =>
              LET i == First(toc, id) IN
              Has(toc', id) /\ First(toc', id) = i /\ toc'[i] = toc[i]]_vars
=============================================================================
