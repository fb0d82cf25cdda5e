--------------------------- MODULE S3ResumeProofs ---------------------------
(***************************************************************************)
(* Proofs about S3Resume, for every region, set of sections and number of  *)
(* sleeps and resets: the machine is woken only as it was when it went to  *)
(* sleep, and no stage looks in vain for a section it needs.               *)
(***************************************************************************)
EXTENDS S3Resume, WellFoundedInduction, TLAPS

\* The tables of the proof: entries whose addresses are any numbers, and entry
\* 0 is the free space.
Row == [magic : BOOLEAN, id : Ids \cup {"free", "none"}, base : Int, size : Int]
Toc == {t \in [C!Slots -> Row] : t[0].magic => t[0].id = "free"}

\* The table that romstage makes when it finds none.
RomToc == C!AddTo(C!EmptyToc, CAR_GLOBALS, C!CarSize)

\* t has every section of s, where s has it.
Keeps(t, s) ==
    \A i \in C!Slots \ {0} : s[i].id # "none" => t[i] = s[i]

\* The image that the sleeping OS has left in the low memory.
Left == IF "low" \in lost THEN NOTHING ELSE sleeps

WakePath == {"romstage", "backup", "stack", "save", "load", "ramstage", "post",
             "check", "resume"}

TypeInv ==
    /\ pc \in Pcs
    /\ toc \in Toc
    /\ slp \in {0, 3} /\ acpi_slp_type \in {0, 3}
    /\ sleeps \in Nat /\ k \in Nat \ {0}
    /\ lost \subseteq {"high", "low"}

\* The table, once ramstage has it.
TableInv == pc \in {"check", "resume", "tables", "os", "woken"} => toc[0].magic

\* The two stages agree on what they do.
StageInv ==
    /\ acpi_slp_type = 3 => slp = 3
    /\ pc = "post" => acpi_slp_type = slp
    /\ pc = "resume" => slp = 3 /\ vector # NULL

\* A wake-up from a sleep that has kept the high memory.
KeptInv ==
    pc \in WakePath /\ slp = 3 /\ "high" \notin lost =>
        /\ toc[0].magic
        /\ Keeps(toc, asleep)
        /\ pc \in {"stack", "save"} => resume # NULL
        /\ pc \in {"load", "ramstage", "post", "check", "resume"} => backup = Left

\* One from a sleep that has not: romstage makes a table of its own.
LostInv ==
    pc \in WakePath /\ slp = 3 /\ "high" \in lost =>
        /\ pc \in {"romstage", "backup"} => ~C!cbmem_check_toc(toc)
        /\ pc \in {"stack", "save", "load", "ramstage", "post"} => toc = RomToc
        /\ pc \in {"check", "resume"} => ~C!Has(toc, RESUME)

\* The low memory, and the vector that is in it.
LowInv ==
    pc \in WakePath /\ slp = 3 =>
        /\ vector = Left
        /\ pc \in {"romstage", "backup", "stack", "save"} => ram = Left

IInv == TypeInv /\ TableInv /\ StageInv /\ KeptInv /\ LostInv /\ LowInv
        /\ WakeIsFaithful

-----------------------------------------------------------------------------
(* What cbmem_add does to a table.                                         *)

LEMMA SlotsFact == 0 \in C!Slots /\ 1 \in C!Slots /\ C!Slots \subseteq Nat
BY TableAssumption DEF C!Slots

LEMMA IdsFact ==
    /\ GDT \in Ids /\ CAR_GLOBALS \in Ids /\ CONSOLE \in Ids /\ RESUME \in Ids
    /\ GDT # RESUME /\ CAR_GLOBALS # RESUME /\ CONSOLE # RESUME
    /\ "free" \notin Ids /\ "none" \notin Ids
    /\ C!GdtSize \in Nat /\ C!CarSize \in Nat /\ ConsoleSize \in Nat
BY TableAssumption, SectionsAssumption DEF C!GdtSize, C!CarSize

\* The entry that cbmem_add takes is an unused one.
LEMMA FirstFact ==
    ASSUME NEW t, NEW id, C!Has(t, id)
    PROVE  /\ C!First(t, id) \in C!Slots /\ t[C!First(t, id)].id = id
           /\ \A l \in C!Slots : t[l].id = id => C!First(t, id) <= l
<1> DEFINE T == {i \in C!Slots : t[i].id = id}
<1>1. T \subseteq Nat /\ T # {}
    BY SlotsFact DEF C!Has
<1>2. PICK x \in T : \A y \in T : <<y, x>> \notin OpToRel(<, Nat)
    BY <1>1, WFMin, NatLessThanWellFounded
<1>3. ASSUME NEW y \in T PROVE x <= y
  <2> SUFFICES ASSUME y < x PROVE FALSE
      BY <1>1
  <2>1. <<y, x>> \in Nat \X Nat /\ <<y, x>>[1] < <<y, x>>[2]
      BY <1>1
  <2>2. <<y, x>> \in OpToRel(<, Nat)
      BY <2>1, Zenon DEF OpToRel
  <2> QED
      BY <1>2, <2>2
<1>4. \E i \in C!Slots : t[i].id = id /\ \A l \in C!Slots : t[l].id = id => i <= l
    BY <1>3
<1> QED
    BY <1>4 DEF C!First

LEMMA EmptyFact ==
    /\ C!EmptyToc \in Toc /\ C!NoToc \in Toc
    /\ C!EmptyToc[0].magic /\ ~C!NoToc[0].magic
    /\ \A id \in Ids : ~C!Has(C!EmptyToc, id)
<1>1. /\ C!EmptyToc[0] = [magic |-> TRUE, id |-> "free", base |-> Start,
                          size |-> End - Start]
      /\ \A i \in C!Slots \ {0} : C!EmptyToc[i] = C!NoEntry
    BY SlotsFact DEF C!EmptyToc, C!CBMEM_ID_FREESPACE
<1>2. C!NoEntry = [magic |-> FALSE, id |-> "none", base |-> 0, size |-> 0]
    BY DEF C!NoEntry, C!CBMEM_ID_NONE
<1>3. C!EmptyToc \in Toc
  <2>1. C!EmptyToc \in [C!Slots -> Row]
      BY <1>2, TableAssumption DEF C!EmptyToc, C!CBMEM_ID_FREESPACE, Row
  <2> QED
      BY <1>1, <2>1 DEF Toc
<1>4. C!NoToc \in Toc /\ ~C!NoToc[0].magic
    BY <1>2, SlotsFact DEF C!NoToc, Toc, Row
<1>5. \A id \in Ids : ~C!Has(C!EmptyToc, id)
  <2>1. \A i \in C!Slots : C!EmptyToc[i].id \in {"free", "none"}
      BY <1>1, <1>2
  <2> QED
      BY <2>1, IdsFact DEF C!Has
<1>6. C!EmptyToc[0].magic /\ C!EmptyToc[0].size = End - Start
    BY <1>1
<1> QED
    BY <1>3, <1>4, <1>5, <1>6

\* The table cbmem_add makes: one entry is new, and the free space gives what
\* that takes.
LEMMA AddShape ==
    ASSUME NEW t \in Toc, NEW id \in Ids, NEW size \in Nat, C!CanAdd(t, id, size)
    PROVE  LET f == C!First(t, "none")
               n == C!SectionSize(t, size)
               u == C!AddTo(t, id, size) IN
           /\ f \in C!Slots /\ t[f].id = "none" /\ f # 0 /\ n \in Int
           /\ DOMAIN u = C!Slots
           /\ u[f] = [magic |-> TRUE, id |-> id, base |-> t[0].base, size |-> n]
           /\ u[0] = [magic |-> TRUE, id |-> "free",
                      base |-> t[0].base + n, size |-> t[0].size - n]
           /\ \A i \in C!Slots \ {0, f} : u[i] = t[i]
<1> DEFINE f == C!First(t, "none")
           n == C!SectionSize(t, size)
           u == C!AddTo(t, id, size)
<1>1. f \in C!Slots /\ t[f].id = "none"
    BY FirstFact DEF C!CanAdd, C!CBMEM_ID_NONE
<1>2. t[0].magic = TRUE /\ t[0] \in Row /\ t[0].id = "free"
    BY SlotsFact DEF C!CanAdd, Toc, Row
<1>3. n \in Int
  <2>1. C!ALIGN(size) \in Int
      BY TableAssumption DEF C!ALIGN
  <2> QED
      BY <1>2, <2>1 DEF C!SectionSize, Row
<1>4. f # 0 /\ t \in [C!Slots -> Row]
    BY <1>1, <1>2 DEF Toc
<1>5. u = [t EXCEPT ![f] = [magic |-> TRUE, id |-> id, base |-> t[0].base, size |-> n],
                    ![0].base = @ + n, ![0].size = @ - n]
    BY DEF C!AddTo, C!CBMEM_ID_NONE
<1> HIDE DEF f, n, u
<1>6. u[f] = [magic |-> TRUE, id |-> id, base |-> t[0].base, size |-> n]
    BY <1>1, <1>4, <1>5, SlotsFact
<1>7. u[0] = [t[0] EXCEPT !.base = @ + n, !.size = @ - n]
    BY <1>1, <1>4, <1>5, SlotsFact
<1>8. \A i \in C!Slots \ {0, f} : u[i] = t[i]
    BY <1>4, <1>5
<1>9. u[0] = [magic |-> t[0].magic, id |-> t[0].id,
              base |-> t[0].base + n, size |-> t[0].size - n]
    BY <1>2, <1>7 DEF Row
<1>10. DOMAIN u = C!Slots
    BY <1>4, <1>5
<1> QED
    BY <1>1, <1>2, <1>3, <1>4, <1>6, <1>8, <1>9, <1>10 DEF f, n, u

\* Of entry 0 neither the magic nor the id changes.
LEMMA AddFact ==
    ASSUME NEW t \in Toc, NEW id \in Ids, NEW size \in Nat, C!CanAdd(t, id, size)
    PROVE  LET f == C!First(t, "none") u == C!AddTo(t, id, size) IN
           /\ u \in Toc
           /\ f \in C!Slots /\ t[f].id = "none"
           /\ u[f].id = id /\ u[0].magic
           /\ \A i \in C!Slots \ {f} : u[i].id = t[i].id
<1> DEFINE f == C!First(t, "none")
           n == C!SectionSize(t, size)
           u == C!AddTo(t, id, size)
<1>1. /\ f \in C!Slots /\ t[f].id = "none" /\ f # 0 /\ n \in Int
      /\ DOMAIN u = C!Slots
      /\ u[f] = [magic |-> TRUE, id |-> id, base |-> t[0].base, size |-> n]
      /\ u[0] = [magic |-> TRUE, id |-> "free",
                 base |-> t[0].base + n, size |-> t[0].size - n]
      /\ \A i \in C!Slots \ {0, f} : u[i] = t[i]
    BY AddShape
<1>2. t[0] \in Row /\ t[0].id = "free" /\ t \in [C!Slots -> Row]
    BY SlotsFact DEF C!CanAdd, Toc
<1>3. DOMAIN u = C!Slots /\ u = [i \in C!Slots |-> u[i]]
    BY SlotsFact DEF C!AddTo, Toc
<1> HIDE DEF f, n, u
<1>4. u[0] \in Row /\ u[0].id = "free" /\ u[0].magic
    BY <1>1, <1>2 DEF Row
<1>5. u[f] \in Row
    BY <1>1, <1>2 DEF Row
<1>6. \A i \in C!Slots : u[i] \in Row
    BY <1>1, <1>2, <1>4, <1>5
<1>7. u \in Toc
    BY <1>3, <1>4, <1>6 DEF Toc
<1> QED
    BY <1>1, <1>2, <1>4, <1>7 DEF f, u

\* cbmem_add takes no section away and moves none, and adds none but the one
\* asked for.
LEMMA AddKeeps ==
    ASSUME NEW t \in Toc, NEW id \in Ids, NEW size \in Nat
    PROVE  LET u == C!AddTo(t, id, size) IN
           /\ u \in Toc
           /\ t[0].magic => u[0].magic
           /\ Keeps(u, t)
           /\ \A r \in Ids : C!Has(t, r) => C!Has(u, r)
           /\ \A r \in Ids \ {id} : ~C!Has(t, r) => ~C!Has(u, r)
<1> DEFINE u == C!AddTo(t, id, size)
           f == C!First(t, "none")
<1>1. CASE ~C!CanAdd(t, id, size)
  <2>1. u = t
      BY <1>1 DEF C!AddTo
  <2> QED
      BY <2>1 DEF Keeps
<1>2. CASE C!CanAdd(t, id, size)
  <2>1. /\ u \in Toc
        /\ f \in C!Slots /\ t[f].id = "none"
        /\ u[f].id = id /\ u[0].magic
        /\ \A i \in C!Slots \ {f} : u[i].id = t[i].id
      BY <1>2, AddFact
  <2>2. \A i \in C!Slots \ {0, f} : u[i] = t[i]
      BY <1>2, AddShape
  <2> HIDE DEF u, f
  <2>3. Keeps(u, t)
      BY <2>1, <2>2 DEF Keeps
  <2>4. \A r \in Ids : C!Has(t, r) => C!Has(u, r)
      BY <2>1, IdsFact DEF C!Has
  <2>5. \A r \in Ids \ {id} : ~C!Has(t, r) => ~C!Has(u, r)
      BY <2>1 DEF C!Has
  <2> QED
      BY <2>1, <2>3, <2>4, <2>5 DEF u
<1> QED
    BY <1>1, <1>2

LEMMA KeepsTrans ==
    ASSUME NEW s, NEW t, NEW u, Keeps(t, s), Keeps(u, t)
    PROVE  Keeps(u, s)
BY DEF Keeps

\* Romstage's table: of the sections of the wake-up it has none.
LEMMA RomFact == RomToc \in Toc /\ RomToc[0].magic /\ ~C!Has(RomToc, RESUME)
<1>1. C!EmptyToc \in Toc /\ C!EmptyToc[0].magic /\ ~C!Has(C!EmptyToc, RESUME)
    BY EmptyFact, IdsFact
<1> QED
    BY <1>1, AddKeeps, IdsFact DEF RomToc

-----------------------------------------------------------------------------
LEMMA InvInit == Init => IInv
<1> SUFFICES ASSUME Init PROVE IInv
    OBVIOUS
<1>1. TypeInv
    BY EmptyFact DEF Init, TypeInv, Pcs
<1> QED
    BY <1>1 DEF Init, IInv, TableInv, StageInv, KeptInv, LostInv, LowInv,
       WakeIsFaithful

\* The sleep leaves the image, and a table if the high memory is kept.
LEMMA StepSleep ==
    ASSUME IInv, NEW l \in SUBSET {"high", "low"}, Sleep(l)
    PROVE  IInv'
<1>1. TypeInv'
    BY EmptyFact DEF Sleep, IInv, TypeInv, Pcs
<1>2. TableInv' /\ StageInv' /\ WakeIsFaithful'
    BY DEF Sleep, TableInv, StageInv, WakeIsFaithful
<1>3. KeptInv'
    BY DEF Sleep, IInv, KeptInv, TableInv, Keeps
<1>4. LostInv'
    BY EmptyFact DEF Sleep, IInv, LostInv, C!cbmem_check_toc
<1>5. LowInv'
    BY DEF Sleep, IInv, LowInv, Left, NOTHING, NULL
<1> QED
    BY <1>1, <1>2, <1>3, <1>4, <1>5 DEF IInv

LEMMA StepReset ==
    ASSUME IInv, NEW cold \in BOOLEAN, Reset(cold)
    PROVE  IInv'
<1>1. TypeInv'
    BY EmptyFact DEF Reset, IInv, TypeInv, Pcs
<1> QED
    BY <1>1 DEF Reset, IInv, TableInv, StageInv, KeptInv, LostInv, LowInv,
       WakeIsFaithful

\* The steps that leave the table alone.
LEMMA StepQuiet ==
    ASSUME IInv, \/ ColdBoot \/ AmdInitResume \/ move_stack_high_mem
                 \/ SaveRam \/ copy_and_run \/ mainboard_enable
                 \/ bs_os_resume_check \/ StartOS
    PROVE  IInv'
<1> USE DEF ColdBoot, AmdInitResume, move_stack_high_mem, SaveRam, copy_and_run,
            mainboard_enable, bs_os_resume_check, StartOS
<1>1. TypeInv'
    BY DEF IInv, TypeInv, Pcs
<1>2. TableInv'
    BY DEF IInv, TableInv
<1>3. StageInv'
    BY DEF IInv, StageInv, acpi_is_wakeup
<1>4. Left' = Left
    BY DEF Left
<1>5. KeptInv'
    BY <1>4 DEF IInv, KeptInv, LowInv, WakePath, Keeps, acpi_is_wakeup_early
<1>6. LostInv'
    BY DEF IInv, LostInv, WakePath, acpi_is_wakeup_early
<1>7. LowInv'
    BY <1>4 DEF IInv, LowInv, WakePath, acpi_is_wakeup_early
<1>8. WakeIsFaithful'
    BY DEF WakeIsFaithful
<1> QED
    BY <1>1, <1>2, <1>3, <1>5, <1>6, <1>7, <1>8 DEF IInv

\* Romstage keeps a table that it finds, and goes on only with the section.
LEMMA StepBackup ==
    ASSUME IInv, backup_resume
    PROVE  IInv'
<1> USE DEF backup_resume
<1>1. toc' = C!AddTo(IF toc[0].magic THEN toc ELSE C!EmptyToc, CAR_GLOBALS, C!CarSize)
    BY DEF C!cbmem_recovery_romstage, C!Recovered, C!cbmem_check_toc
<1>2. toc \in Toc
    BY DEF IInv, TypeInv
<1>3. toc[0].magic => toc' \in Toc /\ toc'[0].magic /\ Keeps(toc', toc)
    BY <1>1, <1>2, AddKeeps, IdsFact
<1>4. ~toc[0].magic => toc' = RomToc
    BY <1>1 DEF RomToc
<1>5. TypeInv'
    BY <1>3, <1>4, RomFact DEF IInv, TypeInv, Pcs
<1>6. TableInv' /\ StageInv' /\ WakeIsFaithful'
    BY DEF IInv, TableInv, StageInv, WakeIsFaithful
<1>7. Left' = Left
    BY DEF Left
<1>8. KeptInv'
  <2> SUFFICES ASSUME slp = 3, "high" \notin lost
               PROVE  toc'[0].magic /\ Keeps(toc', asleep) /\ (pc' = "stack" => resume' # NULL)
      BY DEF KeptInv
  <2>1. toc[0].magic /\ Keeps(toc, asleep)
      BY DEF IInv, KeptInv, WakePath
  <2>2. Keeps(toc', asleep)
      BY <1>3, <2>1, KeepsTrans
  <2> QED
      BY <1>3, <2>1, <2>2 DEF C!cbmem_check_toc
<1>9. LostInv'
    BY <1>4 DEF IInv, LostInv, WakePath, C!cbmem_check_toc
<1>10. LowInv'
    BY <1>7 DEF IInv, LowInv, WakePath
<1> QED
    BY <1>5, <1>6, <1>8, <1>9, <1>10 DEF IInv

\* The table that ramstage starts from: the one of the sleeping system, the one
\* romstage made, or an empty one.
LEMMA PostBase ==
    ASSUME IInv, init_cbmem_post_device
    PROVE  \E t \in Toc :
              /\ toc' = C!AddTo(C!AddTo(t, GDT, C!GdtSize), CONSOLE, ConsoleSize)
              /\ (slp = 3 /\ "high" \notin lost) => t = toc
              /\ ~(slp = 3 /\ "high" \notin lost) => t \in {RomToc, C!EmptyToc}
<1> USE DEF init_cbmem_post_device, acpi_is_wakeup
<1> DEFINE t == IF acpi_slp_type = 3 /\ toc[0].magic THEN toc ELSE C!EmptyToc
<1>1. toc' = C!AddTo(C!AddTo(t, GDT, C!GdtSize), CONSOLE, ConsoleSize)
    BY DEF PostToc, cbmemc_reinit, C!Recovered, C!cbmem_check_toc
<1>2. t \in Toc
    BY EmptyFact DEF IInv, TypeInv
<1>3. ASSUME slp = 3, "high" \notin lost
      PROVE  t = toc
    BY <1>3 DEF IInv, KeptInv, WakePath, StageInv
<1>4. ASSUME ~(slp = 3 /\ "high" \notin lost)
      PROVE  t \in {RomToc, C!EmptyToc}
    BY <1>4 DEF IInv, StageInv, LostInv, WakePath
<1> HIDE DEF t
<1> QED
    BY <1>1, <1>2, <1>3, <1>4

\* Ramstage keeps the table of a wake-up and makes a new one otherwise.
LEMMA StepPost ==
    ASSUME IInv, init_cbmem_post_device
    PROVE  IInv'
<1> USE DEF init_cbmem_post_device, acpi_is_wakeup
<1>1. PICK t \in Toc :
            /\ toc' = C!AddTo(C!AddTo(t, GDT, C!GdtSize), CONSOLE, ConsoleSize)
            /\ (slp = 3 /\ "high" \notin lost) => t = toc
            /\ ~(slp = 3 /\ "high" \notin lost) => t \in {RomToc, C!EmptyToc}
    BY PostBase
<1> DEFINE v == C!AddTo(t, GDT, C!GdtSize)
<1>2. t[0].magic
    BY <1>1, RomFact, EmptyFact DEF IInv, KeptInv, WakePath
<1>3. v \in Toc /\ v[0].magic /\ Keeps(v, t) /\ (~C!Has(t, RESUME) => ~C!Has(v, RESUME))
    BY <1>2, AddKeeps, IdsFact
<1> DEFINE w == C!AddTo(v, CONSOLE, ConsoleSize)
<1>4. toc' = w
    BY <1>1
<1> HIDE DEF v
<1>5. toc' \in Toc /\ toc'[0].magic /\ Keeps(toc', v) /\ (~C!Has(v, RESUME) => ~C!Has(toc', RESUME))
  <2>1. w \in Toc /\ w[0].magic /\ Keeps(w, v) /\ (~C!Has(v, RESUME) => ~C!Has(w, RESUME))
      BY <1>3, AddKeeps, IdsFact
  <2> HIDE DEF w
  <2> QED
      BY <1>4, <2>1
<1> HIDE DEF w
<1>6. TypeInv'
    BY <1>5 DEF IInv, TypeInv, Pcs
<1>7. TableInv' /\ StageInv' /\ WakeIsFaithful'
    BY <1>5 DEF IInv, TableInv, StageInv, WakeIsFaithful
<1>8. Left' = Left
    BY DEF Left
<1>9. ASSUME slp = 3, "high" \notin lost PROVE Keeps(toc', asleep)
  <2>1. Keeps(t, asleep)
      BY <1>1, <1>9 DEF IInv, KeptInv, WakePath
  <2>2. Keeps(v, asleep)
      BY <1>3, <2>1, KeepsTrans
  <2> QED
      BY <1>5, <2>2, KeepsTrans
<1>10. KeptInv'
    BY <1>5, <1>8, <1>9 DEF IInv, KeptInv, WakePath
<1>11. LostInv'
  <2>1. "high" \in lost => ~C!Has(t, RESUME)
      BY <1>1, RomFact, EmptyFact, IdsFact
  <2> QED
      BY <1>3, <1>5, <2>1 DEF LostInv
<1>12. LowInv'
    BY <1>8 DEF IInv, LowInv, WakePath
<1> QED
    BY <1>6, <1>7, <1>10, <1>11, <1>12 DEF IInv

\* The jump: a table with the section is one that was kept.
LEMMA StepJump ==
    ASSUME IInv, acpi_jump_to_wakeup
    PROVE  IInv'
<1> USE DEF acpi_jump_to_wakeup
<1>1. slp = 3 /\ vector # NULL /\ vector = Left
    BY DEF IInv, StageInv, LowInv, WakePath
<1>2. "low" \notin lost /\ vector = sleeps
    BY <1>1 DEF Left, NOTHING, NULL
<1>3. ASSUME pc' = "woken" PROVE "high" \notin lost
  <2>1. C!Has(toc, RESUME)
      BY <1>3 DEF find, C!cbmem_find, NULL, C!NULL
  <2> QED
      BY <1>1, <2>1 DEF IInv, LostInv, WakePath
<1>4. ASSUME pc' = "woken" PROVE lost = {} /\ ram' = sleeps
  <2>1. ram' = Left
      BY <1>1, <1>3, <1>4 DEF IInv, KeptInv, WakePath
  <2> QED
      BY <1>2, <1>3, <1>4, <2>1 DEF Left, IInv, TypeInv
<1>5. WakeIsFaithful'
    BY <1>1, <1>2, <1>3, <1>4
       DEF WakeIsFaithful, IInv, KeptInv, WakePath, Keeps, C!CBMEM_ID_NONE
<1>6. TypeInv' /\ TableInv' /\ StageInv'
    BY DEF IInv, TypeInv, TableInv, StageInv, Pcs
<1>7. KeptInv' /\ LostInv' /\ LowInv'
    BY DEF KeptInv, LostInv, LowInv, WakePath
<1> QED
    BY <1>5, <1>6, <1>7 DEF IInv

LEMMA TablesFact ==
    ASSUME NEW i \in 1 .. Len(Tables)
    PROVE  Tables[i].id \in Ids /\ Tables[i].size \in Sizes /\ Tables[i].size \in Nat
<1>1. ASSUME NEW S, Tables \in Seq(S) PROVE Tables[i] \in S
    BY <1>1
<1>2. Sizes \subseteq Nat
    BY TableAssumption
<1>3. Tables[i] \in [id : Ids, size : Sizes]
    BY <1>1, SectionsAssumption, Zenon
<1> QED
    BY <1>2, <1>3

LEMMA StepTables ==
    ASSUME IInv, write_tables
    PROVE  IInv'
<1>1. k \in 1 .. Len(Tables)
    BY SectionsAssumption DEF write_tables, IInv, TypeInv
<1>2. toc' = C!AddTo(toc, Tables[k].id, Tables[k].size)
    BY DEF write_tables, C!cbmem_add
<1>3. toc' \in Toc /\ toc'[0].magic
    BY <1>1, <1>2, TablesFact, AddKeeps DEF write_tables, IInv, TypeInv, TableInv
<1>4. TypeInv'
    BY <1>3 DEF write_tables, IInv, TypeInv, Pcs
<1>5. TableInv' /\ StageInv' /\ WakeIsFaithful'
    BY <1>3 DEF write_tables, IInv, TableInv, StageInv, WakeIsFaithful
<1>6. KeptInv' /\ LostInv' /\ LowInv'
    BY DEF write_tables, KeptInv, LostInv, LowInv, WakePath
<1> QED
    BY <1>4, <1>5, <1>6 DEF IInv

LEMMA InvStep == IInv /\ [Next]_vars => IInv'
<1> SUFFICES ASSUME IInv, [Next]_vars PROVE IInv'
    OBVIOUS
<1>1. CASE Boot
    BY <1>1, StepQuiet, StepBackup, StepPost, StepJump, StepTables DEF Boot
<1>2. ASSUME NEW l \in SUBSET {"high", "low"}, Sleep(l) PROVE IInv'
    BY <1>2, StepSleep
<1>3. ASSUME NEW cold \in BOOLEAN, Reset(cold) PROVE IInv'
    BY <1>3, StepReset
<1>4. CASE UNCHANGED vars
  <2>1. Left' = Left
      BY <1>4 DEF vars, cvars, Left
  <2> QED
      BY <1>4, <2>1 DEF vars, cvars, IInv, TypeInv, TableInv, StageInv, KeptInv,
         LostInv, LowInv, WakeIsFaithful, Keeps
<1> QED
    BY <1>1, <1>2, <1>3, <1>4 DEF Next

-----------------------------------------------------------------------------
\* The OS is jumped to only with the memory, the vector and the sections it
\* left when it went to sleep, whatever was lost and whenever the machine was
\* reset, although romstage makes a lost table anew and ramstage then takes
\* it for the one of the sleeping system.
THEOREM WokenAsLeft == Spec => []WakeIsFaithful
<1>1. IInv => WakeIsFaithful
    BY DEF IInv
<1> QED
    BY <1>1, InvInit, InvStep, PTL DEF Spec

-----------------------------------------------------------------------------
(* The boot finds its sections, when there is room for all of them.        *)

\* A table as the code makes it: sections, and free space, lie above address 0.
Good(t) ==
    /\ t \in [C!Slots -> C!Entry]
    /\ t[0].magic => t[0].base # NULL
    /\ \A i \in C!Slots : t[i].id \in Ids => t[i].base # NULL

\* Everything write_tables adds is there.
Complete(t) == \A i \in 1 .. Len(Tables) : C!Has(t, Tables[i].id)

\* Of the table at most q entries, and of the region at most m, are used.
Room(t, q, m) ==
    /\ t[0].magic
    /\ t[0].size >= End - Start - m
    /\ \A i \in C!Slots : i > q => t[i].id = "none"

\* The sections of recovery and console and the first n of write_tables have
\* been added.
Filled(t, n) ==
    /\ Room(t, n + 3, Need[n])
    /\ \A j \in 1 .. n : C!Has(t, Tables[j].id)

ValuesInv ==
    /\ Good(toc) /\ asleep \in [C!Slots -> C!Entry]
    /\ ram \in 0 .. sleeps /\ backup \in 0 .. sleeps /\ vector \in 0 .. sleeps
    /\ resume \in Nat /\ heap \in Nat \cup {CAR} /\ stack \in Nat \cup {CAR}
    /\ k \in 1 .. Len(Tables) + 1
    /\ sleeps \in 0 .. MaxSleeps /\ resets \in 0 .. MaxResets

\* The table that is being filled, and the one that a sleep has kept.
FillInv ==
    /\ pc \in WakePath => k = 1
    /\ pc \in {"backup", "stack", "save"} => slp = 3
    /\ pc \in {"check", "resume"} => Complete(toc) \/ Filled(toc, 0)
    /\ pc = "tables" => Complete(toc) \/ Filled(toc, k - 1)
    /\ pc \in {"os", "woken"} => Complete(toc)
    /\ (pc \in WakePath /\ slp = 3 /\ "high" \notin lost) => Complete(toc)

BootInv == ValuesInv /\ FillInv /\ ScratchFound /\ NoHang

LEMMA AlignFact ==
    ASSUME NEW m \in Nat
    PROVE  C!ALIGN(m) \in Nat /\ m <= C!ALIGN(m)
<1> DEFINE q == (m + BLOCK - 1) \div BLOCK
           r == (m + BLOCK - 1) % BLOCK
<1>1. q \in Int /\ r \in 0 .. BLOCK - 1 /\ m + BLOCK - 1 = BLOCK * q + r
    BY TableAssumption
<1>2. q >= 0
    BY TableAssumption
<1> HIDE DEF q, r
<1>3. m <= q * BLOCK /\ q * BLOCK \in Nat
    BY <1>1, <1>2, TableAssumption
<1> QED
    BY <1>3 DEF C!ALIGN, q

LEMMA LengthFact == Len(Tables) \in Nat
<1>1. ASSUME NEW S, Tables \in Seq(S) PROVE Len(Tables) \in Nat
    BY <1>1
<1> QED
    BY <1>1, SectionsAssumption, Zenon

\* A set that holds 0, and with each number the next one, holds all up to n.
LEMMA UpTo ==
    ASSUME NEW n \in Nat, NEW T, 0 \in T,
           \A i \in 0 .. n : (i # n /\ i \in T) => i + 1 \in T
    PROVE  \A i \in 0 .. n : i \in T
<1> DEFINE U == {i \in 0 .. n : i \notin T}
<1> SUFFICES ASSUME U # {} PROVE FALSE
    OBVIOUS
<1>1. U \subseteq Nat
    OBVIOUS
<1>2. PICK x \in U : \A y \in U : <<y, x>> \notin OpToRel(<, Nat)
    BY <1>1, WFMin, NatLessThanWellFounded
<1>3. x # 0 /\ x \in 0 .. n
    OBVIOUS
<1>4. x - 1 \in 0 .. n /\ x - 1 # n /\ x - 1 + 1 = x
    BY <1>3
<1>5. x - 1 \in T
  <2> SUFFICES ASSUME x - 1 \in U PROVE FALSE
      BY <1>4
  <2>1. <<x - 1, x>> \in Nat \X Nat /\ <<x - 1, x>>[1] < <<x - 1, x>>[2]
      BY <1>3, <1>4
  <2>2. <<x - 1, x>> \in OpToRel(<, Nat)
      BY <2>1, Zenon DEF OpToRel
  <2> QED
      BY <1>2, <2>2
<1> QED
    BY <1>4, <1>5

\* f adds up b, from a.
Adds(n, a, b, f) ==
    /\ f \in [0 .. n -> Nat]
    /\ f = [i \in 0 .. n |-> IF i = 0 THEN a ELSE f[i - 1] + b[i]]

LEMMA SumExists ==
    ASSUME NEW n \in Nat, NEW a \in Nat, NEW b, \A i \in 1 .. n : b[i] \in Nat
    PROVE  \E f : Adds(n, a, b, f)
<1> DEFINE T == {i \in 0 .. n : \E f : Adds(i, a, b, f)}
<1>1. 0 \in T
  <2> DEFINE f == [j \in 0 .. 0 |-> a]
  <2>1. f \in [0 .. 0 -> Nat]
      OBVIOUS
  <2>2. f = [j \in 0 .. 0 |-> IF j = 0 THEN a ELSE f[j - 1] + b[j]]
      OBVIOUS
  <2>3. Adds(0, a, b, f)
      BY <2>1, <2>2 DEF Adds
  <2> QED
      BY <2>3
<1>2. ASSUME NEW i \in 0 .. n, i # n, i \in T PROVE i + 1 \in T
  <2>1. PICK f : Adds(i, a, b, f)
      BY <1>2
  <2>2. f \in [0 .. i -> Nat] /\ \A j \in 0 .. i : f[j] = IF j = 0 THEN a ELSE f[j - 1] + b[j]
      BY <2>1 DEF Adds
  <2> DEFINE g == [j \in 0 .. i + 1 |-> IF j = i + 1 THEN f[i] + b[i + 1] ELSE f[j]]
  <2>3. f[i] \in Nat /\ b[i + 1] \in Nat
      BY <1>2, <2>2
  <2>4. g \in [0 .. i + 1 -> Nat]
    <3>1. ASSUME NEW j \in 0 .. i + 1, j # i + 1 PROVE f[j] \in Nat
        BY <2>2, <3>1
    <3> QED
        BY <2>3, <3>1
  <2>5. ASSUME NEW j \in 0 .. i + 1 PROVE g[j] = IF j = 0 THEN a ELSE g[j - 1] + b[j]
    <3>1. CASE j = i + 1
      <4>1. j - 1 = i /\ j # 0 /\ i \in 0 .. i + 1 /\ i # i + 1
          BY <3>1
      <4>2. g[i] = f[i]
          BY <4>1
      <4> QED
          BY <3>1, <4>1, <4>2
    <3>2. CASE j # i + 1 /\ j # 0
      <4>1. j \in 0 .. i /\ j - 1 \in 0 .. i + 1 /\ j - 1 # i + 1
          BY <3>2
      <4>2. g[j] = f[j] /\ g[j - 1] = f[j - 1]
          BY <3>2, <4>1
      <4> HIDE DEF g
      <4> QED
          BY <2>2, <3>2, <4>1, <4>2
    <3>3. CASE j = 0
      <4>1. j \in 0 .. i /\ j # i + 1
          BY <3>3
      <4>2. g[j] = f[j]
          BY <4>1
      <4> HIDE DEF g
      <4> QED
          BY <2>2, <3>3, <4>1, <4>2
    <3> QED
        BY <3>1, <3>2, <3>3
  <2>6. Adds(i + 1, a, b, g)
    <3> HIDE DEF g
    <3> QED
        BY <2>4, <2>5 DEF Adds
  <2> QED
      BY <1>2, <2>6
<1> HIDE DEF T
<1>3. \A i \in 0 .. n : i \in T
    BY <1>1, <1>2, UpTo
<1> QED
    BY <1>3 DEF T

\* Need is the sum it says it is, and grows.
LEMMA NeedFact ==
    /\ \A n \in 0 .. Len(Tables) : Need[n] \in Nat
    /\ Need[0] = C!ALIGN(C!CarSize) + C!ALIGN(C!GdtSize) + C!ALIGN(ConsoleSize)
    /\ \A n \in 1 .. Len(Tables) : Need[n] = Need[n - 1] + C!ALIGN(Tables[n].size)
    /\ \A n \in 0 .. Len(Tables) : Need[n] <= Need[Len(Tables)]
<1> DEFINE L == Len(Tables)
           a == C!ALIGN(C!CarSize) + C!ALIGN(C!GdtSize) + C!ALIGN(ConsoleSize)
           b == [n \in 1 .. L |-> C!ALIGN(Tables[n].size)]
           F(f) == f = [n \in 0 .. L |-> IF n = 0 THEN a ELSE f[n - 1] + C!ALIGN(Tables[n].size)]
<1>1. L \in Nat /\ a \in Nat /\ \A n \in 1 .. L : b[n] \in Nat
  <2>1. C!ALIGN(C!CarSize) \in Nat /\ C!ALIGN(C!GdtSize) \in Nat /\ C!ALIGN(ConsoleSize) \in Nat
      BY IdsFact, AlignFact
  <2>2. a \in Nat
      BY <2>1
  <2> QED
      BY <2>2, LengthFact, TablesFact, AlignFact
<1>2. PICK f : Adds(L, a, b, f)
  <2> HIDE DEF L, a, b
  <2> QED
      BY <1>1, SumExists
<1>3. f \in [0 .. L -> Nat] /\ F(f)
  <2>1. f \in [0 .. L -> Nat] /\ f = [n \in 0 .. L |-> IF n = 0 THEN a ELSE f[n - 1] + b[n]]
      BY <1>2 DEF Adds
  <2>2. ASSUME NEW n \in 0 .. L
        PROVE  (IF n = 0 THEN a ELSE f[n - 1] + b[n])
                  = (IF n = 0 THEN a ELSE f[n - 1] + C!ALIGN(Tables[n].size))
    <3>1. n # 0 => n \in 1 .. L
        BY <1>1
    <3>2. n # 0 => b[n] = C!ALIGN(Tables[n].size)
        BY <3>1
    <3> HIDE DEF a, b
    <3> QED
        BY <3>2
  <2> HIDE DEF L, a, b
  <2> QED
      BY <2>1, <2>2
<1>4. Need = CHOOSE g : F(g)
    BY DEF Need
<1>5. F(Need)
  <2> HIDE DEF F
  <2> QED
      BY <1>3, <1>4
<1> DEFINE o == Need
<1>6. \A n \in 0 .. L : o[n] = IF n = 0 THEN a ELSE o[n - 1] + C!ALIGN(Tables[n].size)
  <2>1. F(o)
      BY <1>5
  <2> HIDE DEF L, a, o
  <2> QED
      BY <2>1
<1>7. o[0] = a /\ \A n \in 1 .. L : o[n] = o[n - 1] + b[n] /\ b[n] = C!ALIGN(Tables[n].size)
  <2>1. 0 \in 0 .. L /\ \A n \in 1 .. L : n \in 0 .. L /\ n # 0
      BY <1>1
  <2>2. \A n \in 1 .. L : b[n] = C!ALIGN(Tables[n].size)
      OBVIOUS
  <2> HIDE DEF L, a, b, o
  <2> QED
      BY <1>6, <2>1, <2>2
<1>8. \A n \in 0 .. L : o[n] \in Nat
  <2> DEFINE T == {n \in 0 .. L : o[n] \in Nat}
  <2> HIDE DEF L, a, b, o
  <2>1. 0 \in T
      BY <1>1, <1>7
  <2>2. ASSUME NEW n \in 0 .. L, n # L, n \in T PROVE n + 1 \in T
    <3>1. n + 1 \in 1 .. L /\ n + 1 \in 0 .. L /\ n + 1 - 1 = n
        BY <1>1, <2>2
    <3>2. o[n + 1] = o[n] + b[n + 1]
        BY <1>7, <3>1
    <3> QED
        BY <1>1, <2>2, <3>1, <3>2
  <2> HIDE DEF T
  <2>3. \A n \in 0 .. L : n \in T
      BY <1>1, <2>1, <2>2, UpTo
  <2> QED
      BY <2>3 DEF T
<1>9. \A n \in 0 .. L : o[n] <= o[L]
  <2> DEFINE T == {i \in 0 .. L : o[L - i] <= o[L]}
  <2> HIDE DEF L, a, b, o
  <2>1. 0 \in T
      BY <1>1, <1>8
  <2>2. ASSUME NEW i \in 0 .. L, i # L, i \in T PROVE i + 1 \in T
    <3> DEFINE m == L - i
    <3>1. m \in 1 .. L /\ m \in 0 .. L /\ m - 1 \in 0 .. L /\ L - (i + 1) = m - 1 /\ i + 1 \in 0 .. L
        BY <1>1, <2>2
    <3>2. o[m] <= o[L]
        BY <2>2
    <3> HIDE DEF m
    <3>3. o[m] = o[m - 1] + b[m] /\ b[m] \in Nat /\ o[m - 1] \in Nat /\ o[m] \in Nat /\ o[L] \in Nat
        BY <1>1, <1>7, <1>8, <3>1
    <3>4. o[m - 1] <= o[L]
        BY <3>2, <3>3
    <3> QED
        BY <3>1, <3>4
  <2> HIDE DEF T
  <2>3. \A i \in 0 .. L : i \in T
      BY <1>1, <2>1, <2>2, UpTo
  <2> TAKE n \in 0 .. L
  <2>4. L - n \in 0 .. L /\ L - (L - n) = n
      BY <1>1
  <2> QED
      BY <2>3, <2>4 DEF T
<1> QED
    BY <1>7, <1>8, <1>9

\* Adding a section leaves a table that the code can go on with.
LEMMA GoodAdd ==
    ASSUME NEW t \in Toc, Good(t), NEW id \in Ids, NEW size \in Nat
    PROVE  Good(C!AddTo(t, id, size))
<1>1. CASE ~C!CanAdd(t, id, size)
    BY <1>1 DEF C!AddTo
<1>2. CASE C!CanAdd(t, id, size)
  <2> DEFINE f == C!First(t, "none")
             n == C!SectionSize(t, size)
             u == C!AddTo(t, id, size)
  <2>1. /\ f \in C!Slots /\ f # 0
        /\ u[f] = [magic |-> TRUE, id |-> id, base |-> t[0].base, size |-> n]
        /\ u[0] = [magic |-> TRUE, id |-> "free",
                   base |-> t[0].base + n, size |-> t[0].size - n]
        /\ \A i \in C!Slots \ {0, f} : u[i] = t[i]
      BY <1>2, AddShape
  <2>2. /\ t[0].base \in Nat /\ t[0].base # 0 /\ t[0].size \in Nat
        /\ \A i \in C!Slots : t[i] \in C!Entry
        /\ \A i \in C!Slots : t[i].id \in Ids => t[i].base # 0
      BY <1>2, SlotsFact DEF Good, C!CanAdd, C!Entry, NULL
  <2>3. n \in Nat /\ n <= t[0].size
      BY <2>2, AlignFact DEF C!SectionSize
  <2>4. DOMAIN u = C!Slots /\ u = [i \in C!Slots |-> u[i]]
      BY SlotsFact DEF C!AddTo, Toc
  <2> HIDE DEF f, n, u
  <2>5. u[0] \in C!Entry /\ u[0].base # 0 /\ u[0].id \notin Ids
      BY <2>1, <2>2, <2>3, IdsFact DEF C!Entry, C!CBMEM_ID_FREESPACE
  <2>6. u[f] \in C!Entry /\ u[f].base # 0
      BY <2>1, <2>2, <2>3 DEF C!Entry
  <2>7. \A i \in C!Slots : u[i] \in C!Entry
      BY <2>1, <2>2, <2>5, <2>6
  <2>8. \A i \in C!Slots : u[i].id \in Ids => u[i].base # 0
      BY <2>1, <2>2, <2>5, <2>6
  <2> QED
      BY <2>4, <2>5, <2>7, <2>8 DEF Good, u, NULL
<1> QED
    BY <1>1, <1>2

LEMMA GoodEmpty == Good(C!EmptyToc) /\ Good(C!NoToc)
<1>1. C!NoEntry \in C!Entry /\ C!NoEntry.id = "none" /\ C!NoEntry.magic = FALSE
    BY DEF C!NoEntry, C!Entry, C!CBMEM_ID_NONE
<1> DEFINE e == [magic |-> TRUE, id |-> "free", base |-> Start, size |-> End - Start]
<1>2. e \in C!Entry /\ e.id = "free" /\ e.base # 0
    BY TableAssumption DEF C!Entry, C!CBMEM_ID_FREESPACE
<1>3. C!EmptyToc = [i \in C!Slots |-> IF i = 0 THEN e ELSE C!NoEntry]
    BY DEF C!EmptyToc, C!CBMEM_ID_FREESPACE
<1> HIDE DEF e
<1>4. Good(C!EmptyToc)
    BY <1>1, <1>2, <1>3, IdsFact, SlotsFact DEF Good, NULL
<1>5. Good(C!NoToc)
    BY <1>1, IdsFact, SlotsFact DEF Good, NULL, C!NoToc
<1> QED
    BY <1>4, <1>5

\* cbmem_find returns an address, and that of a section is not NULL.
LEMMA FindFact ==
    ASSUME NEW t, Good(t), NEW id
    PROVE  /\ C!cbmem_find(t, id) \in Nat
           /\ C!Has(t, id) /\ id \in Ids => C!cbmem_find(t, id) # NULL
<1>1. CASE ~C!Has(t, id)
    BY <1>1 DEF C!cbmem_find, C!NULL
<1>2. CASE C!Has(t, id)
  <2>1. C!First(t, id) \in C!Slots /\ t[C!First(t, id)].id = id
      BY <1>2, FirstFact
  <2>2. C!cbmem_find(t, id) = t[C!First(t, id)].base
      BY <1>2 DEF C!cbmem_find
  <2> QED
      BY <2>1, <2>2 DEF Good, C!Entry
<1> QED
    BY <1>1, <1>2

\* Where there is room for it, a section is there after cbmem_add: the one that
\* was there already or a new one.
LEMMA AddRoom ==
    ASSUME NEW t \in Toc, Good(t), NEW q \in Nat, NEW m \in Nat, Room(t, q, m),
           q + 1 \in C!Slots, NEW id \in Ids, NEW size \in Nat,
           m + C!ALIGN(size) <= End - Start
    PROVE  LET u == C!AddTo(t, id, size) IN
           Room(u, q + 1, m + C!ALIGN(size)) /\ C!Has(u, id)
<1> DEFINE f == C!First(t, "none")
           n == C!SectionSize(t, size)
           u == C!AddTo(t, id, size)
           a == C!ALIGN(size)
<1>1. a \in Nat /\ size <= a
    BY AlignFact
<1>2. /\ t[0].size \in Nat /\ t[0].magic /\ t[0].size >= End - Start - m
      /\ \A i \in C!Slots : i > q => t[i].id = "none"
    BY SlotsFact DEF Good, C!Entry, Room
<1>3. CASE C!Has(t, id)
  <2>1. u = t
      BY <1>3 DEF C!AddTo, C!CanAdd
  <2> HIDE DEF u, a
  <2>2. t[0].size >= End - Start - (m + a)
      BY <1>1, <1>2, TableAssumption
  <2>3. \A i \in C!Slots : i > q + 1 => i > q
      BY SlotsFact
  <2>4. Room(u, q + 1, m + a)
      BY <1>2, <2>1, <2>2, <2>3 DEF Room
  <2> QED
      BY <1>3, <2>1, <2>4 DEF u, a
<1>4. CASE ~C!Has(t, id)
  <2>1. t[q + 1].id = "none"
      BY <1>2
  <2>2. size <= t[0].size
    <3> HIDE DEF a
    <3>1. m + a <= End - Start
        BY DEF a
    <3> QED
        BY <1>1, <1>2, <3>1, TableAssumption
  <2>3. C!CanAdd(t, id, size)
      BY <1>2, <1>4, <2>1, <2>2 DEF C!CanAdd, C!Has, C!CBMEM_ID_NONE
  <2>4. /\ f \in C!Slots /\ f # 0 /\ n \in Int
        /\ u[f] = [magic |-> TRUE, id |-> id, base |-> t[0].base, size |-> n]
        /\ u[0] = [magic |-> TRUE, id |-> "free",
                   base |-> t[0].base + n, size |-> t[0].size - n]
        /\ \A i \in C!Slots \ {0, f} : u[i] = t[i]
      BY <2>3, AddShape
  <2>5. f <= q + 1
      BY <2>1, FirstFact DEF C!Has
  <2>6. n <= a
      BY <1>1, <1>2 DEF C!SectionSize
  <2> HIDE DEF f, n, u, a
  <2>7. u[0].magic /\ u[0].size = t[0].size - n
      BY <2>4
  <2>8. u[0].size >= End - Start - (m + a)
      BY <1>1, <1>2, <2>4, <2>6, <2>7, TableAssumption
  <2>9. ASSUME NEW i \in C!Slots, i > q + 1 PROVE u[i].id = "none"
    <3>1. i > q /\ i # 0 /\ i # f
        BY <2>4, <2>5, <2>9, SlotsFact
    <3> QED
        BY <1>2, <2>4, <3>1
  <2>10. Room(u, q + 1, m + a)
      BY <2>7, <2>8, <2>9 DEF Room
  <2>11. C!Has(u, id)
      BY <2>4 DEF C!Has
  <2> QED
      BY <2>10, <2>11 DEF u, a
<1> QED
    BY <1>3, <1>4

\* Room enough for more is room enough.
LEMMA RoomGrows ==
    ASSUME NEW t \in Toc, NEW q \in Nat, NEW m \in Nat, Room(t, q, m),
           NEW p \in Nat, NEW n \in Nat, q <= p, m <= n
    PROVE  Room(t, p, n)
<1>1. t[0].size \in Int
    BY SlotsFact DEF Toc, Row
<1> QED
    BY <1>1, SlotsFact, TableAssumption DEF Room

\* What the sections that come first take.
LEMMA StartFact ==
    LET c == C!ALIGN(C!CarSize)
        g == C!ALIGN(C!GdtSize)
        o == C!ALIGN(ConsoleSize)
    IN  /\ c \in Nat /\ g \in Nat /\ o \in Nat
        /\ Need[0] = (c + g) + o /\ Need[0] <= End - Start
        /\ {1, 2, 3} \subseteq C!Slots
<1> DEFINE c == C!ALIGN(C!CarSize)
           g == C!ALIGN(C!GdtSize)
           o == C!ALIGN(ConsoleSize)
<1>1. c \in Nat /\ g \in Nat /\ o \in Nat
    BY AlignFact, IdsFact
<1>2. Need[0] = c + g + o
    BY NeedFact
<1>3. 0 \in 0 .. Len(Tables) /\ Len(Tables) \in 0 .. Len(Tables)
    BY LengthFact
<1>4. Need[0] \in Nat /\ Need[0] <= Need[Len(Tables)] /\ Need[Len(Tables)] \in Nat
    BY <1>3, NeedFact
<1>5. Need[0] <= End - Start
    BY <1>4, RoomAssumption, TableAssumption
<1>6. {1, 2, 3} \subseteq C!Slots
    BY LengthFact, RoomAssumption, TableAssumption DEF C!Slots
<1> HIDE DEF c, g, o
<1>7. Need[0] = (c + g) + o
    BY <1>1, <1>2
<1> QED
    BY <1>1, <1>5, <1>6, <1>7 DEF c, g, o

LEMMA EmptyRoom == Room(C!EmptyToc, 0, 0) /\ Room(RomToc, 1, C!ALIGN(C!CarSize)) /\ Good(RomToc)
<1>1. /\ C!EmptyToc[0] = [magic |-> TRUE, id |-> "free", base |-> Start, size |-> End - Start]
      /\ \A i \in C!Slots \ {0} : C!EmptyToc[i].id = "none"
    BY SlotsFact DEF C!EmptyToc, C!NoEntry, C!CBMEM_ID_NONE, C!CBMEM_ID_FREESPACE
<1>2. Room(C!EmptyToc, 0, 0)
    BY <1>1, SlotsFact, TableAssumption DEF Room
<1>3. Good(RomToc)
    BY EmptyFact, GoodEmpty, GoodAdd, IdsFact DEF RomToc
<1> DEFINE c == C!ALIGN(C!CarSize)
<1>4. c \in Nat /\ c <= End - Start
  <2> DEFINE g == C!ALIGN(C!GdtSize)
             o == C!ALIGN(ConsoleSize)
  <2>1. c \in Nat /\ g \in Nat /\ o \in Nat /\ (c + g) + o <= End - Start
      BY StartFact
  <2> HIDE DEF c, g, o
  <2> QED
      BY <2>1, TableAssumption
<1>5. 0 + 1 \in C!Slots /\ 0 + c <= End - Start /\ 0 + 1 = 1 /\ 0 + c = c
    BY <1>4, SlotsFact
<1>6. Room(RomToc, 0 + 1, 0 + c)
    BY <1>2, <1>5, AddRoom, EmptyFact, GoodEmpty, IdsFact DEF RomToc
<1> QED
    BY <1>2, <1>3, <1>5, <1>6

\* A boot that is no wake-up starts write_tables with room for all of it.
LEMMA FreshFilled ==
    ASSUME NEW t \in {RomToc, C!EmptyToc}
    PROVE  LET u == C!AddTo(C!AddTo(t, GDT, C!GdtSize), CONSOLE, ConsoleSize) IN
           Good(u) /\ Filled(u, 0)
<1> DEFINE c == C!ALIGN(C!CarSize)
           g == C!ALIGN(C!GdtSize)
           o == C!ALIGN(ConsoleSize)
           v == C!AddTo(t, GDT, C!GdtSize)
           u == C!AddTo(v, CONSOLE, ConsoleSize)
<1>1. /\ c \in Nat /\ g \in Nat /\ o \in Nat
      /\ Need[0] = (c + g) + o /\ Need[0] <= End - Start
      /\ {1, 2, 3} \subseteq C!Slots
    BY StartFact
<1>2. t \in Toc /\ Good(t)
    BY RomFact, EmptyFact, GoodEmpty, EmptyRoom
<1>3. Room(t, 1, c)
  <2>1. CASE t = RomToc
      BY <2>1, EmptyRoom
  <2>2. CASE t = C!EmptyToc
    <3> HIDE DEF c
    <3>1. 0 <= 1 /\ 0 <= c
        BY <1>1
    <3> QED
        BY <1>1, <1>2, <2>2, <3>1, EmptyRoom, RoomGrows
  <2> QED
      BY <2>1, <2>2
<1>4. c + g <= End - Start /\ 1 + 1 \in C!Slots /\ 1 + 1 = 2
  <2> HIDE DEF c, g, o
  <2> QED
      BY <1>1, TableAssumption
<1>5. v \in Toc /\ Good(v)
    BY <1>2, AddKeeps, GoodAdd, IdsFact
<1>6. Room(v, 1 + 1, c + g)
    BY <1>1, <1>2, <1>3, <1>4, AddRoom, IdsFact
<1>7. c + g \in Nat /\ 2 + 1 \in C!Slots /\ 2 + 1 = 3 /\ 0 + 3 = 3
  <2> HIDE DEF c, g
  <2> QED
      BY <1>1
<1> HIDE DEF v
<1>8. Good(u)
    BY <1>5, GoodAdd, IdsFact
<1>9. Room(u, 2 + 1, (c + g) + o)
    BY <1>1, <1>4, <1>5, <1>6, <1>7, AddRoom, IdsFact
<1>10. Room(u, 0 + 3, Need[0])
    BY <1>1, <1>7, <1>9
<1>11. 1 .. 0 = {}
    OBVIOUS
<1> HIDE DEF u
<1>12. Filled(u, 0)
    BY <1>10, <1>11 DEF Filled
<1> QED
    BY <1>8, <1>12 DEF u, v

\* write_tables finds room for its next section.
LEMMA FilledAdd ==
    ASSUME NEW t \in Toc, Good(t), NEW n \in 0 .. Len(Tables), n # Len(Tables),
           Filled(t, n)
    PROVE  Filled(C!AddTo(t, Tables[n + 1].id, Tables[n + 1].size), n + 1)
<1> DEFINE id == Tables[n + 1].id
           size == Tables[n + 1].size
           u == C!AddTo(t, id, size)
<1>1. n \in Nat /\ n + 1 \in 1 .. Len(Tables) /\ n + 1 \in 0 .. Len(Tables) /\ n + 1 - 1 = n
    BY LengthFact
<1>2. id \in Ids /\ size \in Nat
    BY <1>1, TablesFact
<1>3. /\ Need[n + 1] = Need[n] + C!ALIGN(size)
      /\ Need[n] \in Nat /\ Need[n + 1] <= End - Start
  <2>1. Need[n + 1] <= Need[Len(Tables)] /\ Need[Len(Tables)] \in Nat
      BY <1>1, NeedFact, LengthFact
  <2>2. Need[n + 1] = Need[n] + C!ALIGN(size)
      BY <1>1, NeedFact
  <2>3. Need[n] \in Nat /\ Need[n + 1] \in Nat
      BY <1>1, NeedFact
  <2>4. Need[n + 1] <= End - Start
      BY <2>1, <2>3, RoomAssumption, TableAssumption
  <2> QED
      BY <2>2, <2>3, <2>4
<1>4. (n + 3) + 1 \in C!Slots /\ n + 3 \in Nat /\ (n + 3) + 1 = (n + 1) + 3
    BY <1>1, LengthFact, RoomAssumption, TableAssumption DEF C!Slots
<1>5. Room(t, n + 3, Need[n]) /\ \A j \in 1 .. n : C!Has(t, Tables[j].id)
    BY DEF Filled
<1> HIDE DEF id, size
<1>6. Room(u, (n + 3) + 1, Need[n] + C!ALIGN(size)) /\ C!Has(u, id)
    BY <1>2, <1>3, <1>4, <1>5, AddRoom
<1>7. ASSUME NEW j \in 1 .. n + 1 PROVE C!Has(u, Tables[j].id)
  <2>1. CASE j = n + 1
      BY <1>6, <2>1 DEF id
  <2>2. CASE j # n + 1
    <3>1. j \in 1 .. n /\ j \in 1 .. Len(Tables)
        BY <1>1, <2>2, LengthFact
    <3>2. C!Has(t, Tables[j].id) /\ Tables[j].id \in Ids
        BY <1>5, <3>1, TablesFact
    <3> QED
        BY <1>2, <3>2, AddKeeps
  <2> QED
      BY <2>1, <2>2
<1> HIDE DEF u
<1> QED
    BY <1>3, <1>4, <1>6, <1>7 DEF Filled, u, id, size

LEMMA FilledComplete ==
    ASSUME NEW t, Filled(t, Len(Tables))
    PROVE  Complete(t)
BY DEF Filled, Complete

\* What is complete stays complete.
LEMMA CompleteAdd ==
    ASSUME NEW t \in Toc, Complete(t), NEW id \in Ids, NEW size \in Nat
    PROVE  Complete(C!AddTo(t, id, size))
BY AddKeeps, TablesFact DEF Complete

\* The sections of the resume path are in a complete table.
LEMMA CompleteHas ==
    ASSUME NEW t, Complete(t), Good(t)
    PROVE  C!cbmem_find(t, RESUME) # NULL /\ C!cbmem_find(t, SCRATCH) # NULL
<1>1. C!Has(t, RESUME) /\ C!Has(t, SCRATCH) /\ SCRATCH \in Ids
    BY RoomAssumption, TablesFact DEF Complete
<1> QED
    BY <1>1, FindFact, IdsFact

-----------------------------------------------------------------------------
LEMMA BootInit == Init => BootInv
<1> SUFFICES ASSUME Init PROVE BootInv
    OBVIOUS
<1>1. ValuesInv
    BY GoodEmpty, LengthFact, BoundsAssumption
       DEF Init, ValuesInv, Good, NOTHING, NULL, CAR
<1> QED
    BY <1>1 DEF Init, BootInv, FillInv, ScratchFound, NoHang, acpi_is_wakeup_early,
       WakePath

\* The machine sleeps only when the OS runs, and then the table is complete.
LEMMA BootSleep ==
    ASSUME IInv, BootInv, NEW l \in SUBSET {"high", "low"}, Sleep(l)
    PROVE  BootInv'
<1>1. Good(toc')
    BY GoodEmpty DEF Sleep, BootInv, ValuesInv
<1>2. asleep' \in [C!Slots -> C!Entry]
    BY DEF Sleep, BootInv, ValuesInv, Good
<1>3. ValuesInv'
    BY <1>1, <1>2, LengthFact, BoundsAssumption
       DEF Sleep, BootInv, ValuesInv, NOTHING, NULL, CAR
<1>4. FillInv'
    BY DEF Sleep, BootInv, FillInv, WakePath
<1> QED
    BY <1>3, <1>4 DEF Sleep, BootInv, ScratchFound, NoHang, CAR, NULL

LEMMA BootReset ==
    ASSUME IInv, BootInv, NEW cold \in BOOLEAN, Reset(cold)
    PROVE  BootInv'
<1>1. Good(toc')
    BY GoodEmpty DEF Reset, BootInv, ValuesInv
<1>2. ValuesInv'
    BY <1>1, LengthFact, BoundsAssumption
       DEF Reset, BootInv, ValuesInv, NOTHING, NULL, CAR
<1> QED
    BY <1>2 DEF Reset, BootInv, FillInv, WakePath, ScratchFound, NoHang,
       acpi_is_wakeup_early

\* The heap and the stack go where the scratch section is.
LEMMA BootScratch ==
    ASSUME IInv, BootInv, AmdInitResume \/ move_stack_high_mem
    PROVE  BootInv'
<1> USE DEF AmdInitResume, move_stack_high_mem
<1>1. find(SCRATCH) \in Nat
    BY FindFact DEF BootInv, ValuesInv, find
<1>2. slp = 3 /\ "high" \notin lost => find(SCRATCH) # NULL
    BY CompleteHas DEF BootInv, ValuesInv, FillInv, WakePath, find
<1>3. ValuesInv'
    BY <1>1 DEF BootInv, ValuesInv, Good
<1>4. FillInv'
    BY DEF BootInv, FillInv, WakePath, acpi_is_wakeup_early, Complete
<1>5. ScratchFound'
    BY <1>2 DEF BootInv, ScratchFound, acpi_is_wakeup_early
<1> QED
    BY <1>3, <1>4, <1>5 DEF BootInv, NoHang

\* The other steps that leave the table alone.
LEMMA BootQuiet ==
    ASSUME IInv, BootInv, \/ ColdBoot \/ SaveRam \/ copy_and_run \/ mainboard_enable
                          \/ bs_os_resume_check \/ StartOS
    PROVE  BootInv'
<1> USE DEF ColdBoot, SaveRam, copy_and_run, mainboard_enable, bs_os_resume_check,
            StartOS
<1>1. ValuesInv'
  <2>1. CASE SaveRam
      BY <2>1 DEF BootInv, ValuesInv
  <2>2. CASE copy_and_run
    <3>1. ram' \in 0 .. sleeps'
        BY <2>2 DEF BootInv, ValuesInv, NOTHING
    <3> QED
        BY <2>2, <3>1 DEF BootInv, ValuesInv
  <2>3. CASE ColdBoot \/ mainboard_enable \/ bs_os_resume_check \/ StartOS
      BY <2>3 DEF BootInv, ValuesInv
  <2> QED
      BY <2>1, <2>2, <2>3
<1>2. toc' = toc /\ k' = k /\ slp' = slp /\ lost' = lost
    OBVIOUS
<1>3. StartOS => Complete(toc)
  <2>1. CASE pc = "woken"
      BY <2>1 DEF BootInv, FillInv
  <2>2. CASE pc = "tables" /\ k > Len(Tables)
    <3>1. k - 1 = Len(Tables)
        BY <2>2, LengthFact DEF BootInv, ValuesInv
    <3> QED
        BY <2>2, <3>1, FilledComplete DEF BootInv, FillInv
  <2> QED
      BY <2>1, <2>2
<1>4. pc = "check" => k = 1 /\ (Complete(toc) \/ Filled(toc, k - 1))
    BY DEF BootInv, FillInv, WakePath
<1>5. FillInv'
  <2>1. CASE ColdBoot \/ SaveRam \/ copy_and_run \/ mainboard_enable
      BY <1>2, <2>1 DEF BootInv, FillInv, WakePath, acpi_is_wakeup_early
  <2>2. CASE bs_os_resume_check
      BY <1>2, <1>4, <2>2 DEF BootInv, FillInv, WakePath
  <2>3. CASE StartOS
      BY <1>2, <1>3, <2>3 DEF FillInv, WakePath
  <2> QED
      BY <2>1, <2>2, <2>3
<1>6. ScratchFound' /\ NoHang'
    BY DEF BootInv, ScratchFound, NoHang, acpi_is_wakeup_early
<1> QED
    BY <1>1, <1>5, <1>6 DEF BootInv

\* Romstage finds the backup section in every table it finds.
LEMMA BootBackup ==
    ASSUME IInv, BootInv, backup_resume
    PROVE  BootInv'
<1> USE DEF backup_resume
<1>1. toc' = C!AddTo(IF toc[0].magic THEN toc ELSE C!EmptyToc, CAR_GLOBALS, C!CarSize)
    BY DEF C!cbmem_recovery_romstage, C!Recovered, C!cbmem_check_toc
<1>2. slp = 3 /\ toc \in Toc /\ Good(toc)
    BY DEF BootInv, FillInv, ValuesInv, IInv, TypeInv
<1>3. "high" \notin lost => Complete(toc')
  <2> SUFFICES ASSUME "high" \notin lost PROVE Complete(toc')
      OBVIOUS
  <2>1. toc[0].magic /\ Complete(toc)
      BY <1>2 DEF IInv, KeptInv, WakePath, BootInv, FillInv
  <2> QED
      BY <1>1, <1>2, <2>1, CompleteAdd, IdsFact
<1>5. Good(toc')
  <2>1. CASE toc[0].magic
      BY <1>1, <1>2, <2>1, GoodAdd, IdsFact
  <2>2. CASE ~toc[0].magic
      BY <1>1, <2>2, EmptyRoom DEF RomToc
  <2> QED
      BY <2>1, <2>2
<1>4. pc' # "hung"
  <2>1. CASE "high" \in lost
      BY <1>2, <2>1 DEF IInv, LostInv, WakePath
  <2>2. CASE "high" \notin lost
      BY <1>3, <1>5, <2>2, CompleteHas
  <2> QED
      BY <2>1, <2>2
<1>6. C!cbmem_find(toc', RESUME) \in Nat
    BY <1>5, FindFact
<1>7. ValuesInv'
    BY <1>5, <1>6 DEF BootInv, ValuesInv, NULL
<1>8. FillInv'
    BY <1>2, <1>3, <1>4 DEF BootInv, FillInv, WakePath
<1> QED
    BY <1>4, <1>7, <1>8 DEF BootInv, ScratchFound, NoHang, acpi_is_wakeup_early

LEMMA BootPost ==
    ASSUME IInv, BootInv, init_cbmem_post_device
    PROVE  BootInv'
<1> USE DEF init_cbmem_post_device
<1>0. PICK t \in Toc :
            /\ toc' = C!AddTo(C!AddTo(t, GDT, C!GdtSize), CONSOLE, ConsoleSize)
            /\ (slp = 3 /\ "high" \notin lost) => t = toc
            /\ ~(slp = 3 /\ "high" \notin lost) => t \in {RomToc, C!EmptyToc}
    BY PostBase
<1>1. ASSUME slp = 3, "high" \notin lost PROVE Complete(toc') /\ Good(toc')
  <2> DEFINE v == C!AddTo(t, GDT, C!GdtSize)
  <2>1. Complete(t) /\ Good(t)
      BY <1>0, <1>1 DEF BootInv, FillInv, WakePath, ValuesInv
  <2>2. v \in Toc /\ Complete(v) /\ Good(v)
      BY <2>1, AddKeeps, CompleteAdd, GoodAdd, IdsFact
  <2>3. toc' = C!AddTo(v, CONSOLE, ConsoleSize)
      BY <1>0
  <2> HIDE DEF v
  <2> QED
      BY <2>2, <2>3, CompleteAdd, GoodAdd, IdsFact
<1>2. ~(slp = 3 /\ "high" \notin lost) => Good(toc') /\ Filled(toc', 0)
    BY <1>0, FreshFilled
<1>3. Good(toc')
    BY <1>1, <1>2
<1>4. ValuesInv'
    BY <1>3 DEF BootInv, ValuesInv
<1>5. FillInv'
    BY <1>1, <1>2 DEF BootInv, FillInv, WakePath
<1> QED
    BY <1>4, <1>5 DEF BootInv, ScratchFound, NoHang, acpi_is_wakeup_early

LEMMA BootJump ==
    ASSUME IInv, BootInv, acpi_jump_to_wakeup
    PROVE  BootInv'
<1> USE DEF acpi_jump_to_wakeup
<1>1. ValuesInv'
    BY DEF BootInv, ValuesInv, Good
<1>2. slp = 3
    BY DEF IInv, StageInv
<1>3. pc' = "woken" => Complete(toc)
  <2>1. CASE "high" \in lost
    <3>1. ~C!Has(toc, RESUME)
        BY <1>2, <2>1 DEF IInv, LostInv, WakePath
    <3> QED
        BY <3>1 DEF find, C!cbmem_find, NULL, C!NULL
  <2>2. CASE "high" \notin lost
      BY <1>2, <2>2 DEF BootInv, FillInv, WakePath
  <2> QED
      BY <2>1, <2>2
<1>4. toc' = toc /\ k' = k /\ k = 1 /\ (Complete(toc) \/ Filled(toc, k - 1))
    BY DEF BootInv, FillInv, WakePath
<1>5. FillInv'
    BY <1>3, <1>4 DEF FillInv, WakePath
<1> QED
    BY <1>1, <1>5 DEF BootInv, ScratchFound, NoHang, acpi_is_wakeup_early

\* One more section, or a table that has them all.
LEMMA BootTables ==
    ASSUME IInv, BootInv, write_tables
    PROVE  BootInv'
<1>1. k \in 1 .. Len(Tables) /\ k' = k + 1 /\ pc = "tables"
    BY LengthFact DEF write_tables, BootInv, ValuesInv
<1>2. toc' = C!AddTo(toc, Tables[k].id, Tables[k].size)
    BY DEF write_tables, C!cbmem_add
<1>3. toc \in Toc /\ Good(toc) /\ Tables[k].id \in Ids /\ Tables[k].size \in Nat
    BY <1>1, TablesFact DEF IInv, TypeInv, BootInv, ValuesInv
<1>4. Good(toc')
    BY <1>2, <1>3, GoodAdd
<1>5. Complete(toc') \/ Filled(toc', k)
  <2>1. CASE Complete(toc)
      BY <1>2, <1>3, <2>1, CompleteAdd
  <2>2. CASE Filled(toc, k - 1)
    <3> DEFINE n == k - 1
    <3>1. n \in 0 .. Len(Tables) /\ n # Len(Tables) /\ n + 1 = k
        BY <1>1, LengthFact
    <3>2. Filled(toc, n)
        BY <2>2
    <3> HIDE DEF n
    <3> QED
        BY <1>2, <1>3, <3>1, <3>2, FilledAdd
  <2> QED
      BY <1>1, <2>1, <2>2 DEF BootInv, FillInv
<1>6. C!Has(toc', Tables[k].id)
  <2>1. CASE Complete(toc')
      BY <1>1, <2>1 DEF Complete
  <2>2. CASE Filled(toc', k)
    <3>1. k \in 1 .. k
        BY <1>1
    <3> QED
        BY <2>2, <3>1 DEF Filled
  <2> QED
      BY <1>5, <2>1, <2>2
<1>7. pc' = "tables"
    BY <1>1, <1>6 DEF write_tables
<1>8. k' \in 1 .. Len(Tables) + 1 /\ k' - 1 = k
    BY <1>1, LengthFact
<1>9. ValuesInv'
    BY <1>4, <1>8 DEF write_tables, BootInv, ValuesInv, NULL
<1>10. FillInv'
    BY <1>5, <1>7, <1>8 DEF FillInv, WakePath
<1> QED
    BY <1>7, <1>9, <1>10 DEF write_tables, BootInv, ScratchFound, NoHang,
       acpi_is_wakeup_early

LEMMA BootStep == IInv /\ BootInv /\ [Next]_vars => BootInv'
<1> SUFFICES ASSUME IInv, BootInv, [Next]_vars PROVE BootInv'
    OBVIOUS
<1>1. CASE Boot
    BY <1>1, BootScratch, BootQuiet, BootBackup, BootPost, BootJump, BootTables DEF Boot
<1>2. ASSUME NEW l \in SUBSET {"high", "low"}, Sleep(l) PROVE BootInv'
    BY <1>2, BootSleep
<1>3. ASSUME NEW cold \in BOOLEAN, Reset(cold) PROVE BootInv'
    BY <1>3, BootReset
<1>4. CASE UNCHANGED vars
    BY <1>4 DEF vars, cvars, BootInv, ValuesInv, FillInv, ScratchFound, NoHang,
       acpi_is_wakeup_early, WakePath
<1> QED
    BY <1>1, <1>2, <1>3, <1>4 DEF Next

\* Romstage never stops for want of a section it needs, and its heap and stack
\* never go to address 0 while the high memory is kept, although it looks the
\* sections up without looking whether there is a table, write_tables takes no
\* notice of a section that found no room, and the machine may be reset while
\* the tables are being written: room for all of them is enough.
THEOREM BootIsSound == Spec => []BootSound
<1>1. IInv /\ BootInv => BootSound
  <2> SUFFICES ASSUME IInv, BootInv PROVE BootSound
      OBVIOUS
  <2>1. C!TypeOK
      BY DEF BootInv, ValuesInv, Good, C!TypeOK
  <2>2. TypeOK
      BY <2>1 DEF IInv, TypeInv, BootInv, ValuesInv, TypeOK
  <2> QED
      BY <2>2 DEF BootInv, BootSound
<1> QED
    BY <1>1, InvInit, InvStep, BootInit, BootStep, PTL DEF Spec
=============================================================================
