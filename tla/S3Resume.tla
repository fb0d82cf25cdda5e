------------------------------ MODULE S3Resume ------------------------------
(***************************************************************************)
(* Suspend to RAM and resume, across romstage, ramstage and the OS.        *)
(*                                                                         *)
(* On a wake-up romstage saves the memory that ramstage is about to be     *)
(* loaded over into the CBMEM section RESUME, and moves its stack and the  *)
(* AGESA heap into the section RESUME_SCRATCH; ramstage restores the       *)
(* memory and jumps to the waking vector that the OS left in the FACS.     *)
(* Both sections were added by write_tables of the boot that started the   *)
(* OS.  The machine may be reset at any time and DRAM may lose what it     *)
(* holds, in part, while it sleeps.                                        *)
(***************************************************************************)
EXTENDS Integers, Sequences

CONSTANTS
    Ids, MAX_CBMEM_ENTRIES, BLOCK, Start, End, Sizes, GDT, CAR_GLOBALS, \* see Cbmem
    CONSOLE, ConsoleSize,   \* CBMEM_ID_CONSOLE, CONFIG_CONSOLE_CBMEM_BUFFER_SIZE
    RESUME,     \* CBMEM_ID_RESUME
    SCRATCH,    \* CBMEM_ID_RESUME_SCRATCH
    ACPI,       \* CBMEM_ID_ACPI
    BOOTORDER,  \* CBMEM_ID_BOOTORDER
    Tables,     \* the sections write_tables adds: a sequence of [id, size]
    MaxSleeps, MaxResets    \* bounds on what the environment does

\* What Cbmem assumes of the region and the ids.
ASSUME TableAssumption ==
    /\ MAX_CBMEM_ENTRIES \in Nat \ {0, 1} /\ BLOCK \in Nat \ {0}
    /\ Start \in Nat \ {0} /\ End \in Nat /\ Start <= End
    /\ {"free", "none"} \cap Ids = {} /\ Sizes \subseteq Nat
ASSUME SectionsAssumption ==
    /\ {GDT, CAR_GLOBALS, CONSOLE, RESUME} \subseteq Ids
    /\ RESUME \notin {GDT, CAR_GLOBALS, CONSOLE}
    /\ ConsoleSize \in Nat
    /\ Tables \in Seq([id : Ids, size : Sizes])
ASSUME BoundsAssumption == MaxSleeps \in Nat /\ MaxResets \in Nat

VARIABLES
    pc,             \* where the boot is
    toc,            \* the CBMEM table of contents
    slp,            \* SLP_TYP of PM1_CNT
    acpi_slp_type,  \* its copy in ramstage
    ram,            \* what RAMBASE .. RAMTOP holds
    backup,         \* what the RESUME section holds
    vector,         \* the waking vector that RSDP, RSDT, FADT, FACS lead to
    resume,         \* resume_backup_memory of romstage
    heap, stack,    \* where the wake-up path has put the heap and the stack
    k,              \* the next element of Tables
    sleeps, resets, \* how often the machine slept and was reset
    lost,           \* history: what DRAM lost in the last sleep
    asleep          \* history: the table when the machine went to sleep

cvars == <<pc, slp, acpi_slp_type, ram, backup, vector, resume, heap, stack,
           k, sleeps, resets, lost, asleep>>
vars  == <<cvars, toc>>

C == INSTANCE Cbmem

NOTHING  == 0       \* no image of a sleeping OS: garbage or a running program
NULL     == 0
CAR      == -1      \* cache as RAM
find(id) == C!cbmem_find(toc, id)

\* What the sections of recovery and console, and the first n sections of
\* write_tables, take of the region.
Need ==
    LET need[n \in 0 .. Len(Tables)] ==
            IF n = 0 THEN C!ALIGN(C!CarSize) + C!ALIGN(C!GdtSize) + C!ALIGN(ConsoleSize)
                     ELSE need[n - 1] + C!ALIGN(Tables[n].size)
    IN  need

\* write_tables adds the sections of the resume path; table and region have
\* room for everything, as on the board.
ASSUME RoomAssumption ==
    /\ \E i \in 1 .. Len(Tables) : Tables[i].id = RESUME
    /\ \E i \in 1 .. Len(Tables) : Tables[i].id = SCRATCH
    /\ Len(Tables) + 4 <= MAX_CBMEM_ENTRIES
    /\ Need[Len(Tables)] <= End - Start

Pcs == {"romstage", "backup", "stack", "save", "load", "ramstage", "post",
        "check", "resume", "tables", "os", "woken", "hung", "dead"}

TypeOK ==
    /\ pc \in Pcs
    /\ C!TypeOK
    /\ slp \in {0, 3} /\ acpi_slp_type \in {0, 3}
    /\ {ram, backup, vector} \subseteq 0 .. sleeps
    /\ resume \in Nat
    /\ {heap, stack} \subseteq Nat \cup {CAR}
    /\ k \in 1 .. Len(Tables) + 1
    /\ sleeps \in 0 .. MaxSleeps /\ resets \in 0 .. MaxResets
    /\ lost \subseteq {"high", "low"}
    /\ asleep \in [C!Slots -> C!Entry]

Init ==
    /\ pc = "romstage"
    /\ toc = C!NoToc
    /\ slp = 0 /\ acpi_slp_type = 0
    /\ ram = NOTHING /\ backup = NOTHING /\ vector = NULL
    /\ resume = NULL /\ heap = CAR /\ stack = CAR
    /\ k = 1
    /\ sleeps = 0 /\ resets = 0
    /\ lost = {} /\ asleep = C!NoToc

-----------------------------------------------------------------------------
(* The environment. *)

\* The OS stores its waking vector in the FACS and enters S3.  Image n is
\* what it leaves at RAMBASE for its n-th sleep.  "high" is the CBMEM region,
\* "low" the memory below it.  A wake event starts romstage.
Sleep(l) ==
    /\ pc = "os" /\ sleeps < MaxSleeps
    /\ sleeps' = sleeps + 1
    /\ slp' = 3
    /\ ram'    = IF "low" \in l THEN NOTHING ELSE sleeps + 1
    /\ vector' = IF "low" \in l THEN NULL ELSE sleeps + 1
    /\ backup' = IF "high" \in l THEN NOTHING ELSE backup
    /\ toc'    = IF "high" \in l THEN C!NoToc ELSE toc
    /\ lost' = l /\ asleep' = toc
    /\ pc' = "romstage" /\ acpi_slp_type' = 0 /\ k' = 1
    /\ resume' = NULL /\ heap' = CAR /\ stack' = CAR
    /\ UNCHANGED resets

\* A reset, at any time; DRAM keeps what it holds (warm) or not (cold).
\* Assumed of the hardware: a reset clears SLP_TYP.
Reset(cold) ==
    /\ resets < MaxResets
    /\ resets' = resets + 1
    /\ slp' = 0
    /\ toc' = IF cold THEN C!NoToc ELSE toc
    /\ vector' = IF cold THEN NULL ELSE vector
    /\ ram' = NOTHING
    /\ backup' = IF cold THEN NOTHING ELSE backup
    /\ lost' = {}
    /\ pc' = "romstage" /\ acpi_slp_type' = 0 /\ k' = 1
    /\ resume' = NULL /\ heap' = CAR /\ stack' = CAR
    /\ UNCHANGED <<sleeps, asleep>>

-----------------------------------------------------------------------------
(* Romstage: cache_as_ram_main. *)

acpi_is_wakeup_early == slp = 3

ColdBoot ==
    /\ pc = "romstage" /\ ~acpi_is_wakeup_early
    /\ pc' = "load"
    /\ UNCHANGED <<toc, slp, acpi_slp_type, ram, backup, vector, resume, heap,
                   stack, k, sleeps, resets, lost, asleep>>

\* agesawrapper_amdinitresume and amds3laterestore put the heap where
\* GetHeapBase says, before anybody has looked at the table's magic.
AmdInitResume ==
    /\ pc = "romstage" /\ acpi_is_wakeup_early
    /\ heap' = find(SCRATCH)
    /\ pc' = "backup"
    /\ UNCHANGED <<toc, slp, acpi_slp_type, ram, backup, vector, resume,
                   stack, k, sleeps, resets, lost, asleep>>

backup_resume ==
    /\ pc = "backup"
    /\ C!cbmem_recovery_romstage
    /\ resume' = IF C!cbmem_check_toc(toc) THEN C!cbmem_find(toc', RESUME) ELSE NULL
    /\ pc' = IF C!cbmem_check_toc(toc) /\ C!cbmem_find(toc', RESUME) = NULL
             THEN "hung" ELSE "stack"
    /\ UNCHANGED <<slp, acpi_slp_type, ram, backup, vector, heap, stack, k,
                   sleeps, resets, lost, asleep>>

move_stack_high_mem ==
    /\ pc = "stack"
    /\ stack' = find(SCRATCH)
    /\ pc' = "save"
    /\ UNCHANGED <<toc, slp, acpi_slp_type, ram, backup, vector, resume, heap,
                   k, sleeps, resets, lost, asleep>>

\* Mutant: the memory is saved after ramstage has been loaded over it.
SaveRam_late ==
    /\ pc = "save"
    /\ backup' = IF resume # NULL THEN NOTHING ELSE backup
    /\ pc' = "load"
    /\ UNCHANGED <<toc, slp, acpi_slp_type, ram, vector, resume, heap, stack,
                   k, sleeps, resets, lost, asleep>>

SaveRam ==
    /\ pc = "save"
    /\ backup' = IF resume # NULL THEN ram ELSE backup
    /\ pc' = "load"
    /\ UNCHANGED <<toc, slp, acpi_slp_type, ram, vector, resume, heap, stack,
                   k, sleeps, resets, lost, asleep>>

copy_and_run ==
    /\ pc = "load"
    /\ ram' = NOTHING
    /\ pc' = "ramstage"
    /\ UNCHANGED <<toc, slp, acpi_slp_type, backup, vector, resume, heap,
                   stack, k, sleeps, resets, lost, asleep>>

-----------------------------------------------------------------------------
(* Ramstage. *)

mainboard_enable ==
    /\ pc = "ramstage"
    /\ acpi_slp_type' = slp
    /\ pc' = "post"
    /\ UNCHANGED <<toc, slp, ram, backup, vector, resume, heap, stack, k,
                   sleeps, resets, lost, asleep>>

acpi_is_wakeup == acpi_slp_type = 3

\* The table of cbmem_recovery in ramstage, and the section of the console,
\* which goes without one if there is no room.
cbmemc_reinit(t) == C!AddTo(t, CONSOLE, ConsoleSize)
PostToc(is_wakeup) ==
    cbmemc_reinit(C!AddTo(C!Recovered(toc, is_wakeup), GDT, C!GdtSize))

\* Mutant: the table is wiped although the machine wakes up.
init_cbmem_post_device_wipe ==
    /\ pc = "post"
    /\ toc' = PostToc(FALSE)
    /\ pc' = "check"
    /\ UNCHANGED <<acpi_slp_type, slp, ram, backup, vector, resume, heap,
                   stack, k, sleeps, resets, lost, asleep>>

init_cbmem_post_device ==
    /\ pc = "post"
    /\ toc' = PostToc(acpi_is_wakeup)
    /\ acpi_slp_type' = IF acpi_is_wakeup /\ ~C!cbmem_check_toc(toc)
                        THEN 0 ELSE acpi_slp_type
    /\ pc' = "check"
    /\ UNCHANGED <<slp, ram, backup, vector, resume, heap, stack, k, sleeps,
                   resets, lost, asleep>>

bs_os_resume_check ==
    /\ pc = "check"
    /\ pc' = IF acpi_is_wakeup /\ vector # NULL THEN "resume" ELSE "tables"
    /\ UNCHANGED <<toc, slp, acpi_slp_type, ram, backup, vector, resume, heap,
                   stack, k, sleeps, resets, lost, asleep>>

\* acpi_jump_to_wakeup returns, and the boot goes on, without the section.
acpi_jump_to_wakeup ==
    /\ pc = "resume"
    /\ ram' = IF find(RESUME) # NULL THEN backup ELSE ram
    /\ pc'  = IF find(RESUME) # NULL THEN "woken" ELSE "tables"
    /\ UNCHANGED <<toc, slp, acpi_slp_type, backup, vector, resume, heap,
                   stack, k, sleeps, resets, lost, asleep>>

\* Mutant: the scratch section is left to the first wake-up.
write_tables_noscratch ==
    /\ pc = "tables" /\ k <= Len(Tables)
    /\ LET t == Tables[k] IN
       /\ IF t.id = SCRATCH THEN UNCHANGED toc ELSE C!cbmem_add(t.id, t.size)
       /\ vector' = IF t.id = ACPI THEN NULL ELSE vector
    /\ k' = k + 1
    /\ UNCHANGED <<pc, slp, acpi_slp_type, ram, backup, resume, heap, stack,
                   sleeps, resets, lost, asleep>>

\* One section of write_tables.  The new FACS holds no waking vector.  Only
\* the boot order must find room, or the boot ends.
write_tables ==
    /\ pc = "tables" /\ k <= Len(Tables)
    /\ LET t == Tables[k] IN
       /\ C!cbmem_add(t.id, t.size)
       /\ vector' = IF t.id = ACPI THEN NULL ELSE vector
       /\ pc' = IF t.id = BOOTORDER /\ ~C!Has(toc', BOOTORDER)
                THEN "dead" ELSE pc
    /\ k' = k + 1
    /\ UNCHANGED <<slp, acpi_slp_type, ram, backup, resume, heap, stack,
                   sleeps, resets, lost, asleep>>

\* The payload starts an OS, or the OS goes on after its sleep.
StartOS ==
    /\ \/ pc = "tables" /\ k > Len(Tables)
       \/ pc = "woken"
    /\ pc' = "os"
    /\ UNCHANGED <<toc, slp, acpi_slp_type, ram, backup, vector, resume, heap,
                   stack, k, sleeps, resets, lost, asleep>>

-----------------------------------------------------------------------------
Boot ==
    \/ ColdBoot \/ AmdInitResume \/ backup_resume \/ move_stack_high_mem
    \/ SaveRam \/ copy_and_run
    \/ mainboard_enable \/ init_cbmem_post_device \/ bs_os_resume_check
    \/ acpi_jump_to_wakeup \/ write_tables \/ StartOS

Next ==
    \/ Boot
    \/ \E l \in SUBSET {"high", "low"} : Sleep(l)
    \/ \E cold \in BOOLEAN : Reset(cold)

\* The processor does not stop by itself.
Fairness == WF_vars(Boot)

Spec == Init /\ [][Next]_vars /\ Fairness

-----------------------------------------------------------------------------
\* The jump to the waking vector happens only with the memory the OS had at
\* RAMBASE when it went to sleep, never that of an earlier sleep, to the
\* vector it left then, with every section where the OS was told it is, and
\* never when DRAM lost any of that.
WakeIsFaithful ==
    pc = "woken" =>
        /\ ram = sleeps /\ vector = sleeps
        /\ lost = {}
        /\ \A i \in C!Slots \ {0} : asleep[i].id # C!CBMEM_ID_NONE => toc[i] = asleep[i]

\* As long as the CBMEM region survives the sleep, romstage finds the scratch
\* section for its heap and its stack, though it looks for it without looking
\* at the magic of the table or at the result.
ScratchFound ==
    acpi_is_wakeup_early /\ "high" \notin lost =>
        heap # NULL /\ stack # NULL

\* Romstage never hangs for want of the backup section, although write_tables
\* takes no notice when there is no room for it, and the boot order finds room
\* (RoomAssumption, which the region of the instance just fulfils).
NoHang == pc \notin {"hung", "dead"}

\* With the types of the variables.
BootSound == TypeOK /\ ScratchFound /\ NoHang

\* A sleep in which nothing was lost ends in the OS, not in a fresh boot,
\* unless the machine is reset.
KeptSleepWakes ==
    (pc = "romstage" /\ slp = 3 /\ lost = {}) ~> (pc = "woken" \/ slp = 0)

=============================================================================
