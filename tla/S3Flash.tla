------------------------------ MODULE S3Flash ------------------------------
(***************************************************************************)
(* The data a wake-up from S3 needs, kept in the SPI flash                 *)
(* (cpu/amd/agesa/s3_resume.c, called by agesawrapper.c of the board).     *)
(*                                                                         *)
(* A cold boot saves three regions: the non-volatile and the volatile      *)
(* block AGESA gives, each behind its size, and the MTRRs.  A sector that  *)
(* already holds its bytes is left alone; another is erased and programmed *)
(* TX cells at a time.  A wake-up saves nothing and reads the three back.  *)
(* The power may fail between any two commands to the chip, also during an *)
(* erase; a chip may not be found, an erase may outlast its time-out and a *)
(* write may fail.                                                         *)
(*                                                                         *)
(* A cell stands for two bytes: a 32-bit word is WORD cells.  The chip is  *)
(* a NOR flash: programming a cell that is not erased spoils it.           *)
(***************************************************************************)
EXTENDS Integers, FiniteSets, SequencesExt

CONSTANTS
    SECTOR,             \* flash->sector_size
    TX,                 \* CONFIG_AMD_SB_SPI_TX_LEN
    WORD,               \* cells of a 32-bit word
    VOLATILE_SIZE, MTRR_SIZE, NONVOLATILE_SIZE, \* S3_DATA_*_SIZE
    Boots,              \* what AGESA and the MTRRs may be at a cold boot
    MaxBoots, MaxCuts, MaxFaults, MaxSleeps     \* bounds of the model

VARIABLES
    flash,      \* the cells of the S3 data
    busy,       \* the cells the chip is erasing
    msr,        \* the fixed MTRRs, and the variable ones with SYS_CFG last
    modEn,      \* SYSCFG_MSR_MtrrFixDramModEn
    data,       \* what this cold boot has to save
    pc, region, \* where the boot is, and which region it saves
    done,       \* cells of the region behind pos
    nvram_pos,  \* cells of the sector programmed
    fault,      \* the save of this boot met a chip that failed
    kept,       \* history: what the flash holds complete, or Nothing
    started,    \* history: the MTRRs with which the OS was started
    got,        \* what the wake-up read
    boots, cuts, faults, sleeps

chip == <<flash, busy>>
cpu == <<msr, modEn>>
loop == <<region, done, nvram_pos>>
history == <<fault, kept, started>>
counts == <<boots, cuts, faults, sleeps>>
vars == <<chip, cpu, data, pc, loop, history, got, counts>>

SIZE == VOLATILE_SIZE + MTRR_SIZE + NONVOLATILE_SIZE
VOLATILE_POS == 0
MTRR_POS == VOLATILE_SIZE
NONVOLATILE_POS == VOLATILE_SIZE + MTRR_SIZE

ERASED == -1
TORN == -2
Nothing == [none |-> TRUE]

\* A region as AGESA knows it: where it is, and how long.
Pos(r) == CASE r = "nonvolatile" -> NONVOLATILE_POS
            [] r = "volatile" -> VOLATILE_POS
            [] r = "mtrr" -> MTRR_POS

Word(v) == [i \in 1..WORD |-> IF i = 1 THEN v ELSE 0]

\* The extension bits of a fixed MTRR (here the twos of each half) can be
\* read and written while SYS_CFG shows them only.
rdmsr(m, en) == IF en THEN m ELSE [lo |-> m.lo % 2, hi |-> m.hi % 2]

\* MTRR number i of the two tables as it is read: the fixed ones with the
\* extension bits, SYS_CFG, here the last one, without the enable.
SysCfg(m, en) == [m EXCEPT !.lo = 2 * @ + IF en THEN 1 ELSE 0]
MtrrRead(m, i, enFixed, enVar) ==
    LET f == Len(m.fixed)
    IN  IF i <= f THEN rdmsr(m.fixed[i], enFixed)
        ELSE IF i = f + Len(m.var) THEN SysCfg(m.var[i - f], enVar)
        ELSE m.var[i - f]

\* Their halves one behind the other, low before high, each a word.
MtrrImage(m, enFixed, enVar) ==
    [c \in 1 .. 2 * WORD * (Len(m.fixed) + Len(m.var)) |->
        LET x == MtrrRead(m, (c - 1) \div (2 * WORD) + 1, enFixed, enVar)
            k == (c - 1) % (2 * WORD)
        IN  IF k = 0 THEN x.lo ELSE IF k = WORD THEN x.hi ELSE 0]

FixedCells == 2 * WORD * Len(msr.fixed)

\* What is to be written: the size gets written first.
S3Image(d) == Word(Len(d)) \o d
NewData == S3Image(IF region = "nonvolatile" THEN data.nv ELSE data.vol)

ASSUME RegionAssumption ==
    /\ {SECTOR, TX, WORD} \subseteq Nat \ {0}
    /\ \A s \in {VOLATILE_SIZE, MTRR_SIZE, NONVOLATILE_SIZE} :
          s \in Nat \ {0} /\ s % SECTOR = 0

\* A block is a sequence of cells; neither table of MTRRs is empty.
Msr == [lo : Nat, hi : Nat]
Mtrrs == [fixed : Seq(Msr), var : Seq(Msr)]
ASSUME BootAssumption ==
    \A b \in Boots : /\ b \in [nv : Seq(Nat), vol : Seq(Nat), msr : Mtrrs]
                     /\ b.msr.fixed # <<>> /\ b.msr.var # <<>>

\* The callers' part: nothing compares the size of a block with its region.
ASSUME FitAssumption ==
    \A b \in Boots : /\ Len(S3Image(b.nv)) <= NONVOLATILE_SIZE
                     /\ Len(S3Image(b.vol)) <= VOLATILE_SIZE
                     /\ Len(MtrrImage(b.msr, TRUE, FALSE)) <= MTRR_SIZE

------------------------------------------------------------------------------
(* The chip *)

Cells(pos, n) == pos .. pos + n - 1
Fill(pos, n, v) == [c \in DOMAIN flash |-> IF c \in Cells(pos, n) THEN v
                                                                ELSE flash[c]]
Program(pos, s) ==
    [c \in DOMAIN flash |->
        IF c \notin Cells(pos, Len(s)) THEN flash[c]
        ELSE LET v == s[c - pos + 1] IN
             IF flash[c] = ERASED \/ flash[c] = v THEN v ELSE TORN]

\* A chip at work ignores a program command, and answers a read with nothing
\* of use.
Programs(pos, s) == flash' = IF busy = {} THEN Program(pos, s) ELSE flash

\* The write enable, the command or the wait for its end may fail, before or
\* behind the programming: the callers do not look at what write returns.
Write(pos, s) ==
    \/ Programs(pos, s) /\ UNCHANGED <<fault, faults>>
    \/ /\ faults < MaxFaults
       /\ faults' = faults + 1
       /\ fault' = TRUE
       /\ Programs(pos, s) \/ UNCHANGED flash

Holds(pos, s) == busy = {} /\ \A i \in 1..Len(s) : flash[pos + i - 1] = s[i]

\* The chip has erased the sector.
ChipReady ==
    /\ busy # {}
    /\ flash' = [c \in DOMAIN flash |-> IF c \in busy THEN ERASED ELSE flash[c]]
    /\ busy' = {}
    /\ UNCHANGED <<cpu, data, pc, loop, history, got, counts>>

------------------------------------------------------------------------------
(* A cold boot *)

ResetMsr(b) == [fixed |-> [i \in DOMAIN b.msr.fixed |-> [lo |-> 0, hi |-> 0]],
                var |-> [i \in DOMAIN b.msr.var |-> [lo |-> 0, hi |-> 0]]]

Init ==
    /\ flash = [c \in 0..SIZE-1 |-> ERASED] /\ busy = {}
    /\ data \in Boots
    /\ msr = ResetMsr(data) /\ modEn = FALSE
    /\ pc = "off" /\ region = "nonvolatile" /\ done = 0 /\ nvram_pos = 0
    /\ fault = FALSE /\ kept = Nothing /\ started = Nothing /\ got = Nothing
    /\ boots = 0 /\ cuts = 0 /\ faults = 0 /\ sleeps = 0

\* Power on, up to the call of amdS3Save: the blocks and the MTRRs of this
\* boot are known.  A chip that was still erasing has come to an end.
ColdBoot ==
    /\ pc = "off" /\ busy = {} /\ boots < MaxBoots
    /\ boots' = boots + 1
    /\ data' \in Boots
    /\ msr' = data'.msr /\ modEn' = FALSE
    /\ pc' = "probe" /\ region' = "nonvolatile" /\ done' = 0 /\ nvram_pos' = 0
    /\ fault' = FALSE /\ started' = Nothing /\ got' = Nothing
    /\ kept' = IF kept = data' THEN kept ELSE Nothing
    /\ UNCHANGED <<chip, cuts, faults, sleeps>>

\* amdS3Save goes on behind a call that has returned: the volatile block is
\* left out when AGESA has none, the MTRRs follow, then the payload.
amdS3Save(from) ==
    LET to == IF from = "nonvolatile" /\ Len(data.vol) # 0 THEN "volatile"
              ELSE "mtrr"
    IN  /\ done' = 0 /\ nvram_pos' = 0
        /\ region' = IF from = "mtrr" THEN from ELSE to
        /\ pc' = CASE from = "mtrr" -> "os"
                   [] from # "mtrr" /\ to = "volatile" -> "probe"
                   [] from # "mtrr" /\ to = "mtrr" -> "check"
OsStarts(en, bad) ==
    /\ started' = [msr |-> msr, modEn |-> en]
    /\ kept' = IF bad THEN Nothing ELSE data

\* Mutant: SYS_CFG is compared with the enable still set.
check_saved_mtrr_data_open ==
    /\ pc = "check"
    /\ LET image == MtrrImage(msr, TRUE, TRUE)
           same == Holds(MTRR_POS, image)
       IN  /\ modEn' = ~Holds(MTRR_POS, SubSeq(image, 1, FixedCells))
           /\ IF same THEN amdS3Save("mtrr") /\ OsStarts(modEn', fault)
                      ELSE pc' = "probe" /\ UNCHANGED <<loop, started, kept>>
    /\ UNCHANGED <<chip, msr, data, fault, got, counts>>

\* OemAgesaSaveMtrr compares the MTRRs first.  A fixed one that differs leaves
\* the extension bits enabled.
check_saved_mtrr_data ==
    /\ pc = "check"
    /\ LET image == MtrrImage(msr, TRUE, FALSE)
           same == Holds(MTRR_POS, image)
       IN  /\ modEn' = ~Holds(MTRR_POS, SubSeq(image, 1, FixedCells))
           /\ IF same THEN amdS3Save("mtrr") /\ OsStarts(modEn', fault)
                      ELSE pc' = "probe" /\ UNCHANGED <<loop, started, kept>>
    /\ UNCHANGED <<chip, msr, data, fault, got, counts>>

\* The chip is found: the MTRR region is erased, a block is compared first.
spi_flash_probe ==
    /\ pc = "probe"
    /\ pc' = IF region = "mtrr" THEN "erase" ELSE "compare"
    /\ UNCHANGED <<chip, cpu, data, loop, history, got, counts>>

\* No chip is found, and AGESA_SUCCESS is returned.
spi_flash_probe_fails ==
    /\ pc = "probe" /\ faults < MaxFaults
    /\ faults' = faults + 1
    /\ fault' = TRUE
    /\ amdS3Save(region)
    /\ IF region = "mtrr" THEN OsStarts(modEn, TRUE)
                          ELSE UNCHANGED <<started, kept>>
    /\ UNCHANGED <<chip, cpu, data, got, boots, cuts, sleeps>>

pos == Pos(region) + done
Left == Len(NewData) - done
bytes_to_process == IF Left >= SECTOR THEN SECTOR ELSE Left
ThisSector == SubSeq(NewData, done + 1, done + bytes_to_process)

\* Mutant: only the first sector is compared.
Compare_first ==
    /\ pc = "compare" /\ Left > 0
    /\ IF done > 0 \/ Holds(pos, ThisSector)
       THEN done' = done + bytes_to_process /\ pc' = pc
       ELSE done' = done /\ pc' = "erase"
    /\ UNCHANGED <<chip, cpu, data, region, nvram_pos, history, got, counts>>

\* OemAgesaSaveS3Info compares the next sector.
Compare ==
    /\ pc = "compare" /\ Left > 0
    /\ IF Holds(pos, ThisSector)
       THEN done' = done + bytes_to_process /\ pc' = pc
       ELSE done' = done /\ pc' = "erase"
    /\ UNCHANGED <<chip, cpu, data, region, nvram_pos, history, got, counts>>

\* All sectors are done: the call returns.
SaveS3InfoReturns ==
    /\ pc = "compare" /\ Left = 0
    /\ amdS3Save(region)
    /\ UNCHANGED <<chip, cpu, data, history, got, counts>>

------------------------------------------------------------------------------
(* Erasing and programming *)

\* The sector is to be erased; a chip at work takes no command.
EraseStarts ==
    /\ pc = "erase"
    /\ IF busy = {} THEN /\ busy' = Cells(pos, SECTOR)
                         /\ flash' = Fill(pos, SECTOR, TORN)
                    ELSE UNCHANGED chip
    /\ pc' = "erasing"
    /\ UNCHANGED <<cpu, data, loop, history, got, counts>>

\* The chip is ready.  A block has one sector to erase, the MTRR region all
\* of its own; its fixed MTRRs are then read with their extension bits.
EraseEnds ==
    /\ pc = "erasing" /\ busy = {}
    /\ IF region # "mtrr"
       THEN pc' = "write" /\ UNCHANGED <<done, modEn>>
       ELSE IF done + SECTOR < MTRR_SIZE
       THEN pc' = "erase" /\ done' = done + SECTOR /\ UNCHANGED modEn
       ELSE pc' = "write" /\ done' = 0 /\ modEn' = TRUE
    /\ UNCHANGED <<chip, msr, data, region, nvram_pos, history, got, counts>>

\* The chip does not become ready in time.  Its callers do not look at what
\* erase returns; the sectors behind are not erased.
EraseTimesOut ==
    /\ pc = "erasing" /\ busy # {} /\ faults < MaxFaults
    /\ faults' = faults + 1
    /\ fault' = TRUE
    /\ pc' = "write"
    /\ done' = IF region = "mtrr" THEN 0 ELSE done
    /\ modEn' = (modEn \/ region = "mtrr")
    /\ UNCHANGED <<chip, msr, data, region, nvram_pos, kept, started, got,
                   boots, cuts, sleeps>>

Whole == bytes_to_process - (bytes_to_process % TX)

\* TX cells of a block, while whole ones are left.
WriteChunk ==
    /\ pc = "write" /\ region # "mtrr" /\ nvram_pos < Whole
    /\ Write(pos + nvram_pos, SubSeq(ThisSector, nvram_pos + 1, nvram_pos + TX))
    /\ nvram_pos' = nvram_pos + TX
    /\ UNCHANGED <<busy, cpu, data, pc, region, done, kept, started, got,
                   boots, cuts, sleeps>>

\* What is left of the sector, none or less than TX.
WriteTail ==
    /\ pc = "write" /\ region # "mtrr" /\ nvram_pos = Whole
    /\ Write(pos + Whole, SubSeq(ThisSector, Whole + 1, bytes_to_process))
    /\ nvram_pos' = 0 /\ done' = done + bytes_to_process
    /\ pc' = "compare"
    /\ UNCHANGED <<busy, cpu, data, region, kept, started, got,
                   boots, cuts, sleeps>>

Image == MtrrImage(msr, modEn, modEn)

\* Half an MTRR, low before high.  Behind the last fixed one the extension
\* bits are disabled.
write_mtrr ==
    /\ pc = "write" /\ region = "mtrr" /\ nvram_pos < Len(Image)
    /\ Write(MTRR_POS + nvram_pos,
             SubSeq(Image, nvram_pos + 1, nvram_pos + WORD))
    /\ nvram_pos' = nvram_pos + WORD
    /\ modEn' = (nvram_pos' < FixedCells)
    /\ UNCHANGED <<busy, msr, data, pc, region, done, kept, started, got,
                   boots, cuts, sleeps>>

\* OemAgesaSaveMtrr returns, and with it amdS3Save.
SaveMtrrReturns ==
    /\ pc = "write" /\ region = "mtrr" /\ nvram_pos = Len(Image)
    /\ amdS3Save("mtrr")
    /\ OsStarts(modEn, fault)
    /\ UNCHANGED <<chip, cpu, data, fault, got, counts>>

------------------------------------------------------------------------------
(* Sleep, wake-up and power failure *)

Sleep ==
    /\ pc = "os" /\ sleeps < MaxSleeps
    /\ sleeps' = sleeps + 1
    /\ pc' = "resume"
    /\ msr' = ResetMsr(data) /\ modEn' = FALSE
    /\ UNCHANGED <<chip, data, loop, history, got, boots, cuts, faults>>

\* A block as it is read back: as many cells as its size says, if the size is
\* one and the chip answers.
S3Info(at) ==
    IF busy = {} /\ flash[at] \in 0..(SIZE - WORD - at)
    THEN [i \in 1..flash[at] |-> flash[at + WORD + i - 1]]
    ELSE <<TORN>>

\* Mutant: both blocks are read from the place of the volatile one.
OemAgesaGetS3Info_one ==
    /\ pc = "resume"
    /\ got' = [nv |-> S3Info(VOLATILE_POS), vol |-> S3Info(VOLATILE_POS)]
    /\ pc' = "restore"
    /\ UNCHANGED <<chip, cpu, data, loop, history, counts>>

\* AmdInitResume gets the non-volatile block, AmdS3LateRestore the other.
OemAgesaGetS3Info ==
    /\ pc = "resume"
    /\ got' = [nv |-> S3Info(NONVOLATILE_POS), vol |-> S3Info(VOLATILE_POS)]
    /\ pc' = "restore"
    /\ UNCHANGED <<chip, cpu, data, loop, history, counts>>

\* MTRR number i of the two tables as the flash holds it.
SavedMsr(i) == LET at == MTRR_POS + 2 * WORD * (i - 1)
               IN  [lo |-> flash[at], hi |-> flash[at + WORD]]

\* Mutant: the extension bits are not enabled before the fixed ones are written.
restore_mtrr_plain ==
    /\ pc = "restore"
    /\ LET f == Len(msr.fixed)
           v == Len(msr.var)
           last == SavedMsr(f + v)
       IN  /\ msr' = [fixed |-> [i \in 1..f |-> rdmsr(SavedMsr(i), FALSE)],
                      var |-> [i \in 1..v |->
                          IF i = v THEN [last EXCEPT !.lo = @ \div 2]
                                   ELSE SavedMsr(f + i)]]
           /\ modEn' = (last.lo % 2 = 1)
    /\ pc' = "os"
    /\ UNCHANGED <<chip, data, loop, history, got, counts>>

\* The fixed MTRRs with their extension bits, then the others; the last one
\* is SYS_CFG itself, with the enable as it was when it was saved.
restore_mtrr ==
    /\ pc = "restore"
    /\ LET f == Len(msr.fixed)
           v == Len(msr.var)
           last == SavedMsr(f + v)
       IN  /\ msr' = [fixed |-> [i \in 1..f |-> SavedMsr(i)],
                      var |-> [i \in 1..v |->
                          IF i = v THEN [last EXCEPT !.lo = @ \div 2]
                                   ELSE SavedMsr(f + i)]]
           /\ modEn' = (last.lo % 2 = 1)
    /\ pc' = "os"
    /\ UNCHANGED <<chip, data, loop, history, got, counts>>

\* The power fails or is switched off: an erase is cut short.
PowerOff ==
    /\ pc # "off" /\ cuts < MaxCuts
    /\ cuts' = cuts + 1
    /\ pc' = "off" /\ busy' = {}
    /\ UNCHANGED <<flash, cpu, data, loop, history, got, boots, faults, sleeps>>

Next ==
    \/ ColdBoot \/ check_saved_mtrr_data \/ spi_flash_probe
    \/ spi_flash_probe_fails \/ Compare \/ SaveS3InfoReturns
    \/ EraseStarts \/ EraseEnds \/ EraseTimesOut
    \/ WriteChunk \/ WriteTail \/ write_mtrr \/ SaveMtrrReturns
    \/ Sleep \/ OemAgesaGetS3Info \/ restore_mtrr
    \/ PowerOff \/ ChipReady

Spec == Init /\ [][Next]_vars

------------------------------------------------------------------------------

Saving == {"probe", "check", "compare", "erase", "erasing", "write"}

TypeOK ==
    /\ flash \in [0..SIZE-1 -> Int]
    /\ busy \subseteq 0..SIZE-1
    /\ modEn \in BOOLEAN /\ fault \in BOOLEAN
    /\ data \in Boots
    /\ pc \in Saving \cup {"off", "os", "resume", "restore"}
    /\ region \in {"nonvolatile", "volatile", "mtrr"}
    /\ done \in 0..SIZE /\ nvram_pos \in 0..SIZE

\* What a boot has saved without an error stays in the flash, complete, through
\* sleeps, through power failures and through boots that have to save the same.
KeptIsThere ==
    (kept # Nothing /\ pc \notin Saving) =>
        /\ S3Info(NONVOLATILE_POS) = kept.nv
        /\ kept.vol # <<>> => S3Info(VOLATILE_POS) = kept.vol
        /\ Holds(MTRR_POS, MtrrImage(kept.msr, TRUE, FALSE))

\* TypeOK and KeptIsThere.
FlashSound == TypeOK /\ KeptIsThere

\* A wake-up gets the blocks of the boot that started the sleeping system,
\* whatever earlier boots, torn or complete, had left in the flash, unless the
\* chip failed that boot.
DataBack ==
    (pc = "restore" /\ ~fault) =>
        got.nv = data.nv /\ (data.vol # <<>> => got.vol = data.vol)

\* After a wake-up the MTRRs are those with which the system was started, the
\* extension bits of the fixed ones included, and hidden again.
MtrrsBack ==
    (pc = "os" /\ ~fault) => msr = started.msr /\ modEn = started.modEn

\* A boot that has to save what the flash already holds complete touches none
\* of it: no erase wears the chip, and no power failure can spoil the data.
SameDataNoWear ==
    [][(pc \in Saving /\ kept = data) => flash' = flash]_vars
==============================================================================
