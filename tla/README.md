# A TLA+ model of the PC Engines apu firmware

The repository is the firmware of the PC Engines apu board: coreboot for an AMD
family 14h processor with two cores (`src/src`), and the payloads it carries in
its flash (`src/payloads`), of which `sortbootorder`, the setup menu, is the
board's own. This directory models the parts of it that carry control and state:
TLA+ modules, TLC configurations that check them on small instances, and TLAPS
proofs. Everything follows the configuration of the image in `build/config.h`
(`SMP`, `MAX_CPUS=2`, `SERIAL_CPU_INIT=1`, `HAVE_ACPI_RESUME=1`,
`EARLY_CBMEM_INIT=0`, `DYNAMIC_CBMEM=0`, `MAINBOARD_BOOTORDER=1`).

`PROJECT.json` is the machine-readable companion: components, runs, a source
range for every definition that models code, mutants, hazards, findings and
theorems.

## 1. Inventory

| component | state | operations | what is hard |
|---|---|---|---|
| boot state machine, `lib/hardwaremain.c` | phase, callbacks, blockers and samples of each boot state | walk, schedule a callback, block and unblock a phase | clients call in at any point, on phases already passed |
| AP start-up, `cpu/x86/lapic/` | two mailbox words, CPU stacks, `active_cpus`, `start_cpu_lock` | start, trampoline, initialise, wait | BSP and APs share memory; time-out against a slow AP |
| spin lock, `arch/smp/spinlock.h` | one signed byte | lock, unlock | contention, wrap-around |
| CBMEM, `lib/cbmem.c` | a table of 16 entries and one region | init, reinit, add, find | full table, full region, DRAM lost |
| S3 resume, `romstage.c`, `s3_resume.c`, `acpi.c`, `tables.c` | sleep type, saved memory, waking vector | sleep, wake, save, restore, jump | resets at any step, DRAM partly lost, stages that disagree |
| AGESA heap, `fam14_callouts.c` | two linked lists inside one buffer | allocate, free, locate | fragmentation, order of frees |
| setup payload, `sortbootorder.c` | list, letters, toggles, a flash sector | menu keys, save, reset | power failing between erase and write |
| S3 data in flash, `s3_resume.c` | three flash regions | compare, erase, write, read | power failure, time-outs, stale data |
| memory ranges, `lib/memrange.c` | a sorted list of tagged ranges | insert, hole, re-tag, fill | boundaries, early exits that rely on the order |
| boot memory map and payload loader, `bootmem.c`, `selfboot.c`, `boot.c` | the map, the segments, a bounce buffer | add ranges, check, cut, bounce, copy, jump, return | the payload wants the memory coreboot runs in |
| device tree and resources, `device/device.c` | a tree, windows and limits | compute, constrain, allocate, store | alignment, limits, exhaustion; two passes that must agree |
| CMOS options, `mc146818rtc.c` | 128 bytes and two checksums | get, set, init | checksum ranges, power problems |
| MTRRs, coreboot tables, CBFS | derived from the above | pure computations | boundaries |
| console, PCI, Super I/O, southbridge, northbridge, ACPI/SMBIOS/MP tables | registers and layout | programming in one order | little control |
| AGESA and CIMx, SeaBIOS, iPXE, memtest86+, libpayload | third party | - | - |

How they meet: romstage (S3 path, console) loads ramstage, which *is* the boot
state machine; its states call the device tree, the AP start-up, CBMEM and the
tables; `BS_OS_RESUME` is the jump of S3 resume, `BS_PAYLOAD_BOOT` hands over to
SeaBIOS. S3 resume depends on what `write_tables` left in CBMEM. AGESA calls back
into the heap, which S3 moves into a CBMEM section. The allocator leaves the
resources from which the boot memory map is made, in a list of ranges; the loader
checks the payload's segments against that map. A cold boot saves in the flash what
a wake-up reads from there. The setup payload rewrites the
file from which the next romstage decides about the console and ramstage about
the entry of the setup payload itself.

## 2. Modules

| module | models | composed of |
|---|---|---|
| `BootState` | boot state machine | |
| `ApStart` | start-up of the application processors | |
| `SingleCpu`, `SpinLock` | what the lock promises; the byte spin lock | `SpinLock` implements `SingleCpu` |
| `Cbmem` | the CBMEM table | |
| `S3Resume` | suspend and resume through romstage, ramstage, OS | `C == INSTANCE Cbmem`, whose operators change the table |
| `AgesaHeap` | the call-out heap, word by word | |
| `Setup` | setup payload, boot order sector, next boot | |
| `RangeList` | the list operations of `memrange.c`, as operators | |
| `PageMap`, `MemRange` | what `memrange.h` promises; one list under any sequence of calls | `MemRange` extends `RangeList` and implements `PageMap` |
| `SelfBoot` | boot memory map, payload loader, jump and return | extends `RangeList` |
| `S3Flash` | saving and reading of the S3 data in the SPI flash | |
| `Resources` | resource allocator, with the RAM of the northbridge's domain | |
| `MCBootState`, `MCApStart`, `MCS3Resume`, `MCSetup`, `MCSelfBoot`, `MCS3Flash`, `MCResources` | values of the constants for TLC | |
| `BootStateProofs`, `SmpProofs`, `CbmemProofs`, `S3ResumeProofs`, `AgesaHeapProofs`, `SetupProofs`, `MemRangeProofs`, `S3FlashProofs` | theorems | extend the module they are about; `SmpProofs` extends `ApStart` and `SpinLock`, `MemRangeProofs` `MemRange` and `SelfBoot` |

Names are those of the source where there is a function, variable or macro to
name. Operators called `X_something` just before a definition `X` are *mutants*:
the same definition with a plausible bug, used to see that a property notices it.
They are not part of any specification.

**BootState.** `pc` is the position of `main()` / `bs_walk_state_machine`,
`current_phase` its phase; `callbacks`, `blockers`, `complete`, `num_samples` are
fields of `boot_states[]`. `EnterState`, `CallCallback`, `LeaveEntry`, `LeaveExit`
and `SpinBlocked` are the loop of `bs_call_callbacks` and the walker; `run_linear`,
`bs_os_resume_check`, `bs_os_resume`, `bs_payload_load` and `bs_payload_boot` are
the `run_state` functions, of which only the ones that choose a successor are
distinguished. Clients (`boot_state_sched`, `boot_state_block`,
`boot_state_unblock`) call wherever client code runs: inside a callback or a
`run_state`. The state functions' work on the hardware is left out.
`boot_state_sched_callback` tests only whether the state is complete: an entry callback for
the state that is running, scheduled from its `run_state` or exit phase, and one for a
state the walker has skipped, is accepted with 0 and never called. `late` records such
callbacks, and `PhasesClosed` says that they are the only ones left behind.

**ApStart.** Every access to a word that BSP and APs share is a step:
`secondary_stack`, `secondary_cpu_index`, `active_cpus`, the lock, the
`cpu_info` at the end of each stack. The local APIC, external, delivers a STARTUP
IPI or not. `Reliable` states what is assumed of it and of time: it
reports delivery truly, and an AP that got its IPI calls in before the second is
over. Without that assumption a late AP reads the mailbox of the next one
(`OwnStack` fails): the code has no defence against it.

**SpinLock.** The byte with width `2*HALF`; `decb`, the `cmpb` loop and the
store of `spin_unlock` are steps of each CPU.

**Cbmem.** `toc` is the table. `cbmem_init`, `cbmem_reinit`, `cbmem_add` and
the search are translated statement by statement, with the magic, the rounding to
512 bytes (`BLOCK`), the first-free-entry search and the shrinking of entry 0.
`cbmem_recovery_romstage` also adds the section of the CAR globals.

**S3Resume.** One action per step of the two stages, in `Boot`. Memory contents are
abstracted to *whose image they are*: the number of the sleep, or nothing. `Sleep(l)`
loses any part `l` of DRAM (the CBMEM region, the low memory); `Reset` may happen
in every state. A reset is assumed to clear `SLP_TYP`. Besides the sections of `write_tables` the table has
the GDT, the CAR globals of romstage and the console buffer of `cbmemc_reinit`.
`RoomAssumption` states that all of them fit the table and the region, as they do on the
board; `write_tables` itself takes no notice when one does not.

**AgesaHeap.** The heap is an array of words, and every list operation reads and
writes those words, so overlaps and lost nodes show as they would in memory.
The caller is any: lengths and the order of frees are free, as `heapManager.c` passes what AGESA
asks for. Three things the call-outs cannot do and do not test for: give a header to a
remainder smaller than one (`SmallRest`), take the first node off the list of buffers, and put
a node behind the last freed one, or into an empty free list (`OutOfOrder`). The step that does
one of these is taken like any other and recorded in `untested`; the properties hold up to it,
and the heap is not followed further until it is emptied. Without the record TLC breaks
`Locatable` and `HeapSound` at such steps: a small remainder's header runs into the next buffer, a
freed first buffer is still located, and a node freed into an empty list is linked in front of the manager.

**Setup.** A line of the boot order is a record with a length in bytes; the sector is
a packed list of which a prefix has been programmed. The keys of the menu are one
action each; a save is a probe, an erase, one step per word and the tail. `Boot`
is romstage's console decision, `SetupBootable` what
`get_mainboard_bootorder_table` makes of it. `PowerLoss` may happen anywhere. An
erase and a word write are taken as atomic and successful; `save_flash` ignores
their return values.

**RangeList, MemRange.** A list of `range_entry` is a sequence of records with the
first and the last address; the operations are recursive functions that follow the
loops with their early exits (`remove_memranges` stops at the first entry beyond the
range). `MemRange` takes every call of `memrange.h` as an action, and `PageMap` is the
abstract specification: each address has one tag or none, and the latest call that
covers it decides. `Fillable` is the caller's part of `memranges_fill_holes_up_to`:
something starts at address 0 and no hole begins at or above the limit. Without it the
code leaves the space below the first entry empty, or makes an entry that ends before
it begins. The recycling of entries through `free_list` is left out.

**SelfBoot.** Memory is an array of cells that hold part of coreboot, part of the
payload's file, zero, or what was there before. `AddToMap` inserts the ranges in the
order of `bootmem_init` and `write_coreboot_table`; then the segments are built,
checked against the map, cut where they meet coreboot, redirected into the bounce
buffer and copied or decompressed; `jmp_payload` moves coreboot's copy and the buffer.
The payload may return: coreboot is then copied back, and the last jump goes to a place that is off
by `adjust`. `boot.c` takes the address of the label in the original image (`$1f`) and subtracts
the distance of the copy from it once more, so the return would arrive (`pc` "back") only if
that distance were 0; it goes astray. `Roomy` is what the code takes for granted: from the end of payload
and coreboot to the end of the RAM below 4 GiB all is free, and there is room for the bounce
buffer and for what may be written below it; `Fits` adds that the payload is well formed.
Payloads outside it are in the run only where the check of the targets must refuse
them, and one that leaves no room for the buffer. A
segment that is cut loses the zeroing of its uninitialised part
(`PayloadInPlace` says so). An unknown compression (`load_self_segments`) and a segment of an
unknown type (`build_self_segment_list`, which stops there) return -1, which the callers' `!`
test takes for success; the payloads of the model have known ones.

**S3Flash.** A cell is two bytes. The chip is a NOR flash: an erase takes time
(`busy`), programming a cell that is not erased spoils it. A cold boot saves two
blocks and the MTRRs, sector by sector: probe, compare, erase, wait, program `TX` cells
at a time; a sector that already holds its bytes is left alone. The power fails between
any two commands. A chip that is not found, an erase that outlasts its time-out and a write
that fails (its enable, its command or its wait) are taken for success by the callers: the save goes
on, or returns early. `fault` notes such a boot, and
`DataBack` and `MtrrsBack` exempt it, since its wake-up reads what an earlier
boot left. The chip is assumed to finish an erase before the next cold boot gets to it, and
`FitAssumption` states that the blocks fit their regions: nothing in the code checks
that. A volatile block of size 0 is not saved; a wake-up then reads the old one, and no
property speaks of it.

**Resources.** A machine is the sequence of the resources of the domain in the order
in which `search_bus_resources` finds them. One action per turn of a loop:
`ComputeOne`, `ComputeEnd` (the first pass, from the leaves), `CutBack`
(`constrain_resources`), `Raise` (`dev_configure` moves the domain's memory up below its
limit), `AllocateOne`, `AllocateMisfit`, `AllocateEnd` (the second pass and the
registers of `pci_set_resource`), `RamRanges` (`domain_set_resources`). Ports are bytes,
memory is counted in units of 64 KB modulo `WIDTH`. The second pass never compares a
place with the window around it, which is what the properties are about. `Roomy` leaves out machines whose memory does not fit below the limit:
`Raise` does not look at the lower bound. The C6 region, the HT routing and the VGA
branch, which this tree cannot reach, are left out.

## 3. Runs

| run | result | shows |
|---|---|---|
| `bootstate` | pass | counters and samples stay in bounds (`Bounded`), a phase the walker has left keeps no block and no callback but an entry callback that came too late (`PhasesClosed`), what is complete stays as it is (`CompletedFrozen`), OS and payload get control after exactly the states before them (`HandoffOrder`), and the boot ends once no phase stays blocked (`BootEnds`) |
| `ap_start` | pass | every AP runs on its own stack as its own device (`OwnStack`), initialises alone, a failed CPU is not enabled and stacks suffice (`ApsInOrder`), no announced AP is missed by the final wait (`StopSeesAnnounced`), and the BSP gets through (`BspFinishes`) |
| `ap_race` | violation | the BSP can leave `wait_other_cpus_stop` while an AP that has called in has not yet counted itself |
| `spinlock` | pass | no wrap of the byte, refinement of `SingleCpu` and with it mutual exclusion, progress |
| `cbmem` | pass | sections are disjoint, inside the region and unique per id (`TableSound`), at least as large as asked for (`AddFits`), and never move (`SectionsStay`) |
| `s3_resume` | pass | the OS is resumed only in the memory it left (`WakeIsFaithful`), and is resumed whenever that memory survived (`KeptSleepWakes`); a boot that needs the scratch section finds it and none hangs (`BootSound`) |
| `heap` | pass | for any caller, up to the first step the code does not test for: buffers are disjoint (`BuffersDisjoint`) and can be located (`Locatable`), no word leaks, the free list is in order and every loop ends (`HeapSound`) |
| `setup` | pass | what was saved is what is read, settings take effect at the next boot, letters stay with their lines and no line is doubled or dropped (`MenuSound`), the chosen line goes on top |
| `memrange` | pass | the list stays ordered, page-aligned and merged (`ListSound`), and every call paints the map as `PageMap` says (`ImplementsMap`) |
| `payload` | pass | the map calls nothing RAM that is taken (`MapIsTrue`), the loader never writes over itself, and when the payload returns coreboot's image is put back whole, wherever the last jump then goes (`CorebootKept`), every byte is in its place at the jump (`PayloadInPlace`), and tables and reserved memory stay (`TablesKept`) |
| `s3_flash` | pass | what a boot saved stays complete (`FlashSound`), a wake-up gets the blocks and MTRRs of the boot that started the sleeping system (`DataBack`, `MtrrsBack`), and saving the same data again touches nothing (`SameDataNoWear`) |
| `resources` | pass | no two resources overlap (`NoneOverlaps`), each lies in the windows above it (`InTheirWindows`), no port has an alias (`NoAliases`), and RAM is reported around them, each where its device decodes (`MapSound`) |

The violation is the finding of `PROJECT.json`, with the comment of the repository
that it contradicts. To repeat a run:
`tlc -config Setup.cfg MCSetup` (module and file names are in `PROJECT.json`).

### Bounds

* `bootstate`: three callbacks, two of them static entries, two client calls in
  all, on the states where paths part or the hand-off happens. Two calls are
  enough to block and unblock, or to schedule and be called; a third repeats them.
* `ap_start`: a boot processor, three APs, a disabled and a non-APIC device. Three
  APs give a mailbox with a predecessor and a successor; the board has one AP.
* `spinlock`: four CPUs and a byte of six values, the largest number of CPUs that
  width allows (`WidthAssumption` is tight).
* `cbmem`: five ids, five entries, a region of nine units with blocks of two, and
  sizes from less than a block to more than two: table and region both fill up.
* `s3_resume`: three sleeps (`MaxSleeps`), so that an image older than the last one
  exists, and two resets (`MaxResets`), so that one can follow another.
* `heap`: 32 words, a manager of two and headers of three, four handles,
  lengths 3, 4 and 6: remainders of none, of too few and of enough words, a hole between
  buffers, a merge on either side, a reuse and a free list that is used up.
* `setup`: three of the seven devices (the fewest for which moving to the top
  differs from exchanging), both settings, two saves and one power failure at any
  point. Lines are shortened with their lengths modulo the word kept. The shipped
  file packs to 220 bytes, below the 256 from which the mask `0xFC` of `save_flash`
  would cut it.
* `memrange`: pages of two addresses and six of them, two tags, ranges of every position
  relative to a page: equal, inside, across, touching, and several entries at once.
* `payload`: 48 cells, pages of two, coreboot of four, RAM above 4 GiB (cell 44) too; payloads of one or two segments that lie
  below, across, inside, around and above it, into reserved memory and over the map's end;
  compressed and plain, with and without a zeroed rest; one leaves no room to bounce.
* `s3_flash`: sectors of eight cells, a volatile block of two, four different boots in any
  order (`MaxBoots` 3), two power failures (`MaxCuts`), two faults (`MaxFaults`), two sleeps
  (`MaxSleeps`): a torn save, a second torn save over it, and a boot that repairs both.
* `resources`: 432 port and 486 memory machines with the board's fixed resources and
  two levels of bridges, sizes from the smallest to one that fills the space (misfits).

Deadlock is checked except in `ap_start`, `ap_race`, `s3_resume`, `payload`, `s3_flash` and
`resources`: the processors may halt (an AP in `stop_this_cpu`, a wake-up in `for (;;)`),
a boot or an allocation is over, or the environment's bounded failures are used up.

### Fairness

* `BootState`: weak fairness of the walker, the only thread of the boot processor. A
  blocked phase spins, as the code does without a timer queue, and `BootEnds` asks
  for the end only when nothing stays blocked.
* `ApStart`: weak fairness of each processor; they run on their own clocks.
* `SpinLock`: weak fairness of a CPU inside `spin_lock` or the critical section;
  nobody has to call. Which waiter wins is left open, as the code's comment does.
* `S3Resume`: weak fairness of the boot; sleeps and resets are free.
* The other modules have only safety properties and no fairness: their loops are bounded
  by the lists they walk.

## 4. Proofs

| theorem | module | for every |
|---|---|---|
| `CountersBounded`, `PassedPhasesClosed`, `HandoffsInOrder`, `CompletedStatesFrozen` (and `TypeCorrect`, `SamplesFit`, `PassedPhasesDrained`, `PassedPhasesUnblocked`, their parts) | `BootStateProofs` | set of callbacks, static table, set of client states, number of calls |
| `StacksAreOwn`, `StartedInOrder`, `WaitSeesAnnounced` | `SmpProofs` | list of CPU devices, set of enabled ones, number of APs below `MAX_CPUS`, on a `Reliable` machine |
| `Mutex`, `ByteNeverWraps`, `Implementation` | `SmpProofs` | finite set of CPUs up to the byte's width (`WidthAssumption`) |
| `TableIsSound`, `AddsFit`, `SectionsDoStay` (and `TypeCorrect`, `SectionsDisjoint`, `IdsUnique`) | `CbmemProofs` | table size, block, region, set of ids and sizes |
| `WokenAsLeft`, `BootIsSound` | `S3ResumeProofs` | region, list of sections that fits it, number of sleeps and resets |
| `Disjointness`, `Lookup`, `Soundness` (and `Invariance`) | `AgesaHeapProofs` | heap size, set of handles, set of lengths, and every caller, up to the first step the code does not test for |
| `FlashIsSound`, `WakeUpGetsItsData`, `WakeUpRestoresMtrrs`, `SameDataIsNotWritten` (and `Invariance`) | `S3FlashProofs` | sector, transfer and region size, set of boots whose blocks fit, number of boots, power failures, faults and sleeps |
| `ListStaysSound`, `ListIsTheMap` (and `Invariance`) | `MemRangeProofs` | page size, limit, set of tags, bases and sizes, list of any length |
| `TableForPayload` | `MemRangeProofs` | page size, lists of RAM and reserved resources, however they overlap, and tables |
| `CorebootStays`, `PayloadArrives`, `TablesStay` | `MemRangeProofs` | the same, every place of coreboot, and every payload that `Fits` |
| `SaveIsRead`, `SettingsArrive`, `MenuIsSound`, `ChosenIsOnTop` (and `Invariance`) | `SetupProofs` | list of devices and line lengths that packs into 255 bytes, number of saves and power failures |

* **BootState.** The properties are not inductive: that a state takes at most four
  samples depends on where the walker is. `IInv` says what `pc`,
  `current_phase` and `next_id` imply: exactly the earlier states are complete
  (except `BS_OS_RESUME` on the normal path), how many samples each state has, that
  the successor is one of three legal ones, that the argument of a hand-off is set,
  and that in an exit phase the entry phase has no blocker left and only late callbacks. One lemma covers all steps inside
  a phase, one all returns of `run_state`. `FrozenStep` shows that no step, a client's
  included, changes the callbacks, blockers or samples of a completed state.
* **ApStart.** `OwnStack` alone says nothing of an AP in the trampoline. `IInv` has five
  parts: where the BSP is in its loop and which devices it will not pass over
  (`LoopInv`), who holds the lock (`LockInv`), that `last_cpu_index` counts the APs tried and
  `active_cpus` the APs announced and not gone (`CountInv`), what the two mailbox
  words hold while an AP is being started (`MailInv`), and for each AP that it is off, or
  is the one being started, or has called in on its own stack (`ApInv`). The
  assumption `Reliable` enters where `start_cpu` gives up: the AP was then never reached.
* **SpinLock.** `ByteInv`: the byte is 1 exactly when nobody holds the lock, and is at
  least one minus the number of CPUs that wait or hold. The second part, with the
  width of the byte, is what makes the machine's wrap-around unreachable.
* **Cbmem.** `TableOK(toc)`: entry 0 is the free space behind all sections, sections lie
  inside the region, later entries at higher addresses, ids are unique and the used
  entries are a prefix. Order and density are needed to know that the entry
  `cbmem_add` finds is behind all others.
* **S3Resume.** `WakeIsFaithful` speaks of one step of the boot. `IInv` follows the image from
  the sleep to the jump: the vector and the low memory until ramstage is loaded (`LowInv`), the
  backup after that (`KeptInv`), the agreement of the two stages (`StageInv`), and, when the high
  memory was lost, that the table is the empty one romstage made and so lacks the RESUME
  section, which is the only thing that stops the jump then (`LostInv`). That a kept table
  stays as it is needs the GDT in it (`Anchored`), or ramstage would add it.
  `BootIsSound` rests on `BootInv`: while the tables are written, either the table is complete
  already (a wake-up that was given up) or its entries are the GDT and the first `k - 1`
  sections in their order (`Filled`), and what is free is at least the region less the sum of
  their rounded sizes (`Need`). So the next section always finds an entry and room, the table
  is complete when the OS starts, and with it every table that a sleep keeps.
* **AgesaHeap.** `HeapInv`: the heap is empty, or the nodes of the two lists partition the words
  behind the manager (`Good`). A list is a set of nodes and a rank that grows along the next
  offsets, with nothing in between (`Chain`); for the free list the rank is the offset, for the
  list of buffers some order exists. The blocks tile the heap (`Tiles`), no two freed nodes are side
  by side and one reaches to the end of the heap (`Frees`), each buffer has a handle of its own
  (`Allocs`), and the live buffers are exactly the nodes of the first list (`Live`). `WalkChain` turns a
  list into what the loops of the code see: every node once, in order, and an end, because a
  walk climbs in rank. Each action is a sequence of writes of words; that a write
  reaches no header but the one meant follows from the tiling. Freeing goes through a heap in
  which the node is on neither list (`Half`) and one in which freed nodes may be side by side
  (`Loose`), so that joining in front and behind is one lemma used twice (`JoinedLoose`). The free list
  may be empty (`FreeList`). The invariant (`Settled`) is claimed while `untested` is false, so the proof shows that
  each step either is one of the untested or keeps it: without `SmallRest` the rest of a
  split node is nothing or holds its header; without `OutOfOrder` some freed node lies behind the one given back,
  which is why the loop that looks for its place ends there.
* **S3Flash.** The properties speak of the OS and the wake-up; the save in between is three
  nested loops. `IInv` has the numbers of the loops whether or not the chip answers (`LoopOK`);
  how far the save has come when it did (`Progress`: the regions before this one complete, this one
  begun up to `done + nvram_pos`, the rest of the sector blank, so that programming it cannot
  spoil a cell); that what is kept of the last whole save is what this boot has to save, and no
  step has begun to save it (`KeptOK`, from which `SameDataNoWear` follows); and what the
  running and the sleeping system have (`RunningOK`). Alignment is needed twice: of `done` to the
  sector, of `nvram_pos` to the transfer.
* **MemRange.** The invariant is short (`Sound`: entries of whole pages, in order, none that could
  go on in the next), the proof is in what the loops compute. For each recursive function
  of `RangeList` there is a lemma that it satisfies its equation (by a general lemma about
  recursion along a measure, `Recursive`), and one that says which addresses the
  result gives which tag (`Gives`), for a list of any length. `remove_memranges` may leave early
  because the list is in order, and goes on with a moved `begin`, which is harmless only because
  nothing lies between (`Ready`). With these, every call is a step of `PageMap`.
* **SelfBoot, the map.** `MapInv`: the map calls RAM exactly what is in a RAM resource and that none of the
  insertions made so far takes (`TrueBefore`). It is kept because RAM is inserted before
  all else (`RamFirst`) and an insertion decides every page it touches, so that what it takes
  stays taken; a RAM resource that ended inside a page would break it, and so would RAM inserted late.
* **SelfBoot, the loader.** `LoaderInv` says what holds in each phase of `pc`. A checked payload lies in
  free RAM or below 1 MiB (`Checked`); while its segments are entered the map still calls RAM all that is
  free above it (`Reserving`), and, because ranges that touch are merged, the highest region with room ends
  where the free RAM below 4 GiB does: that is where the buffer goes (`AllocateFact`), behind the payload and with
  free RAM below it (`Prepared`). In the loop every segment from `ptr` on is a piece of one of the payload
  (`Piece`: it stays, or is moved by the distance of the buffer to coreboot), and every cell of the file is where
  the loader puts it (`Done`: the shadow for a cell of coreboot's memory, else its place) or covered by a
  piece still to come (`Loading`). Cutting keeps that (`CutFact`: a cut segment is covered by its
  pieces), a turn that goes back only cuts, a turn that loads touches no cell done before
  (`DoneStays`, from the disjointness of the segments), and neither coreboot nor taken memory (`LoadFrame`).
  After the jump a cell of the payload holds what its shadow held (`JumpFact`), and
  the copy of coreboot, above the payload, survives its run (`ReturnFact`, `RestoreFact`). Nothing is
  claimed of where the return goes on.
* **Setup.** `IInv`: every list in memory or in the sector is one the menu can show, with each
  device once, each letter beside its line and a packed length bounded by that of the
  shipped list (`Lists`); what the sector holds before, during and after a save (`Sector`); the payload
  works on all of the list (`Whole`); the settings are in their lines (`Settings`). The
  bound is itself invariant: moving a line keeps the sum of the lengths, a
  restore gives lines no longer than the shipped ones, and what a power failure leaves is a prefix.
  Below 256 the mask `0xFC` takes nothing away, so the tail, which is always a whole word,
  ends at or behind the packed length.

`MemRangeProofs`, `SetupProofs`, `S3ResumeProofs` and `AgesaHeapProofs` meet recursive functions. The library's induction theorems cannot be used; each such fact is proved
from a smallest counterexample (`WFMin` on the natural numbers), which is first-order.

Assumptions are the named `ASSUME`s of the modules: constants are of their types, the
table has at least two entries, the region is not inverted (and holds the GDT, in `S3Resume`),
ids differ from the two markers, the heap holds its manager, there are no more CPUs than the byte can
count. The theorems about `ApStart` have `Reliable`, and those about the
loader `Fits(payload)` as a hypothesis; the instances of the runs satisfy the first, and TLC finds payloads
of the run that fit (an assumption of `MCSelfBoot`). A few assumptions say what the
code takes for granted and the board provides: the sections of `write_tables` fit
(`S3Resume.RoomAssumption`), regions are whole sectors and the blocks fit them (`RegionAssumption`,
`FitAssumption` of `S3Flash`), pages have more than one address and the limit is a multiple of them
(`PageAssumption`, `MapAssumption`), the shipped boot order names each device once and packs into
less than 256 bytes (`DevicesAssumption`, `FitAssumption` of `Setup`), RAM comes in whole pages and
tables above 1 MiB are in CBMEM (`AreasAssumption` of `SelfBoot`), all of them lie within the memory and
coreboot runs in RAM at or above 1 MiB that nothing else takes (`MemoryAssumption`). TLC evaluates all of
them on the instances of the runs.

Only model-checked: all liveness (`BootEnds`, `BspFinishes`, `SomeoneGetsIt`,
`KeptSleepWakes`), which is out of the prover's reach; that `TablesKept` and `CorebootKept` hold for the payloads of the run that do
not fit; and `Resources` (`NoneOverlaps`,
`InTheirWindows`, `NoAliases`, `MapSound`), where each property rests on the order in which
`largest_resource` takes the resources of a bus: that a finite set has a sorted sequence is an
induction over data.

## 5. What is not modelled

* Register programming, PCI configuration, GPIOs, SPD, memory training, formatting and
  table layout: no control worth checking, or hardware whose answers the code obeys.
* Vendor code (AGESA, CIMx) and third-party payloads; what the code relies on of them is
  an assumption of the module that uses it.
* Contents of CBMEM sections: `write_tables` adds the boot order section with
  `0x400` bytes and copies the whole file into it; as the last section this reaches
  only the free rest of the region.
* Bits left by a failed flash erase, reads of memory behind an unterminated boot
  order file, uninitialised characters behind a line of the menu.
* A region too small for the S3 sections: `tables.c` announces that resume is then
  disabled, but the next wake-up finds no section and stops in `for (;;)`. `RoomAssumption`
  leaves such a region out; on the board they fit.

* Known limits of the code that a history variable of a module records: entry callbacks that
  `boot_state_sched_on_entry` accepts when the phase is over and nobody calls (`late`), although
  0 is "success" for a callback "to be called on entry/exit to a given state" (`bootstate.h`); the untested steps of
  the AGESA heap (`untested`), among them a first allocation, which is not compared with the heap's size;
  a chip that fails a save (`fault`). And the return of a payload that was bounced does not arrive (`adjust`),
  although `selfboot.c` moves coreboot so that it can be returned to.
* Known limits that the modules keep out by an assumption or a bound: a boot order of 256 bytes or more is cut by the mask of `save_flash` (`FitAssumption` of `Setup`); `save_flash` ignores
  errors of the chip; the column and row checks of the menu come after the index is used.
* CMOS options: the options this board reads and writes are fields of one byte, for which
  the loop of `set_cmos_value` runs once.
* `mtrr.c`: not called on this board, `model_14_init` leaves the variable MTRRs to AGESA.

Most of the repository's lines are vendored (AGESA, CIMx, iPXE, libpayload, memtest86+) or
belong to boards and chips that this image does not build. The modules cover the parts of
the image that are its own and have control; the share of all lines in the repository
stays below one percent whatever is added.

Hazards that no property covers yet are in `PROJECT.json` with the reason.

## 6. Plan

Done, in the order of what the machine cannot do without: `BootState`, `SpinLock`,
`ApStart`, `Cbmem`, `S3Resume`, `AgesaHeap`, `Setup`; then `MemRange` with its abstract
`PageMap`, `SelfBoot` on the same list operations, `S3Flash`, `Resources`; the proofs about
all of them but `Resources`. Next:

1. `S3Flash` composed with `S3Resume`: a wake-up that reads stale data and one that is refused.
2. The enumeration of `device.c` (`scan_bus`, `enable_resources`), whose callbacks belong to
   drivers.
