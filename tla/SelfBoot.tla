------------------------------ MODULE SelfBoot ------------------------------
(***************************************************************************)
(* The boot memory map (src/src/lib/bootmem.c, filled by                   *)
(* src/src/lib/coreboot_table.c), the payload loader                       *)
(* (src/src/lib/selfboot.c) and the jump to the payload                    *)
(* (src/src/arch/x86/boot/boot.c), on a memory of cells.                   *)
(*                                                                         *)
(* The payload may want the very memory coreboot runs in.  The part of it  *)
(* that does is loaded into a bounce buffer and moved to its place last,   *)
(* by a copy of coreboot in the upper half of the buffer.                  *)
(***************************************************************************)
EXTENDS RangeList, FiniteSetsExt

CONSTANTS
    TOP,            \* the cells are 0 .. TOP - 1
    one_meg,        \* 1 << 20
    max_addr,       \* 1 << 32
    lb_start, lb_end,   \* coreboot's own image: _ram_seg, _eram_seg
    behind_call,    \* where jmp_payload goes on once the payload has returned
    Cacheable, Reserved, \* the memory resources: <<base, size>>, by flag
    CbmemArea, LowTables, RomTables,    \* <<base, size>>
    Payloads        \* sequences of cbfs_payload_segment

VARIABLES
    pc,
    mem,            \* what each cell holds
    bootmem,        \* the map, a list of ranges
    table,          \* the map in the coreboot table, for the payload
    payload,        \* the payload in flash
    segs,           \* the list of segments, from head.next on
    ptr,            \* the range or segment the current loop is at
    bounce_buffer, bounce_size

vars == <<pc, mem, bootmem, table, payload, segs, ptr, bounce_buffer, bounce_size>>

Cells == 0 .. TOP - 1
Coreboot == lb_start .. lb_end - 1
lb_size == lb_end - lb_start
Area(a) == a[1] .. a[1] + a[2] - 1

\* Contents: of coreboot, of the payload's file, zero, and the rest.
Image(a) == <<"coreboot", a - lb_start>>
Data(src) == <<"data", src>>
Zero == <<"zero">>
Old(a) == IF a \in Coreboot THEN Image(a) ELSE <<"old", a>>

NONE == "none"      \* CBFS_COMPRESS_NONE
LZMA == "lzma"

-----------------------------------------------------------------------------
(***************************************************************************)
(* bootmem.c                                                               *)
(***************************************************************************)
RAM == "LB_MEM_RAM"
UNUSABLE == "LB_MEM_UNUSABLE"
TABLE == "LB_MEM_TABLE"
RESERVED == "LB_MEM_RESERVED"

\* The areas that take memory from RAM, by whole pages, and the RAM that is
\* left.
Taken ==
    {CbmemArea, LowTables} \cup {Reserved[i] : i \in DOMAIN Reserved}
      \cup (IF RomTables[1] + RomTables[2] <= one_meg THEN {RomTables} ELSE {})
Pages(a) == IF a[2] = 0 THEN {} ELSE Begin(a[1]) .. End(a[1], a[2])
FreeRam ==
    {a \in Cells : /\ \E i \in DOMAIN Cacheable : a \in Area(Cacheable[i])
                   /\ \A t \in Taken : a \notin Pages(t)}

\* The resources and tables are areas of memory, RAM comes in whole pages (its
\* bounds are bounds of the DRAM map, of the VGA hole and of PCI memory), and
\* tables that are not below 1 MiB are high tables, in CBMEM.
ASSUME AreasAssumption ==
    /\ {RAM, UNUSABLE, TABLE, RESERVED} \subseteq Tags
    /\ Cacheable \in Seq(Nat \X Nat) /\ Reserved \in Seq(Nat \X Nat)
    /\ {CbmemArea, LowTables, RomTables} \subseteq Nat \X Nat
    /\ \A i \in 1 .. Len(Cacheable) :
            Cacheable[i][1] % PAGE = 0 /\ Cacheable[i][2] % PAGE = 0
    /\ TOP \in Nat /\ one_meg \in Nat
    /\ \/ RomTables[1] + RomTables[2] <= one_meg
       \/ Area(RomTables) \subseteq Area(CbmemArea)

\* They lie within the memory, and coreboot runs in RAM at or above 1 MiB that
\* nothing takes.
ASSUME MemoryAssumption ==
    /\ TOP % PAGE = 0
    /\ \A i \in DOMAIN Cacheable : Cacheable[i][1] + Cacheable[i][2] <= TOP
    /\ \A a \in Taken : a[1] + a[2] <= TOP
    /\ {max_addr, lb_start, lb_end} \subseteq Nat
    /\ one_meg <= lb_start /\ lb_start < lb_end
    /\ Coreboot \subseteq FreeRam /\ behind_call \in Coreboot

bootmem_add_range(map, start, size, type) == memranges_insert(map, start, size, type)

\* Mutant: RAM is added behind the reserved resources.
bootmem_plan_ram_last ==
    [i \in DOMAIN Reserved |-> <<Reserved[i], RESERVED>>]
      \o [i \in DOMAIN Cacheable |-> <<Cacheable[i], RAM>>]
      \o << <<CbmemArea, TABLE>>, <<LowTables, TABLE>> >>
      \o (IF RomTables[1] + RomTables[2] <= one_meg THEN << <<RomTables, TABLE>> >> ELSE <<>>)

\* The ranges in the order in which bootmem_init (the resources by flag,
\* then cbmem_add_bootmem) and write_coreboot_table insert them.
bootmem_plan ==
    [i \in DOMAIN Cacheable |-> <<Cacheable[i], RAM>>]
      \o [i \in DOMAIN Reserved |-> <<Reserved[i], RESERVED>>]
      \o << <<CbmemArea, TABLE>>, <<LowTables, TABLE>> >>
      \o (IF RomTables[1] + RomTables[2] <= one_meg THEN << <<RomTables, TABLE>> >> ELSE <<>>)

bootmem_region_targets_usable_ram(map, start, size) ==
    \E i \in DOMAIN map :
        /\ \A j \in 1 .. i : start + size > map[j].begin
        /\ start >= map[i].begin /\ start + size <= range_entry_end(map[i])
        /\ map[i].tag = RAM

\* The highest region that has room; its address or 0.
bootmem_allocate_buffer(map, size) ==
    LET End_(r) == IF range_entry_end(r) > max_addr THEN max_addr ELSE range_entry_end(r)
        fits == {i \in DOMAIN map : /\ map[i].tag = RAM
                                    /\ map[i].begin < max_addr
                                    /\ End_(map[i]) - map[i].begin >= ALIGN_UP(size)}
    IN  IF fits = {} THEN 0 ELSE End_(map[Max(fits)]) - ALIGN_UP(size)

-----------------------------------------------------------------------------
(***************************************************************************)
(* selfboot.c                                                              *)
(***************************************************************************)
\* A segment as build_self_segment_list makes it.  The source addresses are
\* those of the flash, above every load address, so each new segment goes to
\* the end of the list.
segment(s) ==
    [dstaddr |-> s.load_addr, srcaddr |-> s.offset, memsz |-> s.mem_len,
     filesz |-> IF s.type = "bss" THEN 0 ELSE IF s.len > s.mem_len THEN s.mem_len ELSE s.len,
     compression |-> s.compression, out |-> s.out]

\* Mutant: the end of coreboot is taken to be its last cell.
overlaps_coreboot_short(seg) ==
    ~(seg.dstaddr + seg.memsz <= lb_start \/ seg.dstaddr >= lb_end - 1)

overlaps_coreboot(seg) ==
    ~(seg.dstaddr + seg.memsz <= lb_start \/ seg.dstaddr >= lb_end)

\* seg cut at len: the part before and the part from there on.
Before(seg, len) ==
    [seg EXCEPT !.memsz = len, !.filesz = IF seg.filesz > len THEN len ELSE seg.filesz]
From(seg, len) ==
    [seg EXCEPT !.memsz = @ - len, !.dstaddr = @ + len, !.srcaddr = @ + len,
                !.filesz = IF seg.filesz > len THEN seg.filesz - len ELSE 0]

\* relocate_segment: the segments that seg becomes.  One that is compressed
\* cannot be cut and moves as a whole.
relocate_segment(seg) ==
    LET cut == seg.compression = NONE
        early == cut /\ seg.dstaddr < lb_start
        rest == IF early THEN From(seg, lb_start - seg.dstaddr) ELSE seg
        late == cut /\ rest.dstaddr + rest.memsz > lb_end
        inner == IF late THEN Before(rest, lb_end - rest.dstaddr) ELSE rest
        moved == [inner EXCEPT !.dstaddr = bounce_buffer + (@ - lb_start)]
    IN  (IF early THEN <<Before(seg, lb_start - seg.dstaddr)>> ELSE <<>>)
          \o <<moved>>
          \o (IF late THEN <<From(rest, lb_end - rest.dstaddr)>> ELSE <<>>)

memcpy(m, to, from, n) ==
    [a \in Cells |-> IF a \in to .. to + n - 1 THEN m[from + (a - to)] ELSE m[a]]

\* The copy or the decompression, and the cells behind it zeroed.
Copied(m, seg) ==
    LET len == IF seg.compression = LZMA THEN seg.out ELSE seg.filesz
    IN  [a \in Cells |->
            CASE a \in seg.dstaddr .. seg.dstaddr + len - 1 -> Data(seg.srcaddr + (a - seg.dstaddr))
              [] a \in seg.dstaddr + len .. seg.dstaddr + seg.memsz - 1 -> Zero
              [] OTHER -> m[a]]

\* Mutant: nothing that sticks out of the buffer is moved to its place.
MovedAround_not(m, seg) == m

\* What sticks out of the part of the buffer that shadows coreboot is moved
\* around it.
MovedAround(m, seg) ==
    LET end == seg.dstaddr + seg.memsz
        shadow == bounce_buffer + lb_size
        low == IF seg.dstaddr < bounce_buffer
               THEN memcpy(m, lb_start - (bounce_buffer - seg.dstaddr), seg.dstaddr,
                           bounce_buffer - seg.dstaddr)
               ELSE m
    IN  IF end <= bounce_buffer THEN m
        ELSE IF end > shadow THEN memcpy(low, lb_end, shadow, end - shadow)
        ELSE low

-----------------------------------------------------------------------------
(***************************************************************************)
(* The steps of one boot                                                   *)
(***************************************************************************)
\* What the payload wants where, and how high it goes.
Wanted(p) == {i \in DOMAIN p : p[i].type # "bss"}
Span(s) == s.load_addr .. s.load_addr + s.mem_len - 1
PayloadTop(p) == Max({lb_end} \cup {p[i].load_addr + p[i].mem_len : i \in DOMAIN p})

\* Nothing here fits a machine whose RAM is hardly larger than payload and
\* coreboot: the map does not know coreboot's own memory, a compressed
\* segment that begins below coreboot is first written below the buffer, and
\* one that lies above the buffer is taken for one that sticks out of it.
\* The board's memory is a thousand times larger: from the end of payload and
\* coreboot to the end of the RAM below 4 GiB, where CBMEM begins, all is free,
\* and that is room for the buffer and for what may be written below it.
Roomy(p) ==
    LET top == PayloadTop(p)
        free == ALIGN_UP(top)
    IN  \E end \in 0 .. max_addr :
            /\ free + lb_start + ALIGN_UP((top - lb_start) + lb_size) <= end
            /\ free .. end - 1 \subseteq FreeRam
            /\ (end .. max_addr - 1) \cap FreeRam = {}

\* A payload that is well formed and has room: no segment is empty, none but a
\* bss is without data, and no two want the same cell.
Segment ==
    [type : {"code", "data", "bss"}, load_addr : Nat, mem_len : Nat \ {0}, len : Nat,
     offset : Nat, compression : {NONE, LZMA}, out : Nat]
Fits(p) ==
    /\ p \in Seq(Segment)
    /\ \A i \in DOMAIN p : p[i].out <= p[i].mem_len
    /\ \A i \in Wanted(p) : p[i].len # 0
    /\ \A i, j \in DOMAIN p : i # j => Span(p[i]) \cap Span(p[j]) = {}
    /\ Roomy(p)

Init ==
    /\ pc = "tables"
    /\ mem = [a \in Cells |-> Old(a)]
    /\ bootmem = <<>> /\ table = <<>>
    /\ payload \in Payloads
    /\ segs = <<>> /\ ptr = 1
    /\ bounce_buffer = 0 /\ bounce_size = 0

\* One more range is inserted into the map; a resource without a size is
\* skipped (collect_ranges).
AddToMap ==
    /\ pc = "tables" /\ ptr <= Len(bootmem_plan)
    /\ LET r == bootmem_plan[ptr][1]
       IN  bootmem' = IF r[2] = 0 THEN bootmem
                      ELSE bootmem_add_range(bootmem, r[1], r[2], bootmem_plan[ptr][2])
    /\ ptr' = ptr + 1
    /\ UNCHANGED <<pc, mem, table, payload, segs, bounce_buffer, bounce_size>>

\* The map as the payload will find it.
bootmem_write_memory_table ==
    /\ pc = "tables" /\ ptr > Len(bootmem_plan)
    /\ pc' = "build"
    /\ table' = bootmem
    /\ UNCHANGED <<mem, bootmem, payload, segs, ptr, bounce_buffer, bounce_size>>

build_self_segment_list ==
    /\ pc = "build" /\ pc' = "check"
    /\ segs' = [i \in DOMAIN payload |-> segment(payload[i])]
    /\ ptr' = 1
    /\ UNCHANGED <<mem, bootmem, table, payload, bounce_buffer, bounce_size>>

\* Mutant: only the beginning of a segment has to be RAM.
TargetsRam_start(seg) ==
    \/ bootmem_region_targets_usable_ram(bootmem, seg.dstaddr, 1)
    \/ seg.dstaddr < one_meg /\ seg.dstaddr + seg.memsz <= one_meg

\* Below 1 MiB everything may be overwritten.
TargetsRam(seg) ==
    \/ bootmem_region_targets_usable_ram(bootmem, seg.dstaddr, seg.memsz)
    \/ seg.dstaddr < one_meg /\ seg.dstaddr + seg.memsz <= one_meg

check_segments ==
    /\ pc = "check"
    /\ pc' = IF \A i \in DOMAIN segs : TargetsRam(segs[i]) THEN "reserve" ELSE "failed"
    /\ UNCHANGED <<mem, bootmem, table, payload, segs, ptr, bounce_buffer, bounce_size>>

\* The segments are entered into the map before a buffer is allocated.
reserve_segment ==
    /\ pc = "reserve" /\ ptr <= Len(segs)
    /\ bootmem' = bootmem_add_range(bootmem, segs[ptr].dstaddr, segs[ptr].memsz, UNUSABLE)
    /\ ptr' = ptr + 1
    /\ UNCHANGED <<pc, mem, table, payload, segs, bounce_buffer, bounce_size>>

\* Room for what shadows coreboot or sticks out above, and for a copy of
\* coreboot.
get_bounce_buffer ==
    /\ pc = "reserve" /\ ptr > Len(segs)
    /\ LET over == {i \in DOMAIN segs : overlaps_coreboot(segs[i])}
           high == Max({lb_end} \cup {segs[i].dstaddr + segs[i].memsz : i \in over})
           size == (high - lb_start) + lb_size
           buffer == bootmem_allocate_buffer(bootmem, size)
       IN  /\ bounce_buffer' = buffer /\ bounce_size' = high - lb_start
           /\ bootmem' = IF buffer = 0 THEN bootmem
                         ELSE bootmem_add_range(bootmem, buffer, ALIGN_UP(size), UNUSABLE)
           /\ pc' = IF buffer = 0 THEN "failed" ELSE "load"
    /\ ptr' = 1
    /\ UNCHANGED <<mem, table, payload, segs>>

\* The list with the segment at ptr replaced by its pieces.
Linked(pieces) == SubSeq(segs, 1, ptr - 1) \o pieces \o SubSeq(segs, ptr + 1, Len(segs))

\* One turn of the loading loop.  If a piece was cut off at the beginning, the
\* loop goes back to it first.  A segment without data in the file is left as
\* it is.
load_self_segment ==
    /\ pc = "load" /\ ptr <= Len(segs)
    /\ LET seg == segs[ptr]
           pieces == IF overlaps_coreboot(seg) THEN relocate_segment(seg) ELSE <<seg>>
           back == Len(pieces) > 1 /\ pieces[1].dstaddr = seg.dstaddr
           now == pieces[1]
           corrupt == now.filesz # 0 /\ now.compression = LZMA /\ now.out = 0
       IN  /\ segs' = Linked(pieces)
           /\ ptr' = IF back THEN ptr ELSE ptr + 1
           /\ mem' = IF back \/ now.filesz = 0 \/ corrupt THEN mem
                     ELSE MovedAround(Copied(mem, now), now)
           /\ pc' = IF ~back /\ corrupt THEN "failed" ELSE "load"
    /\ UNCHANGED <<bootmem, table, payload, bounce_buffer, bounce_size>>

\* jmp_payload: coreboot is copied behind its shadow, and the copy moves the
\* shadow to its place.
adjust == (bounce_buffer + lb_size) - lb_start
Jump_first(m) == memcpy(m, bounce_buffer + lb_size, lb_start, lb_size)
Jump_then(m) == memcpy(m, lb_start, bounce_buffer, lb_size)

jmp_payload ==
    /\ pc = "load" /\ ptr > Len(segs) /\ pc' = "payload"
    /\ mem' = Jump_then(Jump_first(mem))
    /\ UNCHANGED <<bootmem, table, payload, segs, ptr, bounce_buffer, bounce_size>>

\* The payload, external, writes to its own memory and returns.
PayloadReturns ==
    /\ pc = "payload" /\ pc' = "returned"
    /\ mem' = [a \in Cells |->
                IF \E i \in DOMAIN payload : a \in Span(payload[i]) THEN <<"payload">>
                ELSE mem[a]]
    /\ UNCHANGED <<bootmem, table, payload, segs, ptr, bounce_buffer, bounce_size>>

\* jmp_payload, behind the call: coreboot is put back from the copy, and the
\* copy jumps.  The address it takes is the label's in the original image, to
\* which it then applies the adjustment from copy to original once more; all
\* are below 4 GiB, so only an adjustment of 0 would lead to the label.
restore_coreboot ==
    /\ pc = "returned"
    /\ pc' = IF behind_call - adjust = behind_call THEN "back" ELSE "astray"
    /\ mem' = memcpy(mem, lb_start, bounce_buffer + lb_size, lb_size)
    /\ UNCHANGED <<bootmem, table, payload, segs, ptr, bounce_buffer, bounce_size>>

Next ==
    \/ AddToMap \/ bootmem_write_memory_table
    \/ build_self_segment_list \/ check_segments
    \/ reserve_segment \/ get_bounce_buffer \/ load_self_segment \/ jmp_payload
    \/ PayloadReturns \/ restore_coreboot

Spec == Init /\ [][Next]_vars

-----------------------------------------------------------------------------
TypeOK ==
    /\ pc \in {"tables", "build", "check", "reserve", "load", "payload", "returned",
               "back", "astray", "failed"}
    /\ bounce_buffer \in Cells /\ ptr \in Nat
    /\ \A i \in DOMAIN bootmem : bootmem[i].begin \in Cells /\ bootmem[i].end \in Cells

\* The map given to the payload calls nothing RAM that is reserved or holds
\* tables, however the resources overlap, and nothing that is not RAM.
MapIsTrue ==
    pc # "tables" =>
        \A a \in Cells :
            LET ram == \E i \in DOMAIN table :
                            table[i].tag = RAM /\ table[i].begin <= a /\ a <= table[i].end
                taken == a \in Area(CbmemArea) \cup Area(LowTables) \cup Area(RomTables)
                            \cup UNION {Area(Reserved[i]) : i \in DOMAIN Reserved}
            IN  /\ ram => ~taken
                /\ ram => \E i \in DOMAIN Cacheable : a \in Area(Cacheable[i])

\* The loader writes nothing over the code it runs from, whichever segments
\* want that memory: coreboot is whole until the jump.
CorebootIsWhole ==
    pc \in {"tables", "build", "check", "reserve", "load", "failed"} =>
        \A a \in Coreboot : mem[a] = Image(a)

\* When the payload is entered each cell of its file is where it belongs,
\* however the segment was cut, bounced and moved around; and the cells
\* behind the data are zero, for a segment that was not cut.
PayloadInPlace ==
    pc = "payload" =>
        \A i \in Wanted(payload) :
            LET s == payload[i]
                len == IF s.compression = LZMA THEN s.out ELSE segment(s).filesz
            IN  \A k \in 0 .. s.mem_len - 1 :
                    /\ k < len => mem[s.load_addr + k] = Data(s.offset + k)
                    /\ k >= len /\ (s.compression = LZMA \/ ~overlaps_coreboot(segment(s)))
                            => mem[s.load_addr + k] = Zero

\* Reserved memory and tables above 1 MiB are never written: neither by a
\* segment, nor by the buffer, nor by what is moved around it.
TablesKept ==
    \A a \in {c \in Cells : c >= one_meg} :
        ( \/ a \in Area(CbmemArea)
          \/ \E i \in DOMAIN Reserved : a \in Area(Reserved[i]) )
        => mem[a] = Old(a)

\* The copy survives the payload's run, and every cell of coreboot is put back
\* from it.  That is all that is left of "Coreboot is preserved, so it can be
\* returned to" (selfboot.c): the jump behind the copying does not lead to
\* coreboot's code, wherever the buffer is.
CorebootPutBack ==
    /\ pc \in {"back", "astray"} => \A a \in Coreboot : mem[a] = Image(a)
    /\ pc # "back"

\* Coreboot's memory survives the payload, before, during and after its run;
\* control does not come back to it.
CorebootKept == TypeOK /\ CorebootIsWhole /\ CorebootPutBack

=============================================================================
