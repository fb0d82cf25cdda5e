----------------------------- MODULE MCSelfBoot -----------------------------
EXTENDS SelfBoot

\* Two cells to a page: tables and VGA below 1 MiB (cell 4), RAM with coreboot
\* at 8..11, a reserved hole that overlaps it, CBMEM at the top, RAM above 4 GiB.
MC_Cacheable == << <<0, 44>>, <<44, 4>> >>
MC_Reserved == << <<2, 2>>, <<40, 3>> >>
MC_Cbmem == <<38, 2>>
MC_Low == <<0, 1>>
MC_Rom == <<3, 1>>

Segments(off) ==
    { s \in [type : {"code", "bss"}, load_addr : {1, 2, 6, 7, 9, 11, 13, 37, 39}, mem_len : {1, 3, 6},
             len : {1, 3}, offset : {off}, compression : {NONE, LZMA}, out : {0, 1, 3}] :
        /\ s.out <= s.mem_len
        /\ s.compression = NONE => s.out = 0
        /\ s.type = "bss" => s.compression = NONE /\ s.len = 1
        /\ s.compression = LZMA => s.len = 1 }

\* A second segment below 1 MiB, in coreboot's memory, or right behind it.
Second ==
    {s \in Segments(20) : /\ s.load_addr \in {2, 9, 13} /\ s.mem_len \in {1, 3}
                          /\ s.out # 0 \/ s.compression = NONE}

\* One that leaves no room for a bounce buffer.
Huge == [type |-> "code", load_addr |-> 6, mem_len |-> 24, len |-> 1, offset |-> 10,
         compression |-> LZMA, out |-> 3]

MC_Payloads ==
    { p \in {<<s>> : s \in Segments(10)} \cup {<<s, t>> : s \in Segments(10), t \in Second} :
        Fits(p) \/ p[1].load_addr \in {37, 39} }
    \cup {<<Huge>>}

ASSUME \E p \in MC_Payloads : Fits(p)
=============================================================================
