SPECIFICATION Spec
CONSTANTS
    PAGE = 2
    Tags = {"LB_MEM_RAM", "LB_MEM_UNUSABLE", "LB_MEM_TABLE", "LB_MEM_RESERVED"}
    TOP = 48
    one_meg = 4
    max_addr = 44
    lb_start = 8
    lb_end = 12
    behind_call = 10
    Cacheable <- MC_Cacheable
    Reserved <- MC_Reserved
    CbmemArea <- MC_Cbmem
    LowTables <- MC_Low
    RomTables <- MC_Rom
    Payloads <- MC_Payloads
CHECK_DEADLOCK FALSE
INVARIANTS MapIsTrue CorebootKept PayloadInPlace TablesKept
