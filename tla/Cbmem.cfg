SPECIFICATION Spec
CONSTANTS
    Ids = {"gdt", "acpi", "resume", "cbtable", "car"}
    MAX_CBMEM_ENTRIES = 5
    BLOCK = 2
    Start = 2
    End = 11
    Sizes = {1, 2, 3, 5}
    GDT = "gdt"
    CAR_GLOBALS = "car"
INVARIANTS TableSound
PROPERTIES AddFits SectionsStay
