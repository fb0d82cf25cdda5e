SPECIFICATION Spec
CONSTANTS
    Ids = {"gdt", "acpi", "resume", "scratch", "bootorder", "car", "console"}
    MAX_CBMEM_ENTRIES = 8
    BLOCK = 2
    Start = 2
    End = 24
    Sizes <- MCSizes
    GDT = "gdt"
    CAR_GLOBALS = "car"
    CONSOLE = "console"
    ConsoleSize = 3
    RESUME = "resume"
    SCRATCH = "scratch"
    ACPI = "acpi"
    BOOTORDER = "bootorder"
    Tables <- MCTables
    MaxSleeps = 3
    MaxResets = 2
INVARIANTS WakeIsFaithful BootSound
PROPERTIES KeptSleepWakes
CHECK_DEADLOCK FALSE
