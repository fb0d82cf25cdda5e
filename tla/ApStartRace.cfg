SPECIFICATION Spec
CONSTANTS
    bsp = bsp
    ap1 = ap1
    ap2 = ap2
    ap3 = ap3
    disabled = disabled
    other = other
    Children <- MCChildren
    Apic <- MCApic
    Enabled <- MCEnabled
    Bsp = bsp
    MAX_CPUS = 4
    Reliable = TRUE
CHECK_DEADLOCK FALSE
INVARIANT
    AllStopped
