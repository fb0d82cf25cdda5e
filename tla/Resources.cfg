SPECIFICATION Spec
CONSTANTS
    Machines <- MCMachines
    WIDTH = 1048576
INVARIANTS NoneOverlaps InTheirWindows NoAliases MapSound
CHECK_DEADLOCK FALSE
