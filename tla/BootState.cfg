SPECIFICATION Spec
CONSTANTS
    c1 = c1
    c2 = c2
    c3 = c3
    Callbacks <- MCCallbacks
    StaticEntries <- MCStaticEntries
    ClientStates <- MCClientStates
    MaxCalls = 2
INVARIANTS Bounded PhasesClosed HandoffOrder
PROPERTIES CompletedFrozen BootEnds
