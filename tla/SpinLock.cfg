SPECIFICATION LockSpec
CONSTANTS
    Cpus = {c1, c2, c3, c4}
    HALF = 3
INVARIANTS NoWrap
PROPERTIES ImplementsLock SomeoneGetsIt
