SPECIFICATION Spec
CONSTANTS
    HEAP_SIZE = 32
    Handles = {101, 102, 103, 104}
    Lengths = {3, 4, 6}
INVARIANTS BuffersDisjoint Locatable HeapSound
