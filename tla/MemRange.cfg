SPECIFICATION RangesSpec
CONSTANTS
    PAGE = 2
    LIMIT = 12
    Tags = {ram, reserved}
    None = none
    Bases = {0, 2, 3, 4, 7, 8, 10}
    Sizes = {1, 2, 4, 5}
INVARIANTS ListSound
PROPERTIES ImplementsMap
