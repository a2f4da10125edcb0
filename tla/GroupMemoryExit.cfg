CONSTANTS
    ALIGNMENT = 2
    HEADER_SIZE = 2
    MIN_BLOCK_SIZE = 2
    MAX_BLOCKS = 5
    TOTAL = 24
    FIRST = 2
    NODE = 2
    Sizes = {1, 4}
SPECIFICATION SpecExit
INVARIANT LiveDisjoint
