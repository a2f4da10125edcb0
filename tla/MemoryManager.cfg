CONSTANTS
    TOTAL = 32
    ALIGNMENT = 2
    GROUP_HEADER = 2
    GROUP_MIN_BLOCK = 2
    MAX_BLOCKS = 5
    FIRST = 2
    GroupSizes = {0, 1, 3, 4, 7}
    BUDDY_HEADER = 1
    BUDDY_MIN_BLOCK = 2
    MAX_ORDER = 3
    BuddySizes = {0, 1, 2, 5, 20}
SPECIFICATION Spec
INVARIANTS TypeOK BlocksExact FreeListsExact NeighboursMerged InfoExact LiveDisjoint
PROPERTY ImplementsHeap
