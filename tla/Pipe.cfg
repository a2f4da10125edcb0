CONSTANTS
    MAX_PIPES = 2
    MAX_FDS = 4
    MAX_BUFF = 2
    BUFFER_SIZE = 2
    Kids = {3, 4}
    MaxAhead = 1
    NULL = NULL
SPECIFICATION Spec
CHECK_DEADLOCK FALSE
INVARIANTS NoDangling CountsExact TokensKept InOrder
