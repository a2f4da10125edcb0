CONSTANTS
    BUFFER_SIZE = 3
    COLS = 2
    ROWS = 4
    WORD_BUFFER_SIZE = 6
    MAX_ARGS = 3
    MAX_ARG_LEN = 3
    Keys = {"c", "|", " ", "7", "back", "enter", "tab", "ctrl", "shift", "d"}
    Known = {"c"}
    Kids = {4, 5}
    MaxKeys = 5
SPECIFICATION Spec
CHECK_DEADLOCK FALSE
INVARIANTS KeysKept LineShown ParseExact
