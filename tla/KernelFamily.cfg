SPECIFICATION Spec
CONSTANTS
    MAX_PROCESSES = 5
    MAX_CHILDREN = 2
    Addr = {boot, idle, p1, p2, p3}
    NULL = NULL
    BOOT = boot
    IDLE = idle
    Quanta = {1}
    LOW = 1
    NORMAL = 1
    NiceValues = {1, 2, 3}
    Garbage = {0}
    Foreground = {FALSE}
    Syscalls = {"create", "kill", "wait", "exit"}
    Unblockable = {2}
    MaxSleep = 0
    MaxSleepers = 0
SYMMETRY Symmetry
INVARIANTS
    ChildrenAreLive
    WaitersHaveChildren
PROPERTIES
    WaitForAll
