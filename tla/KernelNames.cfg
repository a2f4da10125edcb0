SPECIFICATION Spec
CONSTANTS
    MAX_PROCESSES = 4
    MAX_CHILDREN = 2
    Addr = {boot, idle, p1, p2}
    NULL = NULL
    BOOT = boot
    IDLE = idle
    Quanta = {1}
    LOW = 1
    NORMAL = 1
    NiceValues = {1}
    Garbage = {0}
    Foreground = {TRUE, FALSE}
    Syscalls = {"create", "kill", "nice", "yield", "ctrlc"}
    Unblockable = {2}
    MaxSleep = 0
    MaxSleepers = 0
SYMMETRY Symmetry
CHECK_DEADLOCK FALSE
INVARIANTS
    ReadyRing
    OneForeground
    PidPool
