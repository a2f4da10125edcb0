SPECIFICATION Spec
CONSTANTS
    MAX_PROCESSES = 4
    MAX_CHILDREN = 2
    Addr = {boot, idle, p1, p2}
    NULL = NULL
    BOOT = boot
    IDLE = idle
    Quanta = {1, 2}
    LOW = 1
    NORMAL = 2
    NiceValues = {3}
    Garbage = {1}
    Foreground = {TRUE, FALSE}
    Syscalls = {"create", "kill", "block", "unblock", "wait", "sleep", "end", "exit", "ctrlc", "nice"}
    Unblockable = {2}
    MaxSleep = 1
    MaxSleepers = 1
SYMMETRY Symmetry
INVARIANTS
    TypeOK
    ReadyRing
    OneRunner
    CpuIsCurrent
    ContextsKept
    PidsUnique
PROPERTIES
    NoResurrection
