SPECIFICATION FairSpec
CONSTANTS
    MAX_PROCESSES = 5
    MAX_CHILDREN = 2
    Addr = {boot, idle, p1, p2, p3}
    NULL = NULL
    BOOT = boot
    IDLE = idle
    Quanta = {1, 2}
    LOW = 1
    NORMAL = 1
    NiceValues = {1, 2, 3}
    Garbage = {0}
    Foreground = {FALSE}
    Syscalls = {"create", "sleep", "wait"}
    Unblockable = {2}
    MaxSleep = 2
    MaxSleepers = 3
INVARIANTS
    SleepersHaveAlarm
PROPERTIES
    NoStarvation
    SleepEnds
