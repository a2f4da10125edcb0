CONSTANTS
    MIN_DINER = 3
    MAX_DINER = 4
    TickBeforeReuse = FALSE
    MaxEntries = 6
    Events = {"a", "r"}
SPECIFICATION Spec
CHECK_DEADLOCK FALSE
INVARIANTS TwoForks
