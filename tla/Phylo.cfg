CONSTANTS
    MIN_DINER = 3
    MAX_DINER = 4
    TickBeforeReuse = TRUE
    MaxEntries = 6
    Events = {"a", "r", "q", "ctrlc", "fail"}
SPECIFICATION FairSpec
CHECK_DEADLOCK FALSE
INVARIANTS TwoForks GrantedOnce
PROPERTIES WaiterEats
