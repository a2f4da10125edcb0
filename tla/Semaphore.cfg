CONSTANTS
    MAX_PROCESSES = 5
    Values = {0, 1, 2}
    CallSets = {{"open", "wait", "post", "signal", "consume", "close", "kill", "create", "away"},
                {"open", "wait", "post", "away"}}
    MaxTokens = 2
SPECIFICATION FairSpec
CHECK_DEADLOCK FALSE
INVARIANTS TypeOK Exclusion TokensConserved WaiterQueued NoIdleToken
PROPERTIES FirstComeFirstServed WaitersEnter
