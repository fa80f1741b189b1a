SPECIFICATION LadderSpec
CONSTANTS
    Task = {"activity"}
    MaxAttempt = 7
INVARIANT EligibleWorkScheduled
CHECK_DEADLOCK FALSE
