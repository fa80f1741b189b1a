SPECIFICATION FairSpec
CONSTANTS
    Job = {j1, j2}
    Concurrency = 2
    DailyJobs = 0
    MaxChanges = 1
    MaxFaults = 1
    None = None
PROPERTY NoAcceptanceLost
CHECK_DEADLOCK FALSE
