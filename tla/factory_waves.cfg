SPECIFICATION Spec
CONSTANTS
    Job = {j1, j2, j3}
    Concurrency = 2
    DailyJobs = 2
    MaxChanges = 1
    MaxFaults = 2
    None = None
SYMMETRY Symmetry
INVARIANTS IInv NoBlindResubmit AcceptanceRemembered PauseNamesWork LimitsHold
CHECK_DEADLOCK FALSE
