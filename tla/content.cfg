SPECIFICATION ContentSpec
CONSTANTS
    Article = {a1}
    Edition = {"first", "closed"}
    Withheld = {"closed"}
    Collector = {p1, p2}
    LastSight = 2
    MaxDeaths = 1
    Document = {d1}
    Preparer = {p1, p2}
    Budget = 17
    Estimate = 5
    Charge = {0, 6}
    Month = {1}
    MaxRequests = 4
    Events = 2
    Fact = {"note", "batch"}
    Derived = {"batch"}
    Explained = {"batch"}
    Batch = {p1, p2}
    ReviewLimit = 1
    LastDay = 2
    LastTime = 3
    Docs = 1
    PageVersion = {"a", "b"}
    PilotJob = {j1, j2, j3}
    Pilot = {p1, p2}
    PilotFaults = 1
    Job = {p1, p2}
    Files = 3
    Days = 2
    MaxJobs = 2
    BackupFaults = 2
SYMMETRY Symmetry
INVARIANTS RawInv DraftInv PublicationInv PilotInv WorkerBackupInv
PROPERTY LocalCopyKept
CHECK_DEADLOCK FALSE
