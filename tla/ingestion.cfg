SPECIFICATION IngestionSpec
CONSTANTS
    Record = {r1, r2, r3}
    Hash = {h1, h2}
    PageCap = 3
    MaxLength = 3
    None = None
    Jobs = {"run", "sync"}
    PageSize = {2}
    Authoritative = TRUE
    Synced = TRUE
    MaxMoves = 2
    MaxFaults = 2
    Bill = {b1, b2}
    Child = {"reviews"}
    Refreshing = {"reviews"}
    Decided = {b2}
    ScheduleOk = FALSE
    Kinds = {"run", "sync", "reconcile"}
    MaxVersion = 1
    LastTick = 1
    MaxRuns = 2
    MaxErrors = 1
    Dumper = {h1, h2}
    Second = {1, 2}
    MaxRows = 1
    DumpFaults = 2
SYMMETRY Symmetry
INVARIANTS IInv CheckpointCovers SyncedMeansExact RunsInv ChildrenCaughtUp SuccessCovers DatabaseBackupInv
PROPERTIES QuietRemoval DumpsKept
CHECK_DEADLOCK FALSE
