SPECIFICATION ChangeSpec
CONSTANTS
    Record = {r1}
    Hash = {h1, h2}
    Relay = {p1}
    Consumer = {c1, c2}
    RelayLimit = 2
    MaxAttempts = 2
    BatchSize = 1
    MaxReceives = 2
    MaxFaults = 1
    None = None
    Scope = {s1, s2, s3}
    First = s1
    Second = s2
    Third = s3
    Text = {h1, h2, x1}
    Alias = {x1}
    LastStamp = 5
    Cycle = {c1, c2}
    PageRows = 1
    HotPages = 1
    SweepPages = 1
    MaxMoves = 1
    FeedFaults = 1
    RosterRows = 1
    RosterPages = 2
    RosterMoves = 1
    RosterFaults = 1
SYMMETRY Symmetry
INVARIANTS IInv NoVersionLost LedgerMeansArchived ArchivedOnce FeedInv RosterInv
CHECK_DEADLOCK FALSE
