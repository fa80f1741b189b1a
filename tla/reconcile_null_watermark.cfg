SPECIFICATION Spec
CONSTANTS
    Record = {r1, r2, r3}
    Hash = {h1, h2}
    PageCap = 3
    MaxLength = 3
    None = None
    Jobs = {"sync", "reconcile"}
    PageSize = {2}
    Authoritative = FALSE
    Synced = FALSE
    MaxMoves = 0
    MaxFaults = 1
PROPERTY ReconcileIgnoresWatermark
