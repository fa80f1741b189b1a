SPECIFICATION FairSpec
CONSTANTS
    Record = {r1}
    Hash = {h1}
    Relay = {p1}
    Consumer = {c1}
    RelayLimit = 2
    MaxAttempts = 5
    BatchSize = 1
    MaxReceives = 5
    MaxFaults = 1
    None = None
PROPERTY InterruptedArchiveCompletes
