SPECIFICATION AllSpec
CONSTANTS
    Source = {s1}
    Linked = {s1}
    Model = {m1, m2}
    Capacity = 2
    Retries = 1
    MaxRevisions = 2
    MaxSwitches = 2
    MaxMishaps = 2
    Nothing = Nothing
    Task = {"community", "enrichment", "extract", "compact", "relation", "activity", "answer", "old answer", "claims"}
    MaxAttempt = 7
    Relation = {"lineage", "policy", "activity", "chair", "office"}
    LastIssue = 2
    MaxMisses = 1
    NoGraph = NoGraph
    Asker = {a1, a2}
    Unit = {1, 2, 3}
    Sensitive = {3}
    Flagged = {2}
    Reported = {{}, {1, 2}}
    Unfit = {2}
    Bulky = {1}
    Huge = {2}
    Naming = {{}, {{1}, {2}}}
    Local = TRUE
    Global = TRUE
    WriteSize = 2
    PickSize = 2
    MaxRounds = 2
    LastRevision = 2
    MaxAttempts = 2
    MaxTroubles = 1
    NoQuestion = NoQuestion
SYMMETRY Symmetry
INVARIANTS LadderInv PlanningInv QuestionsInv RelationInv
CHECK_DEADLOCK FALSE
