SPECIFICATION Spec
CONSTANTS
    User = {u1}
    Version = {v1, v2}
    Worker = {w1, w2}
    Builder = {b1, b2}
    Subscriber = {u1}
    MaxMails = 2
    Limit = 1
    MaxChanges = 1
    MaxFaults = 1
    Severed = TRUE
    None = None
SYMMETRY Symmetry
INVARIANTS IInv NeverResent NoVersionTwice
PROPERTY OptOutHonoured
CHECK_DEADLOCK FALSE
