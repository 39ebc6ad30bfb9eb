SPECIFICATION Spec
CONSTANTS
    Applications = {a1}
    Instances = {i1, i2}
    Users = {u1, u2}
    NoClaim = NoClaim
    NoWorker = NoWorker
    NoDecision = NoDecision
    MaxDecisions = 2
    MaxAttempts = 2
    MaxFaults = 1
    LeaseOutlivesSend = TRUE
    Requeues = TRUE
CHECK_DEADLOCK FALSE
SYMMETRY Symmetry
CONSTRAINT FaultsComeEarly
INVARIANTS ActiveHandoffKept
PROPERTY ImplementsDelivery
