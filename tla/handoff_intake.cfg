SPECIFICATION FairIntakeSpec
CONSTANTS
    Applications = {a1}
    Instances = {i1}
    Users = {u1}
    NoClaim = NoClaim
    NoWorker = NoWorker
    NoDecision = NoDecision
    MaxDecisions = 1
    MaxAttempts = 2
    MaxFaults = 2
    LeaseOutlivesSend = TRUE
    Requeues = FALSE
    Texts = {1, 2}
    jdText <- Edited
    NoText = 0
CHECK_DEADLOCK FALSE
PROPERTIES HandoffSettles ImplementsOutbox
