SPECIFICATION FairQueue
CONSTANTS
    b1 = b1
    b2 = b2
    a1 = a1
    a2 = a2
    Batches = {b1, b2}
    Applications = {a1, a2}
    Members <- Overlapping
    Instances = {n1}
    MaxActive = 3
    Cap = 2
    RetryKeys = {k1}
    NoItem = NoItem
    MaxRuns = 0
    MaxInputs = 1
    MaxFaults = 1
CHECK_DEADLOCK FALSE
INVARIANT CapHolds
PROPERTY QueueMoves
