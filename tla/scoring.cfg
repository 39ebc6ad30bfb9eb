SPECIFICATION FairSpec
CONSTANTS
    Submissions = {s1, s2}
    Instances = {i1}
    MaxSlots = 2
    NoRun = NoRun
    MaxAttempts = 3
    MaxFaults = 1
    StaleOutlivesRun = TRUE
CHECK_DEADLOCK FALSE
INVARIANTS RunsDoNotOverlap
PROPERTIES ReviewIsNotOverwritten ScoringEnds
