SPECIFICATION ScreeningSpec
CONSTANTS
    b1 = b1
    b2 = b2
    a1 = a1
    f1 = f1
    f2 = f2
    x1 = x1
    Parts = {"batches", "review", "profile", "matching", "turns"}
    Batches = {b1, b2}
    Applications = {a1}
    Members <- SameApplication
    Instances = {n1}
    MaxActive = 2
    Cap = 2
    RetryKeys = {k1}
    NoItem = NoItem
    MaxRuns = 2
    MaxInputs = 2
    MaxFaults = 0
    Requirements = {q1}
    Reviewers = {c1, c2}
    Resolutions = {"dismissed", "confirmed", "accepted_risk"}
    MaxHandlings = 3
    ParseJobs = {j1}
    Workers = {c1, c2}
    Editors = {c1, c2}
    MaxAttempts = 2
    MaxClaims = 3
    MaxEdits = 2
    MaxRetries = 2
    MatchJobs = {m1}
    Runners = {r1}
    People = {c1, c2}
    MaxProposals = 2
    MaxProfiles = 2
    MaxMatchings = 2
    Workspaces = {w1, w2, w3}
    Pollers = {c1, c2}
    MaxJobs = 4
    Uploads = {}
    Files = {}
    UploadOf <- Nothing
    Contents = {}
    ContentOf <- Nothing
    Requests = {}
    Slow = {}
CHECK_DEADLOCK FALSE
SYMMETRY Symmetry
INVARIANTS OneResultPerItem CurrentIsSound OneProfilePerAsking CorrectionsAddUp CountedOnce OneTurnEach
PROPERTIES HistoryGrows
