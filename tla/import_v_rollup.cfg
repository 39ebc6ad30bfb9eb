SPECIFICATION ScreeningSpec
CONSTANTS
    b1 = b1
    b2 = b2
    a1 = a1
    f1 = f1
    f2 = f2
    x1 = x1
    Parts = {"import"}
    Batches = {}
    Applications = {}
    Members = {}
    Instances = {}
    MaxActive = 1
    Cap = 1
    RetryKeys = {}
    NoItem = NoItem
    MaxRuns = 0
    MaxInputs = 1
    MaxFaults = 0
    Requirements = {}
    Reviewers = {}
    Resolutions = {}
    MaxHandlings = 0
    ParseJobs = {}
    Workers = {w1}
    Editors = {}
    MaxAttempts = 1
    MaxClaims = 0
    MaxEdits = 0
    MaxRetries = 0
    MatchJobs = {}
    Runners = {}
    People = {}
    MaxProposals = 0
    MaxProfiles = 0
    MaxMatchings = 0
    Workspaces = {}
    Pollers = {}
    MaxJobs = 2
    Uploads = {b1}
    Files = {f1}
    UploadOf <- OneUpload
    Contents = {x1}
    ContentOf <- OneFile
    Requests = {}
    Slow = {b1, w1}
CHECK_DEADLOCK FALSE
INVARIANT RollupIsFresh
