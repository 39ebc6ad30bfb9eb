SPECIFICATION InterviewSpec
CONSTANTS
    Callers = {c1, c2}
    Workers = {c1, c2}
    Planners = {c1, c2}
    Hosts = {c1, c2}
    Hooks = {c1, c2}
    None = None
    Others = {}
    MaxRow = 5
    MaxScores = 1
    ParseJobs = {j1, j2}
    MaxClaims = 4
    MaxRetries = 1
    Rounds = {r1}
    MaxRubrics = 3
    MaxEdits = 4
    Keys = {k1, k2}
    NoKey = NoKey
    Modes = {"s2s", "oauth"}
    MaxMeetings = 2
    MaxCrashes = 1
    MaxConsents = 1
    MaxRequests = 2
    MaxStreamFaults = 1
SYMMETRY Symmetry
INVARIANTS OneOfferAccepted OneResultPerJob SameMeeting MarkerIsServed
PROPERTIES OfferOnSignedPackage BriefIsKept
CHECK_DEADLOCK FALSE
