SPECIFICATION MCSpec
CONSTANTS
    Emails = {e1}
    Members = {e1}
    Requests = {r1, r2}
    Guessers = {g1, g2}
    None = None
    EmailLimit = 2
    IpLimit = 2
    Here = {FALSE}
    MaxAttempts = 2
    MaxCodes = 2
    Users = {u1, u2}
    Bootstraps = {u1, u2}
    Handlers = {r1, r2}
    Nobody = Nobody
SYMMETRY Symmetry
INVARIANTS IssuedInTurn CodeIsSpent AdminRemains SessionsEnd
CHECK_DEADLOCK FALSE
