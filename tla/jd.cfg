SPECIFICATION JdSpec
CONSTANTS
    People = {p1, p2}
    Migrators = {m}
    Texts = {t1, t2}
    NoText = NoText
    MaxRevision = 2
    MaxVersions = 2
    Requests = {r1, r2, r3}
    Pasted = {pasted}
    TextOf <- OneText
    NoRequest = NoRequest
    Windows = {p1, p2}
    MaxTexts = 3
    MaxSaves = 2
    NoBase = NoBase
    MaxEdits = 1
    MaxOpenings = 2
    MaxConfirms = 1
    Beyond = FALSE
SYMMETRY Symmetry
INVARIANTS PublishedAsReviewed OneJobPerText PublishedAsShown
PROPERTIES ImplementsVersionLog StoredEditsStay
CHECK_DEADLOCK FALSE
