SPECIFICATION CoreSpec
CONSTANTS
    j1 = j1
    c1 = c1
    Jobs = {j1}
    Candidates = {c1}
    Statuses = {"open", "closed", "archived", "active", "rejected", "hired"}
    Requests <- Script
    Sessions = {s1, s2}
    Editors = {s1, s2}
    NoRequest = NoRequest
    Texts = {t1, t2}
    NoText = NoText
    MaxDrafts = 2
SYMMETRY Symmetry
INVARIANTS OneEffectPerKey ApplicationsKeepTheirJob ConfirmedInCore
