SPECIFICATION Spec
CONSTANTS
    Staff = {s1, s2}
    Visitors = {v1}
    Items = {q1}
    NoItem = NoItem
    MaxRounds = 2
SYMMETRY Symmetry
INVARIANTS StatusIsEarned PassedOnMerit
PROPERTIES EndedIsQuiet ImplementsPipeline
