------------------------------ MODULE MCCoreRecord ------------------------------
(* Small instances of what Core Record keeps, for TLC. *)
EXTENDS CoreData, TLC

CONSTANTS j1, c1

\* A job is opened, changed by clients that do and do not name a version,
\* closed and deleted while the candidate's application comes in twice and is
\* changed.
Script == {
    [op |-> "create", rec |-> j1, to |-> "open", expected |-> 0],
    [op |-> "create", rec |-> c1, to |-> "active", expected |-> 0],
    [op |-> "patch", rec |-> j1, to |-> "open", expected |-> 1],
    [op |-> "patch", rec |-> j1, to |-> "closed", expected |-> 0],
    [op |-> "delete", rec |-> j1, to |-> "closed", expected |-> 0],
    [op |-> "create", rec |-> <<j1, c1>>, to |-> "active", expected |-> 0],
    [op |-> "create", rec |-> <<j1, c1>>, to |-> "active", expected |-> 1],
    [op |-> "patch", rec |-> <<j1, c1>>, to |-> "rejected", expected |-> 1],
    [op |-> "patch", rec |-> <<j1, c1>>, to |-> "hired", expected |-> 0]}

Symmetry == Permutations(Sessions) \cup Permutations(Texts)
=============================================================================
