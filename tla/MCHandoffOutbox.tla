---------------------------- MODULE MCHandoffOutbox ----------------------------
(* Small instances of HandoffOutbox for TLC. *)
EXTENDS HandoffOutbox, TLC

\* Instances and recruiters are interchangeable.
Symmetry == Permutations(Instances) \cup Permutations(Users)

\* Bound: once an instance has crashed or an outcome could not be recorded, the
\* history of an application's second decision is not followed.
FaultsComeEarly == faults > 0 => \A d \in Decisions: decision[d] # "none" => d[2] = 1
=============================================================================
