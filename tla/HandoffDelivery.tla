---------------------------- MODULE HandoffDelivery ----------------------------
(***************************************************************************)
(* What a decision's handoff promises the rest of the system, without      *)
(* queues, leases or retries: the candidate is handed over at least once,  *)
(* or the promise is given up or revoked, and a destination only ever      *)
(* hears of a candidate while, or because, the handoff was in force.       *)
(***************************************************************************)
EXTENDS Naturals

CONSTANTS Applications, MaxDecisions

Decisions == Applications \X (1..MaxDecisions)

VARIABLES
    promise,    \* Decisions -> what the recruiter is told of the handoff
    attempted,  \* handoffs offered to their destination at least once
    received    \* handoffs their destination has taken

vars == <<promise, attempted, received>>

Init ==
    /\ promise = [d \in Decisions |-> "none"]
    /\ attempted = {}
    /\ received = {}

Become(d, from, to) ==
    /\ promise[d] \in from
    /\ promise' = [promise EXCEPT ![d] = to]

\* A new handoff: every other one of the application is revoked.
Announce(d) ==
    /\ \A e \in Decisions: e[1] = d[1] /\ e # d => promise[e] \in {"none", "revoked"}
    /\ Become(d, {"none"}, "owed")
    /\ UNCHANGED <<attempted, received>>

\* A handoff is offered only while it is owed.
Offer(d) ==
    /\ promise[d] = "owed"
    /\ attempted' = attempted \cup {d}
    /\ UNCHANGED <<promise, received>>

\* The network may deliver an offer at any later time.
Take(d) ==
    /\ d \in attempted
    /\ received' = received \cup {d}
    /\ UNCHANGED <<promise, attempted>>

HandOver(d) ==
    /\ d \in received
    /\ Become(d, {"owed"}, "handed_over")
    /\ UNCHANGED <<attempted, received>>

GiveUp(d) ==
    /\ d \in attempted
    /\ Become(d, {"owed"}, "given_up")
    /\ UNCHANGED <<attempted, received>>

Reopen(d) == Become(d, {"given_up"}, "owed") /\ UNCHANGED <<attempted, received>>

Revoke(d) == Become(d, {"owed", "given_up"}, "revoked") /\ UNCHANGED <<attempted, received>>

Next == \E d \in Decisions:
    Announce(d) \/ Offer(d) \/ Take(d) \/ HandOver(d) \/ GiveUp(d) \/ Reopen(d) \/ Revoke(d)

Spec == Init /\ [][Next]_vars
=============================================================================
