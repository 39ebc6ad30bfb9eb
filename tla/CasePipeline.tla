----------------------------- MODULE CasePipeline -----------------------------
(***************************************************************************)
(* What a written-assessment case promises, whatever requests race: the    *)
(* state machine drawn at the head of CaseLifecycleService. A case moves   *)
(* forward one event at a time; only the invitation of a new round takes   *)
(* it back; on hold it keeps moving and resumes where it then is; and a    *)
(* case that was handed off or closed never moves again.                   *)
(***************************************************************************)
VARIABLES
    stage,  \* how far the case has come, on hold or not
    held    \* whether it is on hold

Ends == {"handed_off", "closed"}

\* The progress events and the stages each may follow.
Progress == {
    <<"invited", "awaiting_submission">>,
    <<"invited", "review_pending">>,
    <<"awaiting_submission", "review_pending">>,
    <<"review_pending", "finalized">>,
    <<"finalized", "released">>}

Init ==
    /\ stage = "linked"
    /\ held = FALSE

\* A new round starts the cycle again.
Invite ==
    /\ stage \notin Ends
    /\ stage' = "invited"
    /\ UNCHANGED held

Advance ==
    /\ <<stage, stage'>> \in Progress
    /\ UNCHANGED held

Hold ==
    /\ stage \notin Ends
    /\ ~held
    /\ held' = TRUE
    /\ UNCHANGED stage

Resume ==
    /\ held
    /\ held' = FALSE
    /\ UNCHANGED stage

HandOff ==
    /\ stage = "released"
    /\ ~held
    /\ stage' = "handed_off"
    /\ UNCHANGED held

Close ==
    /\ stage \notin Ends
    /\ stage' = "closed"
    /\ held' = FALSE

Next == Invite \/ Advance \/ Hold \/ Resume \/ HandOff \/ Close

Spec == Init /\ [][Next]_<<stage, held>>
=============================================================================
