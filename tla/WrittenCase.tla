------------------------------ MODULE WrittenCase ------------------------------
(***************************************************************************)
(* One case of the written assessment: CaseLifecycleService,               *)
(* InvitationsService and PlanItemsService. HR prepares questions in a     *)
(* draft round, sends it, and the candidate opens the link and submits     *)
(* answers; HR finalizes the scoring of a round and releases its result,   *)
(* opens a supplemental round, holds or resumes the case, closes it, or    *)
(* hands the candidate on to Interview.                                    *)
(*                                                                         *)
(* A handler that reads the database and later writes is two actions, with *)
(* what it read kept in call[a]; a single UPDATE, and a transaction that   *)
(* starts by locking the case row, is one. Reads one handler makes back to *)
(* back are one action.                                                    *)
(***************************************************************************)
EXTENDS Naturals, FiniteSets

CONSTANTS
    Staff,      \* requests HR can have in flight
    Visitors,   \* requests the candidate can have in flight
    Items,      \* plan items (questions assigned to the case)
    NoItem,     \* the item of a call that concerns none
    MaxRounds   \* bound: rounds sent

Rounds == 1..MaxRounds
Callers == Staff \cup Visitors
TERMINAL_STATUSES == {"handed_off", "closed"}
OpenStatuses ==
    {"linked", "invited", "awaiting_submission", "review_pending", "finalized", "released"}
Outcomes == {"met", "not_met"}
Prompts == {"as_planned", "edited"}
Events == {"invited", "awaiting_submission", "review_pending", "finalized", "released"}

ASSUME CaseAssumption ==
    /\ MaxRounds \in Nat
    /\ NoItem \notin Items

VARIABLES
    status,        \* Case.status
    before,        \* Case.statusBeforeHold, or "null"
    draftOpen,     \* Case.draftRoundOpen
    taskDone,      \* its Task is completed
    closeDecision, \* Case.closeReason and Case.closeDecision
    latest,        \* the newest round (rounds are numbered 1, 2, ... in send order)
    invitation,    \* Rounds -> Invitation.status
    finalized,     \* rounds whose submission has finalizedAt
    release,       \* Rounds -> the published outcome
    created,       \* items ever created
    draft,         \* items with invitationId null
    sentIn,        \* Items -> the round an item was sent in, or 0
    prompt,        \* Items -> customPrompt
    interviewTask, \* Interview has a task for this candidate and job
    call           \* Callers -> the request in flight and what it has read

case == <<status, before, draftOpen, taskDone, closeDecision>>
rounds == <<latest, invitation, finalized, release>>
plan == <<created, draft, sentIn, prompt>>
vars == <<case, rounds, plan, interviewTask, call>>

Request(op, r, i, flag, next) ==
    [op |-> op, round |-> r, item |-> i, flag |-> flag, next |-> next]
Idle == Request("idle", 0, NoItem, FALSE, "none")

\* upsertCaseWithTask: the case is linked, with an open task.
Init ==
    /\ status = "linked"
    /\ before = "null"
    /\ draftOpen = FALSE
    /\ taskDone = FALSE
    /\ closeDecision = [reason |-> "none", round |-> 0, outcome |-> "unknown", explained |-> FALSE]
    /\ latest = 0
    /\ invitation = [r \in Rounds |-> "none"]
    /\ finalized = {}
    /\ release = [r \in Rounds |-> "none"]
    /\ created = {}
    /\ draft = {}
    /\ sentIn = [i \in Items |-> 0]
    /\ prompt = [i \in Items |-> "as_planned"]
    /\ interviewTask = FALSE
    /\ call = [a \in Callers |-> Idle]

-----------------------------------------------------------------------------
(* The case's status.                                                      *)

Ended == status \in TERMINAL_STATUSES

\* Mutant: a late open moves a case back from review.
ADVANCES_FROM_AnyOpen == [e \in Events |-> OpenStatuses]

\* The statuses each progress event may move a case from.
ADVANCES_FROM == [e \in Events |->
    CASE e = "invited" -> OpenStatuses
      [] e = "awaiting_submission" -> {"invited"}
      [] e = "review_pending" -> {"invited", "awaiting_submission"}
      [] e = "finalized" -> {"review_pending"}
      [] e = "released" -> {"finalized"}]

\* The second UPDATE of advance: on hold, the remembered status moves instead.
HeldMayAdvance(next) ==
    /\ status = "on_hold"
    /\ \/ before \in ADVANCES_FROM[next]
       \/ before = "null" /\ "linked" \in ADVANCES_FROM[next]

\* advance, as part of a transaction that holds the case row.
Advance(next) ==
    /\ status' = IF status \in ADVANCES_FROM[next] THEN next ELSE status
    /\ before' = IF HeldMayAdvance(next) THEN next ELSE before

Finish(a) == call' = [call EXCEPT ![a] = Idle]
Begin(a, op, r, i, flag, next) ==
    /\ call[a].op = "idle"
    /\ call' = [call EXCEPT ![a] = Request(op, r, i, flag, next)]

\* A retry that finds its write done brings the case along, outside any
\* transaction: advance's two UPDATEs are then two steps.
BringAlong(a) ==
    /\ call[a].op = "along"
    /\ IF status \in ADVANCES_FROM[call[a].next]
       THEN /\ status' = call[a].next
            /\ Finish(a)
       ELSE /\ call' = [call EXCEPT ![a] = Request("alongHeld", 0, NoItem, FALSE, call[a].next)]
            /\ UNCHANGED status
    /\ UNCHANGED <<before, draftOpen, taskDone, closeDecision, rounds, plan, interviewTask>>

BringAlongHeld(a) ==
    /\ call[a].op = "alongHeld"
    /\ before' = IF HeldMayAdvance(call[a].next) THEN call[a].next ELSE before
    /\ Finish(a)
    /\ UNCHANGED <<status, draftOpen, taskDone, closeDecision, rounds, plan, interviewTask>>

\* Mutant: a case already on hold is held again.
HoldAgain ==
    /\ ~Ended
    /\ before' = status
    /\ status' = "on_hold"
    /\ UNCHANGED <<draftOpen, taskDone, closeDecision, rounds, plan, interviewTask, call>>

\* hold and resume are one UPDATE each.
Hold ==
    /\ ~Ended
    /\ status # "on_hold"
    /\ before' = status
    /\ status' = "on_hold"
    /\ UNCHANGED <<draftOpen, taskDone, closeDecision, rounds, plan, interviewTask, call>>

Resume ==
    /\ status = "on_hold"
    /\ status' = IF before = "null" THEN "linked" ELSE before
    /\ before' = "null"
    /\ UNCHANGED <<draftOpen, taskDone, closeDecision, rounds, plan, interviewTask, call>>

\* Mutant: an earlier round's outcome will do.
OutcomeOfAnyRound ==
    IF \E r \in Rounds: release[r] = "met" THEN "met" ELSE "unknown"

\* The outcome a closing decision is measured against: the newest round's, once released.
OutcomeNow == IF latest = 0 \/ release[latest] = "none" THEN "unknown" ELSE release[latest]

\* Mutant: the task is left open.
CloseOnly(reason, explained) ==
    /\ ~Ended
    /\ reason = "passed" /\ OutcomeNow # "met" => explained
    /\ status' = "closed"
    /\ before' = "null"
    /\ closeDecision' = [reason |-> reason, round |-> latest, outcome |-> OutcomeNow, explained |-> explained]
    /\ UNCHANGED <<draftOpen, taskDone, rounds, plan, interviewTask, call>>

\* Closing locks the case, records the decision and completes the task. The
\* reasons "rejected" and "withdrawn" are one, and need no explanation.
Close(reason, explained) ==
    /\ ~Ended
    /\ reason = "passed" /\ OutcomeNow # "met" => explained
    /\ status' = "closed"
    /\ before' = "null"
    /\ closeDecision' = [reason |-> reason, round |-> latest, outcome |-> OutcomeNow, explained |-> explained]
    /\ taskDone' = TRUE
    /\ UNCHANGED <<draftOpen, rounds, plan, interviewTask, call>>

-----------------------------------------------------------------------------
(* The plan and the draft round.                                           *)

hasDraftRound(open) == latest = 0 \/ open \/ draft # {}

\* A supplemental round follows a finished one.
canOpenRound == ~Ended /\ ~hasDraftRound(draftOpen) /\ (latest = 0 \/ latest \in finalized)

OpenDraftRead(a) ==
    /\ canOpenRound
    /\ Begin(a, "openDraft", 0, NoItem, FALSE, "none")
    /\ UNCHANGED <<case, rounds, plan, interviewTask>>

OpenDraftWrite(a) ==
    /\ call[a].op = "openDraft"
    /\ draftOpen' = TRUE
    /\ Finish(a)
    /\ UNCHANGED <<status, before, taskDone, closeDecision, rounds, plan, interviewTask>>

DiscardRead(a) ==
    /\ draft = {}
    /\ Begin(a, "discard", 0, NoItem, FALSE, "none")
    /\ UNCHANGED <<case, rounds, plan, interviewTask>>

DiscardWrite(a) ==
    /\ call[a].op = "discard"
    /\ draftOpen' = FALSE
    /\ Finish(a)
    /\ UNCHANGED <<status, before, taskDone, closeDecision, rounds, plan, interviewTask>>

AddItemRead(a) ==
    /\ ~Ended
    /\ hasDraftRound(draftOpen)
    /\ Begin(a, "addItem", 0, NoItem, FALSE, "none")
    /\ UNCHANGED <<case, rounds, plan, interviewTask>>

AddItemWrite(a, i) ==
    /\ call[a].op = "addItem"
    /\ i \notin created
    /\ created' = created \cup {i}
    /\ draft' = draft \cup {i}
    /\ Finish(a)
    /\ UNCHANGED <<case, rounds, sentIn, prompt, interviewTask>>

\* assertPlanItemEditable is checked on the row read, the write is by id alone.
ChangeItemRead(a, op, i) ==
    /\ i \in draft
    /\ Begin(a, op, 0, i, FALSE, "none")
    /\ UNCHANGED <<case, rounds, plan, interviewTask>>

Exists(i) == i \in draft \/ sentIn[i] > 0

EditItemWrite(a) ==
    /\ call[a].op = "edit"
    /\ prompt' = IF Exists(call[a].item) THEN [prompt EXCEPT ![call[a].item] = "edited"] ELSE prompt
    /\ Finish(a)
    /\ UNCHANGED <<case, rounds, created, draft, sentIn, interviewTask>>

RemoveItemWrite(a) ==
    /\ call[a].op = "remove"
    /\ draft' = draft \ {call[a].item}
    /\ sentIn' = [sentIn EXCEPT ![call[a].item] = 0]
    /\ Finish(a)
    /\ UNCHANGED <<case, rounds, created, prompt, interviewTask>>

-----------------------------------------------------------------------------
(* Sending a round.                                                        *)

\* assertDraftSendable; `open` is the flag read before the case was locked.
DraftSendable(open) ==
    /\ hasDraftRound(open)
    /\ latest > 0 => draft # {}

SendRead(a) ==
    /\ ~Ended
    /\ Begin(a, "send", 0, NoItem, draftOpen, "none")
    /\ UNCHANGED <<case, rounds, plan, interviewTask>>

\* The case is locked and must still be open; its draft becomes the next round.
SendWrite(a) ==
    /\ call[a].op = "send"
    /\ latest < MaxRounds
    /\ Finish(a)
    /\ IF ~Ended /\ DraftSendable(call[a].flag)
       THEN /\ latest' = latest + 1
            /\ invitation' = [invitation EXCEPT ![latest + 1] = "sent"]
            /\ sentIn' = [i \in Items |-> IF i \in draft THEN latest + 1 ELSE sentIn[i]]
            /\ draft' = {}
            /\ draftOpen' = FALSE
            /\ Advance("invited")
            /\ UNCHANGED <<taskDone, closeDecision, finalized, release, created, prompt>>
       ELSE UNCHANGED <<case, rounds, plan>>
    /\ UNCHANGED interviewTask

-----------------------------------------------------------------------------
(* The candidate's link.                                                   *)

OpenRead(a, r) ==
    /\ invitation[r] = "sent"
    /\ Begin(a, "open", r, NoItem, FALSE, "none")
    /\ UNCHANGED <<case, rounds, plan, interviewTask>>

\* Mutant: the invitation is marked opened whatever became of it.
OpenWriteAnyway(a) ==
    /\ call[a].op = "open"
    /\ Finish(a)
    /\ invitation' = [invitation EXCEPT ![call[a].round] = "opened"]
    /\ IF call[a].round = latest THEN Advance("awaiting_submission") ELSE UNCHANGED <<status, before>>
    /\ UNCHANGED <<draftOpen, taskDone, closeDecision, latest, finalized, release, plan, interviewTask>>

\* Only the first open counts, and only the newest round moves the case.
OpenWrite(a) ==
    /\ call[a].op = "open"
    /\ Finish(a)
    /\ IF invitation[call[a].round] = "sent"
       THEN /\ invitation' = [invitation EXCEPT ![call[a].round] = "opened"]
            /\ IF call[a].round = latest THEN Advance("awaiting_submission") ELSE UNCHANGED <<status, before>>
       ELSE UNCHANGED <<invitation, status, before>>
    /\ UNCHANGED <<draftOpen, taskDone, closeDecision, latest, finalized, release, plan, interviewTask>>

\* Mutant: an opened round counts as already answered.
SubmittedOrOpened(r) == invitation[r] \in {"opened", "submitted"}

Submitted(r) == invitation[r] = "submitted"

\* submit reads the invitation; answers already there make it a retry. (Answers
\* that come too late or do not match the questions are refused unsaved: the
\* request does not begin.)
SubmitRead(a, r) ==
    /\ invitation[r] # "none"
    /\ IF Submitted(r)
       THEN r = latest /\ Begin(a, "along", 0, NoItem, FALSE, "review_pending")
       ELSE Begin(a, "submit", r, NoItem, FALSE, "none")
    /\ UNCHANGED <<case, rounds, plan, interviewTask>>

\* Mutant: the locked case's status is not checked.
SubmitWriteToEnded(a) ==
    /\ call[a].op = "submit"
    /\ Finish(a)
    /\ IF invitation[call[a].round] # "submitted"
       THEN /\ invitation' = [invitation EXCEPT ![call[a].round] = "submitted"]
            /\ IF call[a].round = latest THEN Advance("review_pending") ELSE UNCHANGED <<status, before>>
       ELSE UNCHANGED <<invitation, status, before>>
    /\ UNCHANGED <<draftOpen, taskDone, closeDecision, latest, finalized, release, plan, interviewTask>>

\* The case is locked and must be open; a second submission of a round hits
\* the unique index.
SubmitWrite(a) ==
    /\ call[a].op = "submit"
    /\ Finish(a)
    /\ IF ~Ended /\ invitation[call[a].round] # "submitted"
       THEN /\ invitation' = [invitation EXCEPT ![call[a].round] = "submitted"]
            /\ IF call[a].round = latest THEN Advance("review_pending") ELSE UNCHANGED <<status, before>>
       ELSE UNCHANGED <<invitation, status, before>>
    /\ UNCHANGED <<draftOpen, taskDone, closeDecision, latest, finalized, release, plan, interviewTask>>

-----------------------------------------------------------------------------
(* Review: finalizing a round's scoring and releasing its result. Whether  *)
(* the round is the newest is read with it, before the case is locked.     *)

FinalizeRead(a, r) ==
    /\ invitation[r] = "submitted"
    /\ IF r \in finalized
       THEN r = latest /\ Begin(a, "along", 0, NoItem, FALSE, "finalized")
       ELSE Begin(a, "finalize", r, NoItem, r = latest, "none")
    /\ UNCHANGED <<case, rounds, plan, interviewTask>>

FinalizeWrite(a) ==
    /\ call[a].op = "finalize"
    /\ Finish(a)
    /\ finalized' = finalized \cup {call[a].round}
    /\ IF call[a].round \notin finalized /\ call[a].flag
       THEN Advance("finalized")
       ELSE UNCHANGED <<status, before>>
    /\ UNCHANGED <<draftOpen, taskDone, closeDecision, latest, invitation, release, plan, interviewTask>>

\* The condition of the UPDATE that publishes a result.
Releasable(r) == r \in finalized /\ release[r] = "none"

ReleaseRead(a, r, outcome) ==
    /\ invitation[r] = "submitted"
    /\ IF r \in finalized /\ release[r] # "none"
       THEN r = latest /\ Begin(a, "along", 0, NoItem, FALSE, "released")
       ELSE Releasable(r) /\ Begin(a, "release", r, NoItem, r = latest, outcome)
    /\ UNCHANGED <<case, rounds, plan, interviewTask>>

ReleaseWrite(a) ==
    /\ call[a].op = "release"
    /\ Finish(a)
    /\ IF Releasable(call[a].round)
       THEN /\ release' = [release EXCEPT ![call[a].round] = call[a].next]
            /\ IF call[a].flag THEN Advance("released") ELSE UNCHANGED <<status, before>>
       ELSE UNCHANGED <<release, status, before>>
    /\ UNCHANGED <<draftOpen, taskDone, closeDecision, latest, invitation, finalized, plan, interviewTask>>

-----------------------------------------------------------------------------
(* Handing the candidate on to Interview.                                  *)

HandoffRead(a) ==
    /\ status = "released"
    /\ Begin(a, "post", 0, NoItem, FALSE, "none")
    /\ UNCHANGED <<case, rounds, plan, interviewTask>>

\* Interview's intake creates or finds the task, and answers.
HandoffPost(a) ==
    /\ call[a].op = "post"
    /\ interviewTask' = TRUE
    /\ call' = [call EXCEPT ![a] = Request("record", 0, NoItem, FALSE, "none")]
    /\ UNCHANGED <<case, rounds, plan>>

\* No answer in time, or a refusal: with or without the task having been made.
HandoffFails(a) ==
    /\ call[a].op = "post"
    /\ interviewTask' \in {interviewTask, TRUE}
    /\ Finish(a)
    /\ UNCHANGED <<case, rounds, plan>>

\* Only a case still released is handed off, and its task completed with it.
HandoffWrite(a) ==
    /\ call[a].op = "record"
    /\ Finish(a)
    /\ IF status = "released"
       THEN status' = "handed_off" /\ before' = "null" /\ taskDone' = TRUE
       ELSE UNCHANGED <<status, before, taskDone>>
    /\ UNCHANGED <<draftOpen, closeDecision, rounds, plan, interviewTask>>

\* A process stops, or the database refuses, between two steps of a request.
Abandon(a) ==
    /\ call[a].op # "idle"
    /\ Finish(a)
    /\ UNCHANGED <<case, rounds, plan, interviewTask>>

-----------------------------------------------------------------------------
Lifecycle ==
    \/ Hold
    \/ Resume
    \/ \E e \in BOOLEAN: Close("passed", e)
    \/ Close("not_passed", FALSE)

Planning(a) ==
    \/ OpenDraftRead(a)
    \/ OpenDraftWrite(a)
    \/ DiscardRead(a)
    \/ DiscardWrite(a)
    \/ AddItemRead(a)
    \/ \E i \in Items: AddItemWrite(a, i)
    \/ \E i \in Items, op \in {"edit", "remove"}: ChangeItemRead(a, op, i)
    \/ EditItemWrite(a)
    \/ RemoveItemWrite(a)
    \/ SendRead(a)
    \/ SendWrite(a)

Reviewing(a) ==
    \/ \E r \in Rounds: FinalizeRead(a, r)
    \/ FinalizeWrite(a)
    \/ \E r \in Rounds, o \in Outcomes: ReleaseRead(a, r, o)
    \/ ReleaseWrite(a)
    \/ HandoffRead(a)
    \/ HandoffPost(a)
    \/ HandoffFails(a)
    \/ HandoffWrite(a)

Answering(a) ==
    \/ \E r \in Rounds: OpenRead(a, r)
    \/ OpenWrite(a)
    \/ \E r \in Rounds: SubmitRead(a, r)
    \/ SubmitWrite(a)

Next ==
    \/ Lifecycle
    \/ \E a \in Staff: Planning(a) \/ Reviewing(a)
    \/ \E a \in Visitors: Answering(a)
    \/ \E a \in Callers: BringAlong(a) \/ BringAlongHeld(a) \/ Abandon(a)

Spec == Init /\ [][Next]_vars

-----------------------------------------------------------------------------
(* What must hold.                                                         *)

Ops == {"idle", "along", "alongHeld", "openDraft", "discard", "addItem", "edit", "remove",
        "send", "finalize", "release", "post", "record", "open", "submit"}
Requests == [op: Ops, round: 0..MaxRounds, item: Items \cup {NoItem}, flag: BOOLEAN,
             next: Events \cup Outcomes \cup {"none"}]
Decided == [reason: {"none", "passed", "not_passed"}, round: 0..MaxRounds,
            outcome: Outcomes \cup {"unknown"}, explained: BOOLEAN]

\* Every variable has its type; in particular a held case never remembers
\* "on_hold", so that resuming it brings it back.
TypeOK ==
    /\ status \in OpenStatuses \cup TERMINAL_STATUSES \cup {"on_hold"}
    /\ before \in OpenStatuses \cup {"null"}
    /\ draftOpen \in BOOLEAN
    /\ taskDone \in BOOLEAN
    /\ closeDecision \in Decided
    /\ latest \in 0..MaxRounds
    /\ invitation \in [Rounds -> {"none", "sent", "opened", "submitted"}]
    /\ finalized \subseteq Rounds
    /\ release \in [Rounds -> Outcomes \cup {"none"}]
    /\ created \subseteq Items
    /\ draft \subseteq Items
    /\ sentIn \in [Items -> 0..MaxRounds]
    /\ prompt \in [Items -> Prompts]
    /\ interviewTask \in BOOLEAN
    /\ call \in [Callers -> Requests]

\* How far the case has come, on hold or not.
Effective == IF status = "on_hold" THEN before ELSE status

\* The case's task is completed exactly when the case has ended (#118): a
\* released result still needs a decision, an ended case nothing more.
TaskDoneWithCase == taskDone <=> Ended

\* A case handed off or closed stays so, and takes no answers and sends no
\* round, however long ago the request began (#130 #131).
EndedIsQuiet == [][Ended =>
    /\ status' = status
    /\ latest' = latest
    /\ \A r \in Rounds: invitation'[r] = "submitted" => invitation[r] = "submitted"]_vars

\* What was answered, finalized and published stays so: an open racing the
\* submission cannot reopen the round, and of two concurrent releases the
\* first is kept (#129 #132).
ReviewIsKept == [][\A r \in Rounds:
    /\ invitation[r] = "submitted" => invitation'[r] = "submitted"
    /\ r \in finalized => r \in finalized'
    /\ release[r] # "none" => release'[r] = release[r]]_vars

\* A result is published only after its scoring was finalized, and a scoring
\* finalized only for answers that were submitted.
ReviewOrder == \A r \in Rounds:
    /\ release[r] # "none" => r \in finalized
    /\ r \in finalized => invitation[r] = "submitted"

\* The case is never further along than the work done: it awaits review only
\* when some round was answered, is finalized only when some round was, and
\* released or handed off only with a published result, the latter only when
\* Interview has the task.
StatusIsEarned ==
    /\ Effective \in {"review_pending", "finalized", "released", "handed_off"} =>
         \E r \in Rounds: invitation[r] = "submitted"
    /\ Effective \in {"finalized", "released", "handed_off"} => finalized # {}
    /\ Effective \in {"released", "handed_off"} => \E r \in Rounds: release[r] # "none"
    /\ status = "handed_off" => interviewTask

\* A candidate passed without an explanation has a newest round whose
\* published outcome is "met", then and ever after (close).
PassedOnMerit ==
    closeDecision.reason = "passed" /\ ~closeDecision.explained =>
        latest > 0 /\ release[latest] = "met"

Pipeline == INSTANCE CasePipeline WITH stage <- Effective, held <- (status = "on_hold")

\* The case follows the state machine of its documentation, on hold too:
\* only a new round takes it back, and an ended case does not move.
ImplementsPipeline == Pipeline!Spec

-----------------------------------------------------------------------------
(* What the comments say and the code does not guarantee.                  *)

\* "A question that was sent is frozen with its round" (rounds.ts).
SentQuestionFrozen == [][\A i \in Items: sentIn[i] > 0 =>
    sentIn'[i] = sentIn[i] /\ prompt'[i] = prompt[i]]_vars

\* "A supplemental round follows a finished one: the previous round must be
\* scored and finalized" (roundState).
SupplementFollowsFinished == [][latest' # latest /\ latest > 0 => latest \in finalized]_vars

\* "Handed-off / closed cases take no new rounds or questions" (rounds.ts).
EndedTakesNoQuestions == [][Ended => created' = created]_vars

\* "An older round never drags a newer one's status": an open case that
\* counts as finalized or released is so for its newest round.
StatusFollowsNewestRound ==
    /\ Effective = "finalized" => latest \in finalized
    /\ Effective = "released" => release[latest] # "none"
=============================================================================
