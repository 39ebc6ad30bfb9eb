-------------------------- MODULE InterviewPackage --------------------------
(***************************************************************************)
(* The end of an interview: the decision, the sign-offs of HR and of the   *)
(* hiring manager, the frozen versions of the evaluation package, and its  *)
(* handoff to Offer (TasksService of the Interview backend).               *)
(*                                                                         *)
(* The package is computed from the task's row and from the scores, and    *)
(* frozen as a new version whenever it differs from the newest one.        *)
(* Reading it, signing it off and handing it over are serializable         *)
(* transactions, tried three times; recording a decision and Offer's       *)
(* acknowledgement are not.  A serializable transaction is two steps: it   *)
(* takes its snapshot, and later commits what follows from that snapshot,  *)
(* unless the row it wrote, or the version number it used, has been        *)
(* written by somebody else since.                                         *)
(*                                                                         *)
(* Left out: statuses set by hand, notes and reasons, the AI draft of the  *)
(* decision, the log of package events, and the sources of the scores: a   *)
(* change of any score is one step.  Instants are the row's revision at    *)
(* which they were taken, 0 being null.                                    *)
(***************************************************************************)
EXTENDS Naturals, Sequences, FiniteSets

CONSTANTS
  Callers,    \* the requests being served at a time
  None,       \* no decision
  Others,     \* the decisions other than to recommend an offer
  MaxRow,     \* bound: updates of the task's row
  MaxScores   \* bound: changes of the scores

PackageAssumption ==
  /\ MaxRow \in Nat
  /\ MaxScores \in Nat
  /\ "recommend_offer" \notin Others \cup {None} /\ None \notin Others

VARIABLES
  task,       \* the InterviewTask row
  scores,     \* how often the scores of the task have changed
  versions,   \* EvaluationPackageVersion: the contents frozen so far
  calls,      \* where each request is
  accepted    \* history: the attempts Offer's acknowledgement was accepted for

vars == <<task, scores, versions, calls, accepted>>

Decisions == Others \cup {"recommend_offer", None}

(* The pipeline statuses from the debrief on, in order.                    *)
Pipeline == <<"evidence_requested", "awaiting_confirmation", "package_published">>
Statuses == {Pipeline[i] : i \in DOMAIN Pipeline}

Idle == [op |-> "idle"]

-----------------------------------------------------------------------------
(* What is computed from the row.                                          *)

(* The content that is hashed: the delivery state and the review flag are  *)
(* not part of it.                                                         *)
Content(t, s) == [decision |-> t.decision, at |-> t.at, hr |-> t.hr, hm |-> t.hm,
                  scores |-> s]

(* The status only moves forward.                                          *)
Advance(t, to) ==
  IF \E i, j \in DOMAIN Pipeline : i < j /\ t.status = Pipeline[i] /\ to = Pipeline[j]
  THEN [t EXCEPT !.status = to, !.rev = @ + 1]
  ELSE t

Milestone(t) ==
  IF t.hr # 0 /\ t.hm # 0 THEN "package_published" ELSE "awaiting_confirmation"

SyncStatus(t) == IF t.decision = None THEN t ELSE Advance(t, Milestone(t))

SignOff(t, role, yes) ==
  SyncStatus([t EXCEPT ![role] = IF yes THEN t.rev + 1 ELSE 0, !.rev = @ + 1])

(* sendOffer's checks, and the where clause of its claim.                  *)
MayOffer(t) ==
  /\ ~t.review
  /\ t.decision = "recommend_offer" /\ t.at # 0 /\ t.hr # 0 /\ t.hm # 0
  /\ t.offer \in {"none", "failed"} \/ (t.offer = "pending" /\ t.late)

ClaimOffer(t, version) ==
  [t EXCEPT !.offer = "pending", !.late = FALSE, !.attempt = @ + 1,
            !.offerVersion = version, !.rev = @ + 1]

-----------------------------------------------------------------------------
(* Initially both have signed, and then an offer was recommended by        *)
(* somebody who makes no further request and did not get to the status.    *)
(* Each sign-off froze a version.                                          *)
Init ==
  /\ task = [rev |-> 3, decision |-> "recommend_offer", by |-> None, at |-> 3, hr |-> 1,
             hm |-> 2, status |-> "evidence_requested", review |-> FALSE, offer |-> "none",
             late |-> FALSE, attempt |-> 0, offerVersion |-> 0]
  /\ scores = 0
  /\ versions = [i \in 1..2 |->
                   [rev |-> i,
                    content |-> [decision |-> None, at |-> 0, hr |-> 1,
                                 hm |-> IF i = 2 THEN 2 ELSE 0, scores |-> 0]]]
  /\ calls = [c \in Callers |-> Idle]
  /\ accepted = {}

Room == task.rev < MaxRow

Becomes(c, next) == calls' = [calls EXCEPT ![c] = next]

(* setDecision: the row is locked while the decision is recorded; the same *)
(* decision by the same actor changes nothing.  The status follows in two  *)
(* more statements of their own.                                           *)
SetDecision(c, d) ==
  /\ calls[c] = Idle
  /\ Room
  /\ task' = IF task.by = c /\ task.decision = d THEN task
             ELSE [task EXCEPT !.decision = d, !.by = c, !.rev = @ + 1,
                               !.at = IF d = None THEN 0 ELSE task.rev + 1]
  /\ Becomes(c, [op |-> "sync"])
  /\ UNCHANGED <<scores, versions, accepted>>

ReadMilestone(c) ==
  /\ calls[c] = [op |-> "sync"]
  /\ Becomes(c, IF task.decision = None THEN Idle
                ELSE [op |-> "advance", to |-> Milestone(task)])
  /\ UNCHANGED <<task, scores, versions, accepted>>

WriteMilestone(c) ==
  /\ calls[c].op = "advance"
  /\ task' = Advance(task, calls[c].to)
  /\ Becomes(c, Idle)
  /\ UNCHANGED <<scores, versions, accepted>>

(* An interviewer changes a score.                                         *)
SetScore ==
  /\ scores < MaxScores
  /\ scores' = scores + 1
  /\ UNCHANGED <<task, versions, calls, accepted>>

(* The job description or the rubric was updated: a decided task's package *)
(* needs a review.  Nothing ever clears the flag.                          *)
Invalidate ==
  /\ Room
  /\ task.decision # None
  /\ ~task.review
  /\ task' = [task EXCEPT !.review = TRUE, !.rev = @ + 1]
  /\ UNCHANGED <<scores, versions, calls, accepted>>

(* Five minutes pass without an acknowledgement.                           *)
OfferLate ==
  /\ task.offer = "pending"
  /\ ~task.late
  /\ task' = [task EXCEPT !.late = TRUE]
  /\ UNCHANGED <<scores, versions, calls, accepted>>

-----------------------------------------------------------------------------
(* packageTransaction: a serializable transaction.                         *)

(* A read of the package uses only the columns it shows.                   *)
Columns(op) ==
  IF op = "package" THEN {"rev", "decision", "at", "hr", "hm"} ELSE DOMAIN task

Snapshot(row, op, role, yes, tries) ==
  [op |-> op, role |-> role, yes |-> yes, tries |-> tries,
   task |-> [f \in Columns(op) |-> row[f]], scores |-> scores, newest |-> Len(versions)]

(* package, confirmPackage and sendOffer begin.                            *)
Begin(c, op, role, yes) ==
  /\ calls[c] = Idle
  /\ op = "package" \/ Room
  /\ Becomes(c, Snapshot(task, op, role, yes, 1))
  /\ UNCHANGED <<task, scores, versions, accepted>>

(* The row as the transaction leaves it, from its snapshot.                *)
Written(x) ==
  CASE x.op = "confirm" -> SignOff(x.task, x.role, x.yes)
    [] OTHER            -> x.task

(* Whether the package differs from the newest version of the snapshot.    *)
IsNew(x) ==
  Content(Written(x), x.scores) \notin {versions[i].content : i \in {x.newest} \ {0}}

(* The write fails when the row it updates, or the version number it       *)
(* inserts, was written by another since the snapshot.                     *)
ConflictsOnRow(x) == x.op # "package" /\ task.rev # x.task.rev

ConflictsOnNumber(x) == IsNew(x) /\ Len(versions) # x.newest

Conflicts(x) == ConflictsOnRow(x) \/ ConflictsOnNumber(x)

Freeze(x) ==
  versions' = IF IsNew(x)
              THEN Append(versions, [content |-> Content(Written(x), x.scores),
                                     rev |-> Written(x).rev])
              ELSE versions

(* The columns the transaction changed.                                    *)
Store(x, t) ==
  task' = [f \in DOMAIN task |-> IF f \in DOMAIN t /\ t[f] # x.task[f] THEN t[f] ELSE task[f]]

PackageVersion(x) == IF IsNew(x) THEN Len(versions) + 1 ELSE Len(versions)

(* Three attempts, each from a snapshot of its own.                        *)
Retry(c) ==
  /\ calls[c].op \in {"package", "confirm", "offer"}
  /\ Conflicts(calls[c])
  /\ Becomes(c, IF calls[c].tries < 3
                THEN Snapshot(task, calls[c].op, calls[c].role, calls[c].yes, calls[c].tries + 1)
                ELSE Idle)
  /\ UNCHANGED <<task, scores, versions, accepted>>

Commit(c) ==
  /\ calls[c].op \in {"package", "confirm"}
  /\ ~Conflicts(calls[c])
  /\ Freeze(calls[c])
  /\ Store(calls[c], Written(calls[c]))
  /\ Becomes(c, Idle)
  /\ UNCHANGED <<scores, accepted>>

SendOffer(c) ==
  /\ calls[c].op = "offer"
  /\ MayOffer(calls[c].task)
  /\ ~Conflicts(calls[c])
  /\ Freeze(calls[c])
  /\ Store(calls[c], ClaimOffer(calls[c].task, PackageVersion(calls[c])))
  /\ Becomes(c, Idle)
  /\ UNCHANGED <<scores, accepted>>

(* A check fails: what was frozen is rolled back with the rest.            *)
RefuseOffer(c) ==
  /\ calls[c].op = "offer"
  /\ ~MayOffer(calls[c].task)
  /\ ~ConflictsOnNumber(calls[c])
  /\ Becomes(c, Idle)
  /\ UNCHANGED <<task, scores, versions, accepted>>

-----------------------------------------------------------------------------
(* acknowledgeOffer: Offer's callback names the attempt it answers, and is *)
(* answered with the package, read as above.                               *)

ReadOffer(c, attempt, ok) ==
  /\ calls[c] = Idle
  /\ attempt = task.attempt
  /\ IF task.offer = "acknowledged" /\ ok
     THEN Becomes(c, Snapshot(task, "package", "none", FALSE, 1)) /\ accepted' = accepted \cup {attempt}
     ELSE /\ Becomes(c, [op |-> "settle", attempt |-> attempt, ok |-> ok])
          /\ UNCHANGED accepted
  /\ UNCHANGED <<task, scores, versions>>

(* Mutant: only what was read is checked.                                 *)
StillPendingAsRead(attempt) == task.offer \in {"pending", "failed"}

(* The where clause of the write.                                          *)
StillPending(attempt) == task.attempt = attempt /\ task.offer = "pending"

Settle(c) ==
  /\ calls[c].op = "settle"
  /\ IF StillPending(calls[c].attempt)
     THEN /\ task' = [task EXCEPT !.offer = IF calls[c].ok THEN "acknowledged" ELSE "failed",
                                  !.rev = @ + 1]
          /\ accepted' = IF calls[c].ok THEN accepted \cup {calls[c].attempt} ELSE accepted
          /\ Becomes(c, Snapshot(task', "package", "none", FALSE, 1))
     ELSE Becomes(c, Idle) /\ UNCHANGED <<task, accepted>>
  /\ UNCHANGED <<scores, versions>>

(* The process dies between two statements of a request.                   *)
Crash(c) ==
  /\ calls[c] # Idle
  /\ Becomes(c, Idle)
  /\ UNCHANGED <<task, scores, versions, accepted>>

Next ==
  \/ \E c \in Callers :
       \/ \E d \in Decisions : SetDecision(c, d)
       \/ ReadMilestone(c)
       \/ WriteMilestone(c)
       \/ Begin(c, "package", "none", FALSE)
       \/ \E role \in {"hr", "hm"}, yes \in BOOLEAN : Begin(c, "confirm", role, yes)
       \/ Begin(c, "offer", "none", FALSE)
       \/ Retry(c)
       \/ Commit(c)
       \/ SendOffer(c)
       \/ RefuseOffer(c)
       \/ \E attempt \in 1..task.attempt, ok \in BOOLEAN : ReadOffer(c, attempt, ok)
       \/ Settle(c)
       \/ Crash(c)
  \/ SetScore
  \/ Invalidate
  \/ OfferLate

Spec == Init /\ [][Next]_vars

-----------------------------------------------------------------------------
(* The state is well-typed. *)
TypeOK ==
  /\ task.rev \in Nat /\ task.attempt \in Nat /\ task.offerVersion \in Nat
  /\ task.at \in Nat /\ task.hr \in Nat /\ task.hm \in Nat
  /\ task.decision \in Decisions /\ task.by \in Callers \cup {None}
  /\ task.status \in Statuses /\ task.review \in BOOLEAN /\ task.late \in BOOLEAN
  /\ task.offer \in {"none", "pending", "acknowledged", "failed"}
  /\ scores \in 0..MaxScores
  /\ accepted \subseteq 1..task.attempt

(* An offer is requested only on the decision and the two sign-offs in     *)
(* force at that moment, on a package nothing invalidated, and names the   *)
(* version that records exactly those: a decision, a withdrawn sign-off or *)
(* an invalidation committed while the offer was being prepared is never   *)
(* missed.                                                                 *)
OfferOnSignedPackage ==
  [][task'.attempt # task.attempt =>
       /\ ~task.review
       /\ task.decision = "recommend_offer" /\ task.hr # 0 /\ task.hm # 0
       /\ LET frozen == versions'[task'.offerVersion].content IN
            /\ frozen.decision = task.decision /\ frozen.at = task.at
            /\ frozen.hr = task.hr /\ frozen.hm = task.hm]_vars

(* However many attempts time out and are repeated, Offer is told of at    *)
(* most one attempt that its acceptance was recorded, and that attempt is  *)
(* the one the task shows as acknowledged from then on.                    *)
OneOfferAccepted ==
  accepted # {} => accepted = {task.attempt} /\ task.offer = "acknowledged"

(* Not so: HR and the hiring manager sign a package off, not a version of  *)
(* it.  A score changed after both signed is in the version handed over.   *)
OfferIsWhatWasSigned ==
  task.offerVersion # 0 =>
    LET offered == versions[task.offerVersion].content IN
    \A i \in DOMAIN versions :
      versions[i].content.hr = offered.hr /\ versions[i].content.hm = offered.hm
        => versions[i].content.scores = offered.scores

(* Not so: a decision can still be changed while an offer is pending, and  *)
(* the acknowledgement does not look at it.                                *)
AcknowledgedIsRecommended ==
  task.offer = "acknowledged" => task.decision = "recommend_offer"
=============================================================================
