--------------------------- MODULE EvaluationReview ---------------------------
(***************************************************************************)
(* The human review of one evaluation (ScreeningService): for every hard   *)
(* requirement that came back unknown there is a concern, which reviewers  *)
(* handle and reopen, and a verification item, whose answer also closes    *)
(* the concern and rewrites the evaluation's eligibility results.          *)
(*                                                                         *)
(* A concern is written by compare-and-set on what the request read.  A    *)
(* transaction that answers an item holds the rows it has updated until it *)
(* commits: the item from its first statement, the concern from its        *)
(* second.  Notes, references and the audit are left out.                  *)
(***************************************************************************)
EXTENDS Naturals, Sequences

CONSTANTS
  Requirements,  \* the hard requirements that came back unknown
  Reviewers,     \* requests in flight
  Resolutions,   \* the ways to handle a concern
  MaxHandlings   \* bound: entries in the history of a concern

ReviewAssumption ==
  /\ Resolutions \subseteq {"dismissed", "confirmed", "accepted_risk"}
  /\ MaxHandlings \in Nat

Outcomes == {"met", "not_met"}

VARIABLES
  concerns,  \* by requirement: its status and resolutionHistory
  items,     \* by requirement: status and outcome of its verification item
  evaluation,  \* eligibilityResults (by requirement) and eligibilityStatus
  reviews    \* what each request in flight has read

vars == <<concerns, items, evaluation, reviews>>

Idle == [at |-> "idle"]

(* Not eligible as soon as one is not met, else unknown as long as one is. *)
Aggregate(results) ==
  IF \E r \in Requirements : results[r] = "not_met" THEN "not_eligible"
  ELSE IF \E r \in Requirements : results[r] = "unknown" THEN "needs_verification"
  ELSE "eligible"

Init ==
  /\ concerns = [r \in Requirements |-> [status |-> "open", history |-> <<>>]]
  /\ items = [r \in Requirements |-> [status |-> "open", outcome |-> "none"]]
  /\ evaluation = [results |-> [r \in Requirements |-> "unknown"],
                   eligibility |-> "needs_verification"]
  /\ reviews = [v \in Reviewers |-> Idle]

(* The rows that an answer under way has updated.                          *)
ItemLocked(r) == \E v \in Reviewers :
                   reviews[v].at \in {"answer", "apply"} /\ reviews[v].of = r
ConcernLocked(r) == \E v \in Reviewers :
                   reviews[v].at = "apply" /\ reviews[v].of = r /\ reviews[v].open

(* Handling a concern: whatever the status read, it is to be "open" when   *)
(* written.                                                                *)
ResolveRead(v, r) == \E to \in Resolutions :
  /\ reviews[v] = Idle
  /\ reviews' = [reviews EXCEPT ![v] = [at |-> "change", of |-> r, from |-> "open", to |-> to,
                                        history |-> concerns[r].history]]
  /\ UNCHANGED <<concerns, items, evaluation>>

(* Back to open: refused at once when it is open.                          *)
ReopenRead(v, r) ==
  /\ reviews[v] = Idle
  /\ concerns[r].status # "open"
  /\ reviews' = [reviews EXCEPT ![v] = [at |-> "change", of |-> r, from |-> concerns[r].status,
                                        to |-> "open", history |-> concerns[r].history]]
  /\ UNCHANGED <<concerns, items, evaluation>>

(* Mutant: the status alone is compared.                                   *)
SameStatus(v) == concerns[reviews[v].of].status = reviews[v].from

(* The where clause: the status, and the history as the concern's version. *)
Unchanged(v) ==
  /\ concerns[reviews[v].of].status = reviews[v].from
  /\ concerns[reviews[v].of].history = reviews[v].history

RecordChange(v) ==
  /\ reviews[v].at = "change"
  /\ ~ConcernLocked(reviews[v].of)
  /\ LET call == reviews[v] IN
       IF Unchanged(v)
       THEN /\ Len(call.history) < MaxHandlings
            /\ concerns' = [concerns EXCEPT ![call.of] =
                 [status |-> call.to,
                  history |-> Append(call.history, [from |-> call.from, to |-> call.to])]]
       ELSE UNCHANGED concerns
  /\ reviews' = [reviews EXCEPT ![v] = Idle]
  /\ UNCHANGED <<items, evaluation>>

(* Taking on an item: whatever has become of it.                           *)
Assign(r) ==
  /\ ~ItemLocked(r)
  /\ items' = [items EXCEPT ![r].status = "assigned"]
  /\ UNCHANGED <<concerns, evaluation, reviews>>

(* Answering an item: the transaction updates it, reads its concern ...    *)
AnswerItem(v, r) == \E outcome \in Outcomes :
  /\ reviews[v] = Idle
  /\ ~ItemLocked(r)
  /\ reviews' = [reviews EXCEPT ![v] = [at |-> "answer", of |-> r, outcome |-> outcome,
                                        open |-> concerns[r].status = "open"]]
  /\ UNCHANGED <<concerns, items, evaluation>>

(* ... updates the concern if it was open, reads the results ...           *)
AnswerReads(v) ==
  /\ reviews[v].at = "answer"
  /\ reviews' = [reviews EXCEPT ![v] =
       [at |-> "apply", of |-> @.of, outcome |-> @.outcome, open |-> @.open,
        results |-> evaluation.results]]
  /\ UNCHANGED <<concerns, items, evaluation>>

(* ... writes them with its answer, and commits.                           *)
AnswerCommits(v) ==
  /\ reviews[v].at = "apply"
  /\ LET call == reviews[v]
         next == [call.results EXCEPT ![call.of] = call.outcome] IN
       /\ items' = [items EXCEPT ![call.of] = [status |-> "resolved", outcome |-> call.outcome]]
       /\ concerns' = IF call.open
                      THEN [concerns EXCEPT ![call.of].status =
                              IF call.outcome = "met" THEN "dismissed" ELSE "confirmed"]
                      ELSE concerns
       /\ evaluation' = [results |-> next, eligibility |-> Aggregate(next)]
  /\ reviews' = [reviews EXCEPT ![v] = Idle]

Next ==
  \/ \E v \in Reviewers, r \in Requirements :
       ResolveRead(v, r) \/ ReopenRead(v, r) \/ AnswerItem(v, r)
  \/ \E v \in Reviewers : RecordChange(v) \/ AnswerReads(v) \/ AnswerCommits(v)
  \/ \E r \in Requirements : Assign(r)

Spec == Init /\ [][Next]_vars

(* What was recorded of a concern stays: a change made meanwhile, even one *)
(* that went from open to handled to open again, is not written over       *)
(* (recordConcernChange, #193).                                            *)
HistoryGrows == [][\A r \in Requirements :
  /\ Len(concerns[r].history) <= Len(concerns'[r].history)
  /\ SubSeq(concerns'[r].history, 1, Len(concerns[r].history)) = concerns[r].history]_vars

(* Not so: the results hold every answer given to an item.  Of two answers *)
(* at once, the second writes the results it read before the first.        *)
AnswersAreKept == \A r \in Requirements :
  items[r].status = "resolved" => evaluation.results[r] = items[r].outcome

(* Not so: a resolution that a reviewer recorded stands until reopened.    *)
(* The answer to an item writes over one recorded after it looked.         *)
RecordedStands == \A r \in Requirements :
  LET h == concerns[r].history IN
    h # <<>> /\ concerns[r].status # "open" /\ h[Len(h)].to # "open"
      => concerns[r].status = h[Len(h)].to
=============================================================================
