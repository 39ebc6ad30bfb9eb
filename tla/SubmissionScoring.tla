--------------------------- MODULE SubmissionScoring ---------------------------
(***************************************************************************)
(* The automatic scoring of submitted written tests (InvitationsService:   *)
(* evaluate and resumeEvaluations).                                        *)
(*                                                                         *)
(* A submission is scored by a background run that calls the AI, started   *)
(* by the submission itself and, when that run failed or was lost, by a    *)
(* timer in every backend instance.  The timer does not wait for its       *)
(* previous round, so an instance may have several rounds going: a slot is *)
(* one of them.  A reviewer may finalize the scoring at any moment.        *)
(***************************************************************************)
EXTENDS Naturals, FiniteSets

CONSTANTS
    Submissions,      \* submitted rounds
    Instances,        \* Written backend instances
    MaxSlots,         \* bound: scoring rounds of one instance under way at once
    NoRun,            \* what a slot scores when it scores nothing
    MaxAttempts,      \* EVALUATION_MAX_ATTEMPTS
    MaxFaults,        \* bound: crashes and database errors
    StaleOutlivesRun  \* EVALUATION_STALE_MS exceeds a run's AI deadline

Slots == Instances \X (1..MaxSlots)

ASSUME ScoringAssumption ==
    /\ MaxSlots \in Nat
    /\ MaxAttempts \in Nat \ {0}
    /\ MaxFaults \in Nat
    /\ StaleOutlivesRun \in BOOLEAN
    /\ NoRun \notin Submissions

VARIABLES
    status,      \* Submissions -> evaluationStatus ("none": not submitted yet)
    attempts,    \* Submissions -> evaluationAttempts
    aged,        \* submissions older than EVALUATION_POLL_MS
    stale,       \* running submissions started longer than EVALUATION_STALE_MS ago
    evaluation,  \* Submissions -> the attempt whose result is stored, 0 for null
    finalized,   \* submissions whose finalizedAt is set
    due,         \* Slots -> submissions the round has still to try
    cur,         \* Slots -> the submission being scored
    pc,          \* Slots -> where that run is
    try,         \* Slots -> history: which attempt the run is
    faults       \* crashes and database errors so far

rows == <<status, attempts, aged, stale, evaluation, finalized>>
runs == <<due, cur, pc, try>>
vars == <<rows, runs, faults>>

Init ==
    /\ status = [s \in Submissions |-> "none"]
    /\ attempts = [s \in Submissions |-> 0]
    /\ aged = {}
    /\ stale = {}
    /\ evaluation = [s \in Submissions |-> 0]
    /\ finalized = {}
    /\ due = [w \in Slots |-> {}]
    /\ cur = [w \in Slots |-> NoRun]
    /\ pc = [w \in Slots |-> "idle"]
    /\ try = [w \in Slots |-> 0]
    /\ faults = 0

Free(w) == pc[w] = "idle" /\ due[w] = {}

-----------------------------------------------------------------------------
\* The candidate's answers are stored and a first run starts on its own.
Submit(s, w) ==
    /\ status[s] = "none"
    /\ Free(w)
    /\ status' = [status EXCEPT ![s] = "pending"]
    /\ due' = [due EXCEPT ![w] = {s}]
    /\ UNCHANGED <<attempts, aged, stale, evaluation, finalized, cur, pc, try, faults>>

\* A reviewer's scoring, saved once and without regard to the automatic one.
Finalize(s) ==
    /\ status[s] # "none" /\ s \notin finalized
    /\ finalized' = finalized \cup {s}
    /\ UNCHANGED <<status, attempts, aged, stale, evaluation, runs, faults>>

\* Mutants: lost runs are not taken up; a run's age does not matter; the
\* attempts are not looked at.
ClaimableFresh(s) ==
    s \notin finalized /\ attempts[s] < MaxAttempts /\ status[s] \in {"pending", "failed"}
ClaimableRunning(s) ==
    s \notin finalized /\ attempts[s] < MaxAttempts /\ status[s] \in {"pending", "failed", "running"}
ClaimableAlways(s) ==
    s \notin finalized /\ (status[s] \in {"pending", "failed"} \/ s \in stale)

\* The condition of the claiming update.
Claimable(s) ==
    /\ s \notin finalized
    /\ attempts[s] < MaxAttempts
    /\ status[s] \in {"pending", "failed"} \/ s \in stale

\* What a round of the timer finds (its limit of 10 exceeds the submissions);
\* fresh submissions are left to the run they started.
Due(s) == Claimable(s) /\ (status[s] = "pending" => s \in aged)

Poll(w) ==
    /\ Free(w)
    /\ {s \in Submissions: Due(s)} # {}
    /\ due' = [due EXCEPT ![w] = {s \in Submissions: Due(s)}]
    /\ UNCHANGED <<rows, cur, pc, try, faults>>

\* One conditional update claims the run, or the slot goes on.
Claim(w, s) ==
    /\ pc[w] = "idle" /\ s \in due[w]
    /\ due' = [due EXCEPT ![w] = @ \ {s}]
    /\ IF Claimable(s)
       THEN /\ status' = [status EXCEPT ![s] = "running"]
            /\ attempts' = [attempts EXCEPT ![s] = @ + 1]
            /\ stale' = stale \ {s}
            /\ cur' = [cur EXCEPT ![w] = s]
            /\ pc' = [pc EXCEPT ![w] = "calling"]
            /\ try' = [try EXCEPT ![w] = attempts[s] + 1]
       ELSE UNCHANGED <<status, attempts, stale, cur, pc, try>>
    /\ UNCHANGED <<aged, evaluation, finalized, faults>>

\* The claim could not be made: logged, and the slot goes on.
ClaimError(w, s) ==
    /\ pc[w] = "idle" /\ s \in due[w]
    /\ faults < MaxFaults
    /\ faults' = faults + 1
    /\ due' = [due EXCEPT ![w] = @ \ {s}]
    /\ UNCHANGED <<rows, cur, pc, try>>

Answer(w) ==
    /\ pc[w] = "calling"
    /\ pc' = [pc EXCEPT ![w] = "answered"]
    /\ UNCHANGED <<rows, due, cur, try, faults>>

EndRun(w) ==
    /\ pc' = [pc EXCEPT ![w] = "idle"]
    /\ cur' = [cur EXCEPT ![w] = NoRun]
    /\ try' = [try EXCEPT ![w] = 0]
    /\ UNCHANGED due

\* Mutants: the result is stored without its status, or whatever a reviewer
\* did meanwhile.
SaveResultOnly(w) ==
    /\ pc[w] = "answered"
    /\ evaluation' = [evaluation EXCEPT ![cur[w]] = IF cur[w] \in finalized THEN @ ELSE try[w]]
    /\ EndRun(w)
    /\ UNCHANGED <<status, attempts, aged, stale, finalized, faults>>

SaveOverReview(w) ==
    /\ pc[w] = "answered"
    /\ evaluation' = [evaluation EXCEPT ![cur[w]] = try[w]]
    /\ status' = [status EXCEPT ![cur[w]] = "done"]
    /\ stale' = stale \ {cur[w]}
    /\ EndRun(w)
    /\ UNCHANGED <<attempts, aged, finalized, faults>>

\* Stored only while no reviewer has finalized; otherwise the run is skipped.
Save(w) ==
    /\ pc[w] = "answered"
    /\ IF cur[w] \notin finalized
       THEN /\ evaluation' = [evaluation EXCEPT ![cur[w]] = try[w]]
            /\ status' = [status EXCEPT ![cur[w]] = "done"]
            /\ stale' = stale \ {cur[w]}
            /\ EndRun(w)
       ELSE /\ pc' = [pc EXCEPT ![w] = "skipping"]
            /\ UNCHANGED <<evaluation, status, stale, due, cur, try>>
    /\ UNCHANGED <<attempts, aged, finalized, faults>>

Skip(w) ==
    /\ pc[w] = "skipping"
    /\ status' = [status EXCEPT ![cur[w]] = "skipped"]
    /\ stale' = stale \ {cur[w]}
    /\ EndRun(w)
    /\ UNCHANGED <<attempts, aged, evaluation, finalized, faults>>

RecordFailure(w) ==
    IF status[cur[w]] = "running"
    THEN /\ status' = [status EXCEPT ![cur[w]] = "failed"]
         /\ stale' = stale \ {cur[w]}
    ELSE UNCHANGED <<status, stale>>

\* The AI fails or misses its deadline.
Fail(w) ==
    /\ pc[w] = "calling"
    /\ RecordFailure(w)
    /\ EndRun(w)
    /\ UNCHANGED <<attempts, aged, evaluation, finalized, faults>>

\* The database fails while the run reads or stores: recorded as a failure of
\* the run, unless that write fails too.
StoreError(w) ==
    /\ pc[w] # "idle"
    /\ faults < MaxFaults
    /\ faults' = faults + 1
    /\ RecordFailure(w) \/ UNCHANGED <<status, stale>>
    /\ EndRun(w)
    /\ UNCHANGED <<attempts, aged, evaluation, finalized>>

\* The process stops with all its rounds.
Crash(i) ==
    /\ faults < MaxFaults
    /\ faults' = faults + 1
    /\ \E n \in 1..MaxSlots: ~Free(<<i, n>>)
    /\ due' = [w \in Slots |-> IF w[1] = i THEN {} ELSE due[w]]
    /\ cur' = [w \in Slots |-> IF w[1] = i THEN NoRun ELSE cur[w]]
    /\ pc' = [w \in Slots |-> IF w[1] = i THEN "idle" ELSE pc[w]]
    /\ try' = [w \in Slots |-> IF w[1] = i THEN 0 ELSE try[w]]
    /\ UNCHANGED rows

Ages(s) ==
    /\ status[s] # "none" /\ s \notin aged
    /\ aged' = aged \cup {s}
    /\ UNCHANGED <<status, attempts, stale, evaluation, finalized, runs, faults>>

\* A run counts as lost; if that takes longer than a run may last, it was.
GoesStale(s) ==
    /\ status[s] = "running" /\ s \notin stale
    /\ StaleOutlivesRun => \A w \in Slots: cur[w] # s
    /\ stale' = stale \cup {s}
    /\ UNCHANGED <<status, attempts, aged, evaluation, finalized, runs, faults>>

Next ==
    \/ \E s \in Submissions, w \in Slots: Submit(s, w)
    \/ \E s \in Submissions: Finalize(s)
    \/ \E w \in Slots: Poll(w)
    \/ \E w \in Slots: \E s \in due[w]: Claim(w, s)
    \/ \E w \in Slots: \E s \in due[w]: ClaimError(w, s)
    \/ \E w \in Slots: Answer(w)
    \/ \E w \in Slots: Save(w)
    \/ \E w \in Slots: Skip(w)
    \/ \E w \in Slots: Fail(w)
    \/ \E w \in Slots: StoreError(w)
    \/ \E i \in Instances: Crash(i)
    \/ \E s \in Submissions: Ages(s)
    \/ \E s \in Submissions: GoesStale(s)

\* The timers keep firing, every run ends by its deadline, and time passes.
Fairness ==
    /\ \A w \in Slots:
         /\ WF_vars(Poll(w))
         /\ WF_vars(\E s \in due[w]: Claim(w, s))
         /\ WF_vars(Answer(w) \/ Fail(w))
         /\ WF_vars(Save(w) \/ Skip(w))
    /\ \A s \in Submissions: WF_vars(Ages(s)) /\ WF_vars(GoesStale(s))

Spec == Init /\ [][Next]_vars
FairSpec == Spec /\ Fairness
-----------------------------------------------------------------------------
TypeOK ==
    /\ status \in [Submissions -> {"none", "pending", "running", "done", "failed", "skipped"}]
    /\ attempts \in [Submissions -> 0..MaxAttempts]
    /\ aged \subseteq Submissions
    /\ stale \subseteq {s \in Submissions: status[s] = "running"}
    /\ evaluation \in [Submissions -> 0..MaxAttempts]
    /\ finalized \subseteq Submissions
    /\ due \in [Slots -> SUBSET Submissions]
    /\ cur \in [Slots -> Submissions \cup {NoRun}]
    /\ pc \in [Slots -> {"idle", "calling", "answered", "skipping"}]
    /\ \A w \in Slots: pc[w] = "idle" <=> cur[w] = NoRun
    /\ try \in [Slots -> 0..MaxAttempts]
    /\ faults \in 0..MaxFaults

\* "Claimed so two runs never overlap": the first run, the timers of several
\* instances and a timer's overlapping rounds never score one submission at
\* once, as long as a run is over before it counts as lost.
RunsDoNotOverlap ==
    StaleOutlivesRun => \A v, w \in Slots: cur[v] = cur[w] /\ cur[v] # NoRun => v = w

\* A stored result is a result of the submission's last run: "never rewritten
\* after the initial AI pass", and no further run starts once it is there.
ScoredOnce ==
    [][StaleOutlivesRun => \A s \in Submissions: evaluation[s] # 0 =>
          evaluation'[s] = evaluation[s] /\ attempts'[s] = attempts[s]]_vars

\* Automatic scoring never writes over a reviewer's work: from the moment the
\* round is finalized its stored evaluation stays, whatever was under way.
ReviewIsNotOverwritten ==
    [][\A s \in finalized: evaluation'[s] = evaluation[s]]_vars

\* The status shown to the reviewer is true: `done` exactly with a stored
\* result, `skipped` only for a finalized round, `running` or `failed` only
\* after an attempt.
StatusIsTrue ==
    \A s \in Submissions:
        /\ status[s] = "done" => evaluation[s] # 0
        /\ evaluation[s] # 0 => status[s] = "done" \/ (status[s] = "skipped" /\ s \in finalized)
        /\ status[s] = "skipped" => s \in finalized
        /\ status[s] \in {"running", "failed"} => attempts[s] > 0

\* Every submission's scoring comes to an end: a result, a reviewer who was
\* first, or all attempts used.
ScoringEnds ==
    \A s \in Submissions:
        status[s] = "pending" ~>
            status[s] \in {"done", "skipped"} \/ s \in finalized \/ attempts[s] = MaxAttempts

\* "A scoring run this old is presumed lost and is picked up again": a stale
\* run does not stay on show as running.
LostRunIsPickedUp ==
    \A s \in Submissions: s \in stale /\ s \notin finalized ~> s \notin stale \/ s \in finalized
=============================================================================
