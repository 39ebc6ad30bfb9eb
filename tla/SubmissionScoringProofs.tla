------------------------ MODULE SubmissionScoringProofs ------------------------
(***************************************************************************)
(* Proofs about SubmissionScoring for any number of submissions, instances *)
(* and rounds under way, attempts and faults.                              *)
(***************************************************************************)
EXTENDS SubmissionScoring, TLAPS

LEMMA TypeInit == Init => TypeOK
BY ScoringAssumption DEF Init, TypeOK

LEMMA TypeStep == TypeOK /\ [Next]_vars => TypeOK'
<1> SUFFICES ASSUME TypeOK, [Next]_vars PROVE TypeOK'
    OBVIOUS
<1> USE ScoringAssumption DEF TypeOK, EndRun
<1>1. ASSUME NEW s \in Submissions, NEW w \in Slots, Submit(s, w) PROVE TypeOK'
    BY <1>1 DEF Submit, Free
<1>2. ASSUME NEW s \in Submissions, Finalize(s) PROVE TypeOK'
    BY <1>2 DEF Finalize, runs
<1>3. ASSUME NEW w \in Slots, Poll(w) PROVE TypeOK'
    BY <1>3 DEF Poll, rows
<1>4. ASSUME NEW w \in Slots, NEW s \in due[w], Claim(w, s) PROVE TypeOK'
  <2>1. CASE Claimable(s)
      BY <1>4, <2>1 DEF Claim, Claimable
  <2>2. CASE ~Claimable(s)
      BY <1>4, <2>2 DEF Claim
  <2> QED BY <2>1, <2>2
<1>5. ASSUME NEW w \in Slots, NEW s \in due[w], ClaimError(w, s) PROVE TypeOK'
    BY <1>5 DEF ClaimError, rows
<1>6. ASSUME NEW w \in Slots, Answer(w) PROVE TypeOK'
    BY <1>6 DEF Answer, rows
<1>7. ASSUME NEW w \in Slots, Save(w) PROVE TypeOK'
  <2>1. CASE cur[w] \notin finalized
      BY <1>7, <2>1 DEF Save
  <2>2. CASE cur[w] \in finalized
      BY <1>7, <2>2 DEF Save
  <2> QED BY <2>1, <2>2
<1>8. ASSUME NEW w \in Slots, Skip(w) PROVE TypeOK'
    BY <1>8 DEF Skip
<1>9. ASSUME NEW w \in Slots, RecordFailure(w) \/ UNCHANGED <<status, stale>>, pc[w] # "idle"
      PROVE  /\ status' \in [Submissions -> {"none", "pending", "running", "done", "failed", "skipped"}]
             /\ stale' \subseteq {s \in Submissions: status'[s] = "running"}
  <2>1. CASE UNCHANGED <<status, stale>>
      BY <2>1
  <2>2. CASE RecordFailure(w)
      BY <1>9, <2>2 DEF RecordFailure
  <2> QED BY <1>9, <2>1, <2>2
<1>10. ASSUME NEW w \in Slots, Fail(w) PROVE TypeOK'
    BY <1>9, <1>10 DEF Fail
<1>11. ASSUME NEW w \in Slots, StoreError(w) PROVE TypeOK'
    BY <1>9, <1>11 DEF StoreError
<1>12. ASSUME NEW i \in Instances, Crash(i) PROVE TypeOK'
    BY <1>12 DEF Crash, rows
<1>13. ASSUME NEW s \in Submissions, Ages(s) PROVE TypeOK'
    BY <1>13 DEF Ages, runs
<1>14. ASSUME NEW s \in Submissions, GoesStale(s) PROVE TypeOK'
    BY <1>14 DEF GoesStale, runs
<1>15. CASE UNCHANGED vars
    BY <1>15 DEF vars, rows, runs
<1> QED BY <1>1, <1>2, <1>3, <1>4, <1>5, <1>6, <1>7, <1>8, <1>10, <1>11, <1>12, <1>13, <1>14, <1>15 DEF Next

\* Every variable keeps its type; no submission is tried too often.
THEOREM TypeCorrect == Spec => []TypeOK
BY TypeInit, TypeStep, PTL DEF Spec

-----------------------------------------------------------------------------
(***************************************************************************)
(* Behind StatusIsTrue: a run at work has been counted, and gives up       *)
(* storing its result only for a finalized round.                          *)
(***************************************************************************)
Counted ==
    \A w \in Slots: pc[w] # "idle" =>
        /\ try[w] > 0 /\ attempts[cur[w]] > 0
        /\ status[cur[w]] # "none"
        /\ pc[w] = "skipping" => cur[w] \in finalized

TrueInv == TypeOK /\ Counted /\ StatusIsTrue

LEMMA TrueStep == TrueInv /\ [Next]_vars => TrueInv'
<1> SUFFICES ASSUME TrueInv, [Next]_vars PROVE TrueInv'
    OBVIOUS
<1>0. TypeOK'
    BY TypeStep DEF TrueInv
<1> USE ScoringAssumption DEF TrueInv, TypeOK, Counted, StatusIsTrue, EndRun
<1>1. ASSUME NEW s \in Submissions, NEW w \in Slots, Submit(s, w) PROVE TrueInv'
    BY <1>0, <1>1 DEF Submit, Free
<1>2. ASSUME NEW s \in Submissions, Finalize(s) PROVE TrueInv'
    BY <1>0, <1>2 DEF Finalize, runs
<1>3. ASSUME NEW w \in Slots, Poll(w) PROVE TrueInv'
    BY <1>0, <1>3 DEF Poll, rows
<1>4. ASSUME NEW w \in Slots, NEW s \in due[w], Claim(w, s) PROVE TrueInv'
  <2>1. CASE Claimable(s)
      BY <1>0, <1>4, <2>1 DEF Claim, Claimable
  <2>2. CASE ~Claimable(s)
      BY <1>0, <1>4, <2>2 DEF Claim
  <2> QED BY <2>1, <2>2
<1>5. ASSUME NEW w \in Slots, NEW s \in due[w], ClaimError(w, s) PROVE TrueInv'
    BY <1>0, <1>5 DEF ClaimError, rows
<1>6. ASSUME NEW w \in Slots, Answer(w) PROVE TrueInv'
    BY <1>0, <1>6 DEF Answer, rows
<1>7. ASSUME NEW w \in Slots, Save(w) PROVE TrueInv'
  <2>1. CASE cur[w] \notin finalized
      BY <1>0, <1>7, <2>1 DEF Save
  <2>2. CASE cur[w] \in finalized
      BY <1>0, <1>7, <2>2 DEF Save
  <2> QED BY <2>1, <2>2
<1>8. ASSUME NEW w \in Slots, Skip(w) PROVE TrueInv'
    BY <1>0, <1>8 DEF Skip
<1>9. ASSUME NEW w \in Slots, RecordFailure(w) \/ UNCHANGED <<status, stale>>, pc[w] # "idle"
      PROVE  \/ UNCHANGED status
             \/ status[cur[w]] = "running" /\ status' = [status EXCEPT ![cur[w]] = "failed"]
    BY <1>9 DEF RecordFailure
<1>10. ASSUME NEW w \in Slots, Fail(w) PROVE TrueInv'
    BY <1>0, <1>9, <1>10 DEF Fail
<1>11. ASSUME NEW w \in Slots, StoreError(w) PROVE TrueInv'
    BY <1>0, <1>9, <1>11 DEF StoreError
<1>12. ASSUME NEW i \in Instances, Crash(i) PROVE TrueInv'
    BY <1>0, <1>12 DEF Crash, rows
<1>13. ASSUME NEW s \in Submissions, Ages(s) PROVE TrueInv'
    BY <1>0, <1>13 DEF Ages, runs
<1>14. ASSUME NEW s \in Submissions, GoesStale(s) PROVE TrueInv'
    BY <1>0, <1>14 DEF GoesStale, runs
<1>15. CASE UNCHANGED vars
    BY <1>0, <1>15 DEF vars, rows, runs
<1> QED BY <1>1, <1>2, <1>3, <1>4, <1>5, <1>6, <1>7, <1>8, <1>10, <1>11, <1>12, <1>13, <1>14, <1>15 DEF Next

LEMMA TrueAlways == Spec => []TrueInv
<1>1. Init => TrueInv
    BY TypeInit DEF Init, TrueInv, Counted, StatusIsTrue
<1> QED BY <1>1, TrueStep, PTL DEF Spec

\* The status shown agrees with what is stored, whatever the timing of runs.
THEOREM StatusTrue == Spec => []StatusIsTrue
BY TrueAlways, PTL DEF TrueInv

\* Only Save writes an evaluation, and it looks at finalizedAt as it writes.
LEMMA OnlySaveStores ==
    ASSUME TypeOK, [Next]_vars, NEW s \in Submissions, evaluation'[s] # evaluation[s]
    PROVE  \E w \in Slots: pc[w] = "answered" /\ cur[w] = s /\ s \notin finalized
<1> USE DEF TypeOK
<1>1. ~UNCHANGED evaluation
    OBVIOUS
<1>2. PICK w \in Slots: Save(w)
    BY <1>1 DEF Next, vars, rows, Submit, Finalize, Poll, Claim, ClaimError, Answer, Skip, Fail,
                StoreError, Crash, Ages, GoesStale
<1>3. CASE cur[w] \notin finalized
    BY <1>2, <1>3 DEF Save
<1>4. CASE cur[w] \in finalized
    BY <1>1, <1>2, <1>4 DEF Save
<1> QED BY <1>3, <1>4

\* Nothing is stored over a finalized review, whatever the timing of runs.
THEOREM ReviewKept == Spec => ReviewIsNotOverwritten
<1>1. TypeOK /\ [Next]_vars => [\A s \in finalized: evaluation'[s] = evaluation[s]]_vars
    BY OnlySaveStores DEF TypeOK
<1> QED BY TypeCorrect, <1>1, PTL DEF Spec, ReviewIsNotOverwritten

-----------------------------------------------------------------------------
(***************************************************************************)
(* If a run is over before it counts as lost: a submission being scored is *)
(* `running`, not stale, and scored by one slot.                           *)
(***************************************************************************)
Alone ==
    \A w \in Slots: cur[w] # NoRun =>
        /\ status[cur[w]] = "running" /\ cur[w] \notin stale
        /\ \A v \in Slots: cur[v] = cur[w] => v = w

LEMMA AloneStep ==
    ASSUME StaleOutlivesRun, TypeOK, Alone, [Next]_vars
    PROVE  Alone'
<1> USE ScoringAssumption DEF TypeOK, Alone, EndRun
<1>1. ASSUME NEW s \in Submissions, NEW w \in Slots, Submit(s, w) PROVE Alone'
    BY <1>1 DEF Submit, Free
<1>2. ASSUME NEW s \in Submissions, Finalize(s) PROVE Alone'
    BY <1>2 DEF Finalize, runs
<1>3. ASSUME NEW w \in Slots, Poll(w) PROVE Alone'
    BY <1>3 DEF Poll, rows
<1>4. ASSUME NEW w \in Slots, NEW s \in due[w], Claim(w, s) PROVE Alone'
  <2>1. CASE Claimable(s)
    <3>1. \A v \in Slots: cur[v] # s
        BY <2>1 DEF Claimable
    <3> QED BY <1>4, <2>1, <3>1 DEF Claim
  <2>2. CASE ~Claimable(s)
      BY <1>4, <2>2 DEF Claim
  <2> QED BY <2>1, <2>2
<1>5. ASSUME NEW w \in Slots, NEW s \in due[w], ClaimError(w, s) PROVE Alone'
    BY <1>5 DEF ClaimError, rows
<1>6. ASSUME NEW w \in Slots, Answer(w) PROVE Alone'
    BY <1>6 DEF Answer, rows
<1>7. ASSUME NEW w \in Slots, Save(w) PROVE Alone'
  <2>1. CASE cur[w] \notin finalized
      BY <1>7, <2>1 DEF Save
  <2>2. CASE cur[w] \in finalized
      BY <1>7, <2>2 DEF Save
  <2> QED BY <2>1, <2>2
<1>8. ASSUME NEW w \in Slots, Skip(w) PROVE Alone'
    BY <1>8 DEF Skip
<1>9. ASSUME NEW w \in Slots, Fail(w) PROVE Alone'
    BY <1>9 DEF Fail, RecordFailure
<1>10. ASSUME NEW w \in Slots, StoreError(w) PROVE Alone'
    BY <1>10 DEF StoreError, RecordFailure
<1>11. ASSUME NEW i \in Instances, Crash(i) PROVE Alone'
    BY <1>11 DEF Crash, rows
<1>12. ASSUME NEW s \in Submissions, Ages(s) PROVE Alone'
    BY <1>12 DEF Ages, runs
<1>13. ASSUME NEW s \in Submissions, GoesStale(s) PROVE Alone'
    BY <1>13 DEF GoesStale, runs
<1>14. CASE UNCHANGED vars
    BY <1>14 DEF vars, rows, runs
<1> QED BY <1>1, <1>2, <1>3, <1>4, <1>5, <1>6, <1>7, <1>8, <1>9, <1>10, <1>11, <1>12, <1>13, <1>14 DEF Next

LEMMA AloneAlways == StaleOutlivesRun => (Spec => [](TrueInv /\ Alone))
<1> SUFFICES ASSUME StaleOutlivesRun PROVE Spec => [](TrueInv /\ Alone)
    OBVIOUS
<1>1. Init => Alone
    BY DEF Init, Alone
<1>2. TrueInv /\ Alone /\ [Next]_vars => Alone'
    BY AloneStep DEF TrueInv
<1> QED BY TrueAlways, <1>1, <1>2, PTL DEF Spec

\* No two runs score one submission at once.
THEOREM NoOverlap == StaleOutlivesRun => (Spec => []RunsDoNotOverlap)
<1> SUFFICES ASSUME StaleOutlivesRun PROVE Spec => []RunsDoNotOverlap
    OBVIOUS
<1>1. TrueInv /\ Alone => RunsDoNotOverlap
    BY DEF Alone, RunsDoNotOverlap
<1> QED BY AloneAlways, <1>1, PTL

\* A stored result is final: no run is at work on its submission, and none can
\* be started.
THEOREM NeverRescored == StaleOutlivesRun => (Spec => ScoredOnce)
<1> SUFFICES ASSUME StaleOutlivesRun PROVE Spec => ScoredOnce
    OBVIOUS
<1>1. ASSUME TrueInv, Alone, [Next]_vars, NEW s \in Submissions, evaluation[s] # 0
      PROVE  evaluation'[s] = evaluation[s] /\ attempts'[s] = attempts[s]
  <2>1. status[s] \in {"done", "skipped"} /\ s \notin stale
      BY <1>1 DEF TrueInv, StatusIsTrue, TypeOK
  <2>2. \A w \in Slots: cur[w] # s
      BY <1>1, <2>1, ScoringAssumption DEF Alone
  <2>3. evaluation'[s] = evaluation[s]
      BY <1>1, <2>2, OnlySaveStores DEF TrueInv
  <2>4. ASSUME NEW w \in Slots, NEW r \in due[w], Claim(w, r) PROVE attempts'[s] = attempts[s]
    <3>1. CASE Claimable(r)
        BY <1>1, <2>1, <2>4, <3>1 DEF Claim, Claimable, TrueInv, TypeOK
    <3>2. CASE ~Claimable(r)
        BY <2>4, <3>2 DEF Claim
    <3> QED BY <3>1, <3>2
  <2>5. attempts'[s] = attempts[s]
      BY <1>1, <2>4 DEF Next, vars, rows, Submit, Finalize, Poll, ClaimError, Answer, Save, Skip, Fail,
                        StoreError, Crash, Ages, GoesStale
  <2> QED BY <2>3, <2>5
<1>2. TrueInv /\ Alone /\ [Next]_vars =>
        [StaleOutlivesRun => \A s \in Submissions: evaluation[s] # 0 =>
            evaluation'[s] = evaluation[s] /\ attempts'[s] = attempts[s]]_vars
    BY <1>1
<1> QED BY AloneAlways, <1>2, PTL DEF Spec, ScoredOnce
=============================================================================
