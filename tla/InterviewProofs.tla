----------------------------- MODULE InterviewProofs -----------------------------
(***************************************************************************)
(* Proofs about Interview: the package of a task and its offer             *)
(* (InterviewPackage), the queue of extractions (ParseQueue), the rubric   *)
(* and the rounds (InterviewPlan), the meetings of the host account        *)
(* (HostMeetings) and the stream of a round (Streams), for any number of   *)
(* requests, processes, jobs, rounds and retries.                          *)
(***************************************************************************)
EXTENDS Interview, FiniteSetTheorems, SequenceTheorems, TLAPS

(***************************************************************************)
(* The queue.  The token of a claim is never zero and never given twice to *)
(* a job, and storing a result takes it from the job for good, so that no  *)
(* worker holds the claim of a job that has a result.                      *)
(***************************************************************************)
JobOK(j, row, stored) ==
    /\ DOMAIN row = {"status", "due", "attempt", "token", "claims", "retries"}
    /\ row.claims \in 0..MaxClaims
    /\ row.token \in Nat
    /\ stored # {} => /\ \E k \in 1..MaxClaims: stored = {k}
                      /\ row.status = "needs_review"
                      /\ row.token = 0

PollOK(poll) ==
    /\ poll.at \in {"found", "call"} => poll.job \in ParseJobs
    /\ poll.at = "call" => poll.token \in 1..MaxClaims

QueueInv ==
    /\ DOMAIN parse = ParseJobs /\ DOMAIN results = ParseJobs /\ DOMAIN polls = Workers
    /\ \A j \in ParseJobs: JobOK(j, parse[j], results[j])
    /\ \A w \in Workers: PollOK(polls[w])

LEMMA QueueStep == Q!QueueAssumption /\ QueueInv /\ [Q!Next]_(Q!vars) => QueueInv'
<1> SUFFICES ASSUME Q!QueueAssumption, QueueInv, [Q!Next]_(Q!vars) PROVE QueueInv'
    OBVIOUS
\* A worker moves on.
<1>1. ASSUME NEW w \in Workers, NEW p, PollOK(p), polls' = [polls EXCEPT ![w] = p], UNCHANGED <<parse, results>>
      PROVE  QueueInv'
    BY <1>1 DEF QueueInv
\* A job's row changes.
<1>2. ASSUME NEW j \in ParseJobs, NEW row, NEW stored, JobOK(j, row, stored),
             parse' = [parse EXCEPT ![j] = row],
             results' = [results EXCEPT ![j] = stored] \/ (results' = results /\ stored = results[j])
      PROVE  /\ DOMAIN parse' = ParseJobs /\ DOMAIN results' = ParseJobs
             /\ \A i \in ParseJobs: JobOK(i, parse'[i], results'[i])
    BY <1>2 DEF QueueInv, JobOK
<1>3. ASSUME NEW w \in Workers, NEW p, PollOK(p), polls' = [polls EXCEPT ![w] = p]
      PROVE  DOMAIN polls' = Workers /\ \A v \in Workers: PollOK(polls'[v])
    BY <1>3 DEF QueueInv
<1>r. PollOK(Q!Resting)
    BY DEF PollOK, Q!Resting
<1>4. ASSUME NEW w \in Workers, NEW j \in ParseJobs, Q!Find(w, j) PROVE QueueInv'
  <2> DEFINE p == [at |-> "found", job |-> j, attempt |-> parse[j].attempt]
  <2>1. polls' = [polls EXCEPT ![w] = p] /\ UNCHANGED <<parse, results>>
      BY <1>4 DEF Q!Find
  <2>2. PollOK(p)
      BY DEF PollOK
  <2> HIDE DEF p
  <2> QED BY <2>1, <2>2, <1>1
<1>5. ASSUME NEW w \in Workers, Q!Claim(w) PROVE QueueInv'
  <2> DEFINE j == polls[w].job
             n == parse[j].claims + 1
             row == [parse[j] EXCEPT !.status = "parsing", !.due = FALSE, !.attempt = parse[j].attempt + 1,
                                     !.claims = n, !.token = n]
             p == [at |-> "call", job |-> j, attempt |-> polls[w].attempt, token |-> n]
  <2>1. j \in ParseJobs
      BY <1>5 DEF Q!Claim, QueueInv, PollOK
  <2>2. CASE Q!Eligible(j)
    <3>1. /\ parse[j].claims < MaxClaims /\ parse' = [parse EXCEPT ![j] = row] /\ UNCHANGED results
          /\ polls' = [polls EXCEPT ![w] = p]
        BY <1>5, <2>2 DEF Q!Claim
    <3>2. n \in 1..MaxClaims
        BY <2>1, <3>1 DEF QueueInv, JobOK, Q!QueueAssumption
    <3>3. results[j] = {}
        BY <2>1, <2>2 DEF Q!Eligible, QueueInv, JobOK
    <3>4. DOMAIN parse[j] = {"status", "due", "attempt", "token", "claims", "retries"}
        BY <2>1 DEF QueueInv, JobOK
    <3> HIDE DEF n, j
    <3>5. JobOK(j, row, results[j])
        BY <3>2, <3>3, <3>4 DEF JobOK
    <3>6. PollOK(p)
        BY <2>1, <3>2 DEF PollOK
    <3> HIDE DEF row, p
    <3> QED BY <1>2, <1>3, <2>1, <3>1, <3>5, <3>6 DEF QueueInv
  <2>3. CASE ~Q!Eligible(j)
    <3>1. polls' = [polls EXCEPT ![w] = Q!Resting] /\ UNCHANGED <<parse, results>>
        BY <1>5, <2>3 DEF Q!Claim
    <3> QED BY <3>1, <1>1, <1>r
  <2> QED BY <2>2, <2>3
<1>6. ASSUME NEW w \in Workers, Q!StoreResult(w) PROVE QueueInv'
  <2> DEFINE j == polls[w].job
             k == polls[w].token
             row == [parse[j] EXCEPT !.status = "needs_review", !.token = 0]
  <2>1. /\ j \in ParseJobs /\ k \in 1..MaxClaims /\ polls' = [polls EXCEPT ![w] = Q!Resting]
      BY <1>6 DEF Q!StoreResult, QueueInv, PollOK
  <2>2. CASE parse[j].token = k
    <3>1. parse' = [parse EXCEPT ![j] = row] /\ results' = [results EXCEPT ![j] = results[j] \cup {k}]
        BY <1>6, <2>2 DEF Q!StoreResult, Q!HoldsClaim
    <3>2. results[j] = {} /\ parse[j].claims \in 0..MaxClaims
          /\ DOMAIN parse[j] = {"status", "due", "attempt", "token", "claims", "retries"}
        BY <2>1, <2>2 DEF QueueInv, JobOK
    <3> HIDE DEF j, k
    <3>3. JobOK(j, row, results[j] \cup {k})
        BY <2>1, <3>2 DEF JobOK
    <3> HIDE DEF row
    <3> QED BY <1>2, <1>3, <1>r, <2>1, <3>1, <3>3 DEF QueueInv
  <2>3. CASE parse[j].token # k
    <3>1. UNCHANGED <<parse, results>>
        BY <1>6, <2>3 DEF Q!StoreResult, Q!HoldsClaim
    <3> QED BY <2>1, <3>1, <1>1, <1>r
  <2> QED BY <2>2, <2>3
<1>7. ASSUME NEW w \in Workers, NEW retryable \in BOOLEAN, Q!StoreFailure(w, retryable) PROVE QueueInv'
  <2> DEFINE j == polls[w].job
             next == IF retryable /\ polls[w].attempt < 2 THEN "queued" ELSE "failed"
             row == [parse[j] EXCEPT !.token = 0, !.due = FALSE, !.status = next]
  <2>1. /\ j \in ParseJobs /\ polls[w].token \in 1..MaxClaims /\ polls' = [polls EXCEPT ![w] = Q!Resting]
        /\ UNCHANGED results
      BY <1>7 DEF Q!StoreFailure, QueueInv, PollOK
  <2>2. CASE parse[j].token = polls[w].token
    <3>1. parse' = [parse EXCEPT ![j] = row]
        BY <1>7, <2>2 DEF Q!StoreFailure, Q!HoldsClaim
    <3>2. results[j] = {} /\ parse[j].claims \in 0..MaxClaims
          /\ DOMAIN parse[j] = {"status", "due", "attempt", "token", "claims", "retries"}
        BY <2>1, <2>2 DEF QueueInv, JobOK
    <3> HIDE DEF j, next
    <3>3. JobOK(j, row, results[j])
        BY <2>1, <3>2 DEF JobOK
    <3> HIDE DEF row
    <3> QED BY <1>2, <1>3, <1>r, <2>1, <3>1, <3>3 DEF QueueInv
  <2>3. CASE parse[j].token # polls[w].token
    <3>1. UNCHANGED <<parse, results>>
        BY <1>7, <2>1, <2>3 DEF Q!StoreFailure, Q!HoldsClaim
    <3> QED BY <2>1, <3>1, <1>1, <1>r
  <2> QED BY <2>2, <2>3
<1>8. ASSUME NEW j \in ParseJobs, Q!BecomeDue(j) PROVE QueueInv'
  <2> DEFINE row == [parse[j] EXCEPT !.due = TRUE]
  <2>1. parse' = [parse EXCEPT ![j] = row] /\ UNCHANGED <<polls, results>>
      BY <1>8 DEF Q!BecomeDue
  <2>2. JobOK(j, row, results[j])
      BY DEF QueueInv, JobOK
  <2> HIDE DEF row
  <2> QED BY <1>2, <2>1, <2>2 DEF QueueInv
<1>9. ASSUME NEW j \in ParseJobs, Q!RetryParse(j) PROVE QueueInv'
  <2> DEFINE row == [parse[j] EXCEPT !.status = "queued", !.due = TRUE, !.attempt = 0,
                                     !.retries = parse[j].retries + 1]
  <2>1. parse' = [parse EXCEPT ![j] = row] /\ UNCHANGED <<polls, results>> /\ parse[j].status = "failed"
      BY <1>9 DEF Q!RetryParse
  <2>2. results[j] = {}
      BY <2>1 DEF QueueInv, JobOK
  <2>3. JobOK(j, row, results[j])
      BY <2>2 DEF QueueInv, JobOK
  <2> HIDE DEF row
  <2> QED BY <1>2, <2>1, <2>3 DEF QueueInv
<1>10. ASSUME NEW w \in Workers, Q!RestartWorker(w) PROVE QueueInv'
    BY <1>10, <1>1, <1>r DEF Q!RestartWorker
<1>11. CASE UNCHANGED Q!vars
    BY <1>11 DEF Q!vars, QueueInv
<1> QED BY <1>4, <1>5, <1>6, <1>7, <1>8, <1>9, <1>10, <1>11 DEF Q!Next

\* However leases lapse, processes die and people retry, a job has one result
\* and goes on waiting for its review.
THEOREM JobsGetOneResult == Q!QueueAssumption => (Q!Spec => []OneResultPerJob)
<1> SUFFICES ASSUME Q!QueueAssumption PROVE Q!Spec => []OneResultPerJob
    OBVIOUS
<1>1. Q!Init => QueueInv
    BY DEF Q!QueueAssumption, Q!Init, QueueInv, JobOK, PollOK, Q!Resting
<1>2. QueueInv /\ [Q!Next]_(Q!vars) => QueueInv'
    BY QueueStep
<1>3. QueueInv => OneResultPerJob
    BY DEF QueueInv, JobOK, OneResultPerJob, Q!OneResultPerJob
<1> QED BY <1>1, <1>2, <1>3, PTL DEF Q!Spec

-----------------------------------------------------------------------------
(***************************************************************************)
(* The stream.  What gives up the marker is the newest loop alone, and a   *)
(* new marker comes with a new loop.                                       *)
(***************************************************************************)
StreamInv ==
    /\ generation \in 0..MaxRequests
    /\ DOMAIN attempts = S!Loops /\ \A g \in S!Loops: DOMAIN attempts[g] = {"at", "try"}
    /\ requested => generation \in S!Loops
    /\ S!MarkerIsServed

\* One loop moves on, and the newest one does not give the marker up by it.
LEMMA LoopMoves ==
    ASSUME StreamInv, NEW g \in S!Loops, NEW row, DOMAIN row = {"at", "try"},
           attempts' = [attempts EXCEPT ![g] = row], generation' = generation,
           requested' => requested,
           requested' /\ g = generation => row.at \in {"try", "asking", "mark", "over"} \/ streaming' = g,
           streaming' = streaming \/ streaming' = generation
    PROVE  StreamInv'
    BY DEF StreamInv, S!Loops, S!MarkerIsServed

LEMMA StreamStep == S!StreamsAssumption /\ StreamInv /\ [S!Next]_(S!vars) => StreamInv'
<1> SUFFICES ASSUME S!StreamsAssumption, StreamInv, [S!Next]_(S!vars) PROVE StreamInv'
    OBVIOUS
<1> DEFINE Moved(g, at) == [attempts[g] EXCEPT !.at = at]
           More(g) == [at |-> "try", try |-> attempts[g].try + 1]
<1>1. ASSUME NEW g \in S!Loops, NEW at
      PROVE  DOMAIN Moved(g, at) = {"at", "try"} /\ Moved(g, at).at = at
    BY DEF StreamInv
<1>2. DOMAIN S!NotRun = {"at", "try"} /\ \A g: DOMAIN More(g) = {"at", "try"} /\ More(g).at = "try"
    BY DEF S!NotRun
<1>3. ASSUME NEW g \in S!Loops, NEW at \in {"try", "asking", "mark", "over"}, S!Goes(g, at),
             UNCHANGED <<requested, generation, streaming>>
      PROVE  StreamInv'
  <2> DEFINE row == Moved(g, at)
  <2>1. attempts' = [attempts EXCEPT ![g] = row]
      BY <1>3 DEF S!Goes
  <2>2. DOMAIN row = {"at", "try"} /\ row.at = at
      BY <1>1
  <2> HIDE DEF row
  <2> QED BY <1>3, <2>1, <2>2, LoopMoves
<1>4. ASSUME NEW g \in S!Loops, S!Ends(g), UNCHANGED <<requested, generation, streaming>>, S!Superseded(g) \/ ~requested
      PROVE  StreamInv'
    BY <1>2, <1>4, LoopMoves DEF S!Ends, S!Superseded
<1>5. ASSUME NEW g \in S!Loops, S!TriesAgain(g), UNCHANGED <<requested, generation, streaming>>
      PROVE  StreamInv'
  <2>1. CASE attempts' = [attempts EXCEPT ![g] = More(g)]
    <3> DEFINE row == More(g)
    <3>1. DOMAIN row = {"at", "try"} /\ row.at = "try" /\ attempts' = [attempts EXCEPT ![g] = row]
        BY <1>2, <2>1
    <3> HIDE DEF row
    <3> QED BY <1>5, <3>1, LoopMoves
  <2>2. CASE S!Goes(g, "over")
      BY <1>3, <1>5, <2>2
  <2> QED BY <1>5, <2>1, <2>2 DEF S!TriesAgain
<1>6. ASSUME NEW g \in S!Loops, S!Try(g) PROVE StreamInv'
    BY <1>3, <1>4, <1>6 DEF S!Try
<1>7. ASSUME NEW g \in S!Loops, S!NoAccount(g) PROVE StreamInv'
    BY <1>3, <1>7 DEF S!NoAccount
<1>8. ASSUME NEW g \in S!Loops, S!Accept(g) PROVE StreamInv'
    BY <1>2, <1>8, LoopMoves DEF S!Accept, S!Ends, S!Superseded
<1>9. ASSUME NEW g \in S!Loops, NEW forGood \in BOOLEAN, S!Reject(g, forGood) PROVE StreamInv'
    BY <1>3, <1>4, <1>5, <1>9 DEF S!Reject
<1>10. ASSUME NEW g \in S!Loops, NEW noClient \in BOOLEAN, S!NotSent(g, noClient) PROVE StreamInv'
    BY <1>3, <1>5, <1>10 DEF S!NotSent
<1>11. ASSUME NEW g \in S!Loops, S!MarkError(g) PROVE StreamInv'
    BY <1>3, <1>11 DEF S!MarkError
<1>12. ASSUME NEW g \in S!Loops, S!GiveUp(g) PROVE StreamInv'
  <2>1. CASE S!Superseded(g)
      BY <1>4, <1>12, <2>1 DEF S!GiveUp
  <2>2. CASE ~S!Superseded(g)
    <3> DEFINE row == Moved(g, "look")
    <3>1. attempts' = [attempts EXCEPT ![g] = row] /\ ~requested' /\ UNCHANGED <<generation, streaming>>
        BY <1>12, <2>2 DEF S!GiveUp, S!Goes
    <3>2. DOMAIN row = {"at", "try"}
        BY <1>1
    <3> HIDE DEF row
    <3> QED BY <3>1, <3>2, LoopMoves
  <2> QED BY <2>1, <2>2
<1>13. ASSUME NEW g \in S!Loops, NEW row, DOMAIN row = {"at", "try"}, attempts[g].at \in {"look", "fail"},
              attempts' = [attempts EXCEPT ![g] = row], UNCHANGED <<requested, generation, streaming>>
       PROVE  StreamInv'
  <2>1. requested /\ g = generation => streaming = g
      BY <1>13 DEF StreamInv, S!MarkerIsServed
  <2> QED BY <1>13, <2>1, LoopMoves
<1>14. ASSUME NEW g \in S!Loops, S!LookUp(g) PROVE StreamInv'
  <2>1. attempts[g].at = "look" /\ UNCHANGED <<requested, generation, streaming>>
      BY <1>14 DEF S!LookUp
  <2>2. CASE S!Ends(g)
      BY <1>2, <1>13, <2>1, <2>2 DEF S!Ends
  <2>3. CASE S!Goes(g, "fail")
    <3> DEFINE row == Moved(g, "fail")
    <3>1. attempts' = [attempts EXCEPT ![g] = row] /\ DOMAIN row = {"at", "try"}
        BY <1>1, <2>3 DEF S!Goes
    <3> HIDE DEF row
    <3> QED BY <1>13, <2>1, <3>1
  <2> QED BY <1>14, <2>2, <2>3 DEF S!LookUp
<1>15. ASSUME NEW g \in S!Loops, S!MarkFailed(g) PROVE StreamInv'
    BY <1>2, <1>13, <1>15 DEF S!MarkFailed, S!Ends
\* A request: the marker, with a loop of its own, or nothing.
<1>16. ASSUME NEW force, S!Request(force), UNCHANGED streaming PROVE StreamInv'
  <2>1. CASE UNCHANGED <<requested, generation, attempts>>
      BY <1>16, <2>1 DEF StreamInv, S!MarkerIsServed, S!Loops
  <2>2. CASE ~UNCHANGED <<requested, generation, attempts>>
    <3> DEFINE row == [at |-> "try", try |-> 1]
    <3>1. generation < MaxRequests /\ generation' = generation + 1
          /\ attempts' = [attempts EXCEPT ![generation + 1] = row]
        BY <1>16, <2>2 DEF S!Request
    <3>2. generation + 1 \in S!Loops /\ generation' \in 0..MaxRequests
        BY <3>1 DEF StreamInv, S!Loops, S!StreamsAssumption
    <3>3. DOMAIN row = {"at", "try"} /\ row.at = "try"
        OBVIOUS
    <3> HIDE DEF row
    <3> QED BY <3>1, <3>2, <3>3 DEF StreamInv, S!Loops, S!MarkerIsServed
  <2> QED BY <2>1, <2>2
<1>17. ASSUME requested' => requested, UNCHANGED <<generation, attempts, streaming>> PROVE StreamInv'
    BY <1>17 DEF StreamInv, S!MarkerIsServed, S!Loops
<1>18. ASSUME NEW h \in Hosts, S!HostJoins(h) \/ S!HostConnects(h) \/ S!HostRequests(h) PROVE StreamInv'
    BY <1>16, <1>17, <1>18 DEF S!HostJoins, S!HostConnects, S!HostRequests
<1>19. ASSUME NEW h \in Hooks, S!Started(h) \/ S!StartedClears(h) \/ S!StartedRequests(h) PROVE StreamInv'
    BY <1>16, <1>17, <1>19 DEF S!Started, S!StartedClears, S!StartedRequests
<1>20. ASSUME S!Ended PROVE StreamInv'
    BY <1>17, <1>20 DEF S!Ended
<1>21. ASSUME NEW to, S!StreamWrites(to) PROVE StreamInv'
    BY <1>17, <1>21 DEF S!StreamWrites
<1>22. ASSUME S!Crash PROVE StreamInv'
    BY <1>22 DEF S!Crash, StreamInv, S!MarkerIsServed, S!NotRun, S!StreamsAssumption, S!Loops
<1>23. CASE UNCHANGED S!vars
    BY <1>17, <1>23 DEF S!vars
<1> DEFINE Goal == StreamInv'
<1> HIDE DEF Goal
<1>24. Goal
    BY <1>6, <1>7, <1>8, <1>9, <1>10, <1>11, <1>12, <1>14, <1>15, <1>18, <1>19, <1>20, <1>21, <1>22, <1>23 DEF S!Next, Goal
<1> QED BY <1>24 DEF Goal

\* However requests supersede each other, fail and end, no meeting stays marked
\* as asked for without anybody asking.
THEOREM MarkersAreServed == S!StreamsAssumption => (S!Spec => []MarkerIsServed)
<1> SUFFICES ASSUME S!StreamsAssumption PROVE S!Spec => []MarkerIsServed
    OBVIOUS
<1>1. S!Init => StreamInv
    BY DEF S!Init, StreamInv, S!MarkerIsServed, S!NotRun, S!StreamsAssumption, S!Loops
<1>2. StreamInv /\ [S!Next]_(S!vars) => StreamInv'
    BY StreamStep
<1>3. StreamInv => MarkerIsServed
    BY DEF StreamInv, MarkerIsServed
<1> QED BY <1>1, <1>2, <1>3, PTL DEF S!Spec

-----------------------------------------------------------------------------
(***************************************************************************)
(* The plan.  A rubric version stays confirmed once it is; what a request  *)
(* to schedule will write is confirmed, and is the brief the round has, if *)
(* the round has still the version the request read.                       *)
(***************************************************************************)
\* A version of the rubric that is confirmed.
IsConfirmed(v, rs) == v \in 1..Len(rs) /\ rs[v] = "confirmed"

\* The newest one, which P!Confirmed chooses.
IsNewest(v, rs) ==
    /\ v \in 0..Len(rs)
    /\ v = 0 \/ rs[v] = "confirmed"
    /\ \A w \in DOMAIN rs: rs[w] = "confirmed" => w <= v

RoundOK(round, rs) ==
    /\ DOMAIN round = {"complete", "timed", "brief", "done", "version"}
    /\ round.version \in Nat
    /\ round.brief # 0 => IsConfirmed(round.brief, rs)

RequestOK(req, all, rs) ==
    /\ req.op = "rubric" => req.draft \in 1..Len(rs)
    /\ req.op \in {"update", "schedule", "complete"} => req.round \in Rounds
    /\ req.op = "schedule" =>
        /\ IsConfirmed(req.brief, rs)
        /\ req.version \in Nat /\ req.version <= all[req.round].version
        /\ req.version = all[req.round].version =>
             all[req.round].brief \in {0, req.brief}

PlanInv ==
    /\ rubrics \in Seq({"draft", "confirmed"}) /\ Len(rubrics) > 0
    /\ \E v: IsNewest(v, rubrics)
    /\ DOMAIN rounds = Rounds /\ \A r \in Rounds: RoundOK(rounds[r], rubrics)
    /\ DOMAIN reqs = Planners /\ \A p \in Planners: RequestOK(reqs[p], rounds, rubrics)

BriefsKept ==
    \A r \in Rounds:
       /\ rounds[r].brief # 0 => rounds'[r].brief = rounds[r].brief
       /\ rounds'[r].brief # 0 => rubrics[rounds'[r].brief] = "confirmed"

LEMMA ConfirmedIsNewest == PlanInv => P!Confirmed = 0 \/ IsConfirmed(P!Confirmed, rubrics)
<1> SUFFICES ASSUME PlanInv PROVE P!Confirmed = 0 \/ IsConfirmed(P!Confirmed, rubrics)
    OBVIOUS
<1>1. PICK v: IsNewest(v, rubrics)
    BY DEF PlanInv
<1>2. P!Confirmed = CHOOSE u \in 0..Len(rubrics): (u = 0 \/ rubrics[u] = "confirmed")
                        /\ \A w \in DOMAIN rubrics: rubrics[w] = "confirmed" => w <= u
    BY DEF P!Confirmed
<1>3. IsNewest(P!Confirmed, rubrics)
    BY <1>1, <1>2, Zenon DEF IsNewest
<1>4. Len(rubrics) \in Nat
    BY DEF PlanInv
<1> QED BY <1>3, <1>4 DEF IsNewest, IsConfirmed

\* Versions are added, and one, d, may become confirmed.
LEMMA NewestThen ==
    ASSUME NEW rs, NEW more, NEW n \in Nat, NEW m \in Nat, n <= m,
           Len(rs) = n, DOMAIN rs = 1..n, Len(more) = m, DOMAIN more = 1..m,
           \A w \in 1..n: rs[w] = "confirmed" => more[w] = "confirmed",
           NEW d \in 0..m, d # 0 => more[d] = "confirmed",
           \A w \in 1..m: more[w] = "confirmed" => w = d \/ (w \in 1..n /\ rs[w] = "confirmed"),
           \E v: IsNewest(v, rs)
    PROVE  /\ \E v: IsNewest(v, more)
           /\ \A v: IsConfirmed(v, rs) => IsConfirmed(v, more)
<1>1. PICK v: IsNewest(v, rs)
    OBVIOUS
<1>2. v \in 0..n
    BY <1>1 DEF IsNewest
<1>3. \A w \in 1..n: rs[w] = "confirmed" => w <= v
    BY <1>1 DEF IsNewest
<1>4. \E u: IsNewest(u, more)
  <2>1. CASE d > v
    <3>1. \A w \in 1..m: more[w] = "confirmed" => w <= d
        BY <1>2, <1>3, <2>1
    <3> QED BY <1>2, <2>1, <3>1 DEF IsNewest
  <2>2. CASE d <= v
    <3>1. \A w \in 1..m: more[w] = "confirmed" => w <= v
        BY <1>2, <1>3, <2>2
    <3>2. v \in 0..m /\ (v = 0 \/ more[v] = "confirmed")
        BY <1>1, <1>2 DEF IsNewest
    <3> QED BY <3>1, <3>2 DEF IsNewest
  <2> QED BY <1>2, <2>1, <2>2
<1>5. ASSUME NEW u, IsConfirmed(u, rs) PROVE IsConfirmed(u, more)
    BY <1>5 DEF IsConfirmed
<1> QED BY <1>4, <1>5

LEMMA RubricsGrow ==
    ASSUME PlanInv,
           \/ rubrics' = Append(rubrics, "draft")
           \/ \E d \in 1..Len(rubrics): rubrics' = [rubrics EXCEPT ![d] = "confirmed"]
    PROVE  /\ rubrics' \in Seq({"draft", "confirmed"}) /\ \E v: IsNewest(v, rubrics')
           /\ Len(rubrics) \in Nat /\ Len(rubrics') \in Nat /\ Len(rubrics') >= Len(rubrics)
           /\ \A v: IsConfirmed(v, rubrics) => IsConfirmed(v, rubrics')
<1>1. rubrics \in Seq({"draft", "confirmed"}) /\ Len(rubrics) \in Nat /\ DOMAIN rubrics = 1..Len(rubrics)
      /\ \E v: IsNewest(v, rubrics)
    BY DEF PlanInv
<1>2. CASE rubrics' = Append(rubrics, "draft")
  <2> DEFINE n == Len(rubrics)
             m == n + 1
  <2>1. /\ rubrics' \in Seq({"draft", "confirmed"}) /\ Len(rubrics') = m
        /\ rubrics'[m] = "draft" /\ \A w \in 1..n: rubrics'[w] = rubrics[w]
        /\ DOMAIN rubrics' = 1..m
      BY <1>1, <1>2
  <2>2. n \in Nat /\ m \in Nat /\ n <= m /\ 0 \in 0..m /\ Len(rubrics) = n /\ DOMAIN rubrics = 1..n
      BY <1>1
  <2>3. \A w \in 1..m: w \in 1..n \/ w = m
      BY <1>1
  <2> HIDE DEF n, m
  <2>4. \A w \in 1..m: rubrics'[w] = "confirmed" => w = 0 \/ (w \in 1..n /\ rubrics[w] = "confirmed")
      BY <2>1, <2>3
  <2>5. \A w \in 1..n: rubrics[w] = "confirmed" => rubrics'[w] = "confirmed"
      BY <2>1
  <2>6. /\ \E v: IsNewest(v, rubrics')
        /\ \A v: IsConfirmed(v, rubrics) => IsConfirmed(v, rubrics')
      BY <1>1, <2>1, <2>2, <2>4, <2>5, NewestThen
  <2> QED BY <1>1, <2>1, <2>2, <2>6
<1>3. ASSUME NEW d \in 1..Len(rubrics), rubrics' = [rubrics EXCEPT ![d] = "confirmed"]
      PROVE  /\ rubrics' \in Seq({"draft", "confirmed"}) /\ \E u: IsNewest(u, rubrics')
             /\ Len(rubrics') = Len(rubrics)
             /\ \A u: IsConfirmed(u, rubrics) => IsConfirmed(u, rubrics')
  <2> DEFINE n == Len(rubrics)
  <2>1. /\ rubrics' \in Seq({"draft", "confirmed"}) /\ Len(rubrics') = n
        /\ DOMAIN rubrics' = 1..n
        /\ rubrics'[d] = "confirmed" /\ \A w \in 1..n: w # d => rubrics'[w] = rubrics[w]
    <3> DEFINE Words == {"draft", "confirmed"}
               e == "confirmed"
    <3>1. rubrics \in Seq(Words) /\ e \in Words /\ d \in 1..Len(rubrics)
        BY <1>1, <1>3
    <3> HIDE DEF Words, e
    <3>2. /\ [rubrics EXCEPT ![d] = e] \in Seq(Words)
          /\ Len([rubrics EXCEPT ![d] = e]) = Len(rubrics)
          /\ \A j \in 1..Len(rubrics): [rubrics EXCEPT ![d] = e][j] = IF j = d THEN e ELSE rubrics[j]
        BY <3>1, ExceptSeq
    <3>3. DOMAIN [rubrics EXCEPT ![d] = e] = DOMAIN rubrics
        OBVIOUS
    <3>4. rubrics' = [rubrics EXCEPT ![d] = e]
        BY <1>3 DEF e
    <3>5. /\ rubrics' \in Seq(Words) /\ Len(rubrics') = n /\ DOMAIN rubrics' = 1..n
          /\ rubrics'[d] = e /\ \A w \in 1..n: w # d => rubrics'[w] = rubrics[w]
        BY <1>1, <1>3, <3>2, <3>3, <3>4
    <3> QED BY <3>5 DEF Words, e
  <2>2. n \in Nat /\ n <= n /\ d \in 0..n /\ Len(rubrics) = n /\ DOMAIN rubrics = 1..n
      BY <1>1
  <2> HIDE DEF n
  <2>3. \A w \in 1..n: rubrics'[w] = "confirmed" => w = d \/ (w \in 1..n /\ rubrics[w] = "confirmed")
      BY <2>1
  <2>4. \A w \in 1..n: rubrics[w] = "confirmed" => rubrics'[w] = "confirmed"
      BY <2>1
  <2>5. /\ \E v: IsNewest(v, rubrics')
        /\ \A v: IsConfirmed(v, rubrics) => IsConfirmed(v, rubrics')
      BY <1>1, <2>1, <2>2, <2>3, <2>4, NewestThen
  <2> QED BY <2>1, <2>2, <2>5
<1> QED BY <1>1, <1>2, <1>3

LEMMA PlanStep == P!PlanAssumption /\ PlanInv /\ [P!Next]_(P!vars) => PlanInv' /\ BriefsKept
<1> SUFFICES ASSUME P!PlanAssumption, PlanInv, [P!Next]_(P!vars) PROVE PlanInv' /\ BriefsKept
    OBVIOUS
<1> DEFINE Goal == PlanInv' /\ BriefsKept
<1> HIDE DEF Goal
<1>0. rubrics \in Seq({"draft", "confirmed"}) /\ Len(rubrics) \in Nat /\ Len(rubrics) > 0
    BY DEF PlanInv
<1>1. ASSUME UNCHANGED rounds PROVE BriefsKept
    BY <1>1 DEF BriefsKept, PlanInv, RoundOK, IsConfirmed
\* A request goes on, and writes nothing.
<1>2. ASSUME NEW p \in Planners, NEW req, RequestOK(req, rounds, rubrics), reqs' = [reqs EXCEPT ![p] = req],
             UNCHANGED <<rubrics, rounds>>
      PROVE  Goal
    BY <1>1, <1>2 DEF Goal, PlanInv
<1>3. \A all, rs: RequestOK(P!Free, all, rs)
    BY DEF RequestOK, P!Free
\* The rubric changes.
<1>4. ASSUME \/ rubrics' = Append(rubrics, "draft")
             \/ \E d \in 1..Len(rubrics): rubrics' = [rubrics EXCEPT ![d] = "confirmed"],
             UNCHANGED rounds,
             \/ UNCHANGED reqs
             \/ \E p \in Planners: reqs' = [reqs EXCEPT ![p] = P!Free]
      PROVE  Goal
  <2>1. /\ rubrics' \in Seq({"draft", "confirmed"}) /\ \E v: IsNewest(v, rubrics')
        /\ Len(rubrics') \in Nat /\ Len(rubrics') >= Len(rubrics)
        /\ \A v: IsConfirmed(v, rubrics) => IsConfirmed(v, rubrics')
      BY <1>4, RubricsGrow
  <2>2. \A round: RoundOK(round, rubrics) => RoundOK(round, rubrics')
      BY <2>1 DEF RoundOK
  <2>3. \A req: RequestOK(req, rounds, rubrics) => RequestOK(req, rounds, rubrics')
      BY <1>0, <2>1 DEF RequestOK
  <2>4. DOMAIN reqs' = Planners /\ \A p \in Planners: RequestOK(reqs'[p], rounds, rubrics')
      BY <1>3, <1>4, <2>3 DEF PlanInv
  <2> QED BY <1>0, <1>1, <1>4, <2>1, <2>2, <2>4 DEF Goal, PlanInv
\* A round is written by a request that ends.
<1>5. ASSUME NEW p \in Planners, NEW r \in Rounds, NEW round, RoundOK(round, rubrics),
             rounds' = [rounds EXCEPT ![r] = round], reqs' = [reqs EXCEPT ![p] = P!Free], UNCHANGED rubrics,
             round.version >= rounds[r].version,
             round.version = rounds[r].version => round.brief = rounds[r].brief,
             rounds[r].brief # 0 => round.brief = rounds[r].brief
      PROVE  Goal
  <2>1. DOMAIN rounds' = Rounds /\ rounds'[r] = round /\ \A q \in Rounds: q # r => rounds'[q] = rounds[q]
      BY <1>5 DEF PlanInv
  <2>2. \A q \in Rounds: RoundOK(rounds'[q], rubrics)
      BY <1>5, <2>1 DEF PlanInv
  <2>3. \A q \in Rounds: rounds[q].version \in Nat /\ rounds'[q].version \in Nat
      BY <2>2 DEF PlanInv, RoundOK
  <2>4. \A req: RequestOK(req, rounds, rubrics) => RequestOK(req, rounds', rubrics)
      BY <1>5, <2>1, <2>3 DEF RequestOK
  <2>5. DOMAIN reqs' = Planners /\ \A q \in Planners: RequestOK(reqs'[q], rounds', rubrics)
      BY <1>3, <1>5, <2>4 DEF PlanInv
  <2>6. BriefsKept
    <3> SUFFICES ASSUME NEW q \in Rounds
                 PROVE  /\ rounds[q].brief # 0 => rounds'[q].brief = rounds[q].brief
                        /\ rounds'[q].brief # 0 => rubrics[rounds'[q].brief] = "confirmed"
        BY DEF BriefsKept
    <3>1. rounds'[q].brief # 0 => rubrics[rounds'[q].brief] = "confirmed"
        BY <2>2 DEF RoundOK, IsConfirmed
    <3>2. rounds[q].brief # 0 => rounds'[q].brief = rounds[q].brief
        BY <1>5, <2>1
    <3> QED BY <3>1, <3>2
  <2>7. PlanInv'
      BY <1>5, <2>1, <2>2, <2>5 DEF PlanInv
  <2> QED BY <2>6, <2>7 DEF Goal
<1>6. ASSUME UNCHANGED <<rubrics, rounds, reqs>> PROVE Goal
    BY <1>1, <1>6 DEF Goal, PlanInv
<1>7. ASSUME P!Generate \/ P!Materialize PROVE Goal
    BY <1>4, <1>6, <1>7 DEF P!Generate, P!Materialize
<1>8. ASSUME NEW p \in Planners, P!AskVersion(p) PROVE Goal
  <2> DEFINE req == [op |-> "version", last |-> Len(rubrics)]
  <2>1. reqs' = [reqs EXCEPT ![p] = req] /\ UNCHANGED <<rubrics, rounds>>
      BY <1>8 DEF P!AskVersion, P!Ask
  <2>2. RequestOK(req, rounds, rubrics)
      BY DEF RequestOK
  <2> HIDE DEF req
  <2> QED BY <1>2, <2>1, <2>2
<1>9. ASSUME NEW p \in Planners, P!AddVersion(p) PROVE Goal
  <2>1. reqs' = [reqs EXCEPT ![p] = P!Free] /\ UNCHANGED rounds
        /\ (rubrics' = Append(rubrics, "draft") \/ rubrics' = rubrics)
      BY <1>9 DEF P!AddVersion, P!Answer
  <2>2. CASE rubrics' = rubrics
      BY <1>2, <1>3, <2>1, <2>2
  <2>3. CASE rubrics' = Append(rubrics, "draft")
      BY <1>4, <2>1, <2>3
  <2> QED BY <2>1, <2>2, <2>3
<1>10. ASSUME NEW p \in Planners, P!AskConfirm(p) PROVE Goal
  <2> DEFINE req == [op |-> "rubric", draft |-> Len(rubrics)]
  <2>1. reqs' = [reqs EXCEPT ![p] = req] /\ UNCHANGED <<rubrics, rounds>> /\ rubrics[Len(rubrics)] = "draft"
      BY <1>10 DEF P!AskConfirm, P!Ask
  <2>2. RequestOK(req, rounds, rubrics)
    <3>1. Len(rubrics) \in 1..Len(rubrics)
        BY <1>0
    <3> QED BY <3>1 DEF RequestOK
  <2> HIDE DEF req
  <2> QED BY <1>2, <2>1, <2>2
<1>11. ASSUME NEW p \in Planners, P!ConfirmRubric(p) PROVE Goal
  <2>1. reqs[p].draft \in 1..Len(rubrics)
      BY <1>11 DEF P!ConfirmRubric, PlanInv, RequestOK
  <2>2. rubrics' = [rubrics EXCEPT ![reqs[p].draft] = "confirmed"]
        /\ reqs' = [reqs EXCEPT ![p] = P!Free] /\ UNCHANGED rounds
      BY <1>11 DEF P!ConfirmRubric, P!Answer
  <2> QED BY <1>4, <2>1, <2>2
<1>12. ASSUME NEW p \in Planners, NEW yes, P!AskPlan(p, yes) PROVE Goal
  <2> DEFINE req == [op |-> "plan", yes |-> yes]
  <2>1. reqs' = [reqs EXCEPT ![p] = req] /\ UNCHANGED <<rubrics, rounds>>
      BY <1>12 DEF P!AskPlan, P!Ask
  <2>2. RequestOK(req, rounds, rubrics)
      BY DEF RequestOK
  <2> HIDE DEF req
  <2> QED BY <1>2, <2>1, <2>2
<1>13. ASSUME NEW p \in Planners, P!ConfirmPlan(p) PROVE Goal
  <2>1. reqs' = [reqs EXCEPT ![p] = P!Free] /\ UNCHANGED <<rubrics, rounds>>
      BY <1>13 DEF P!ConfirmPlan, P!Answer
  <2> QED BY <1>2, <1>3, <2>1
<1>14. ASSUME NEW p \in Planners, NEW r \in Rounds, NEW complete, P!AskUpdate(p, r, complete) PROVE Goal
  <2> DEFINE req == [op |-> "update", round |-> r, version |-> rounds[r].version, complete |-> complete]
  <2>1. reqs' = [reqs EXCEPT ![p] = req] /\ UNCHANGED <<rubrics, rounds>>
      BY <1>14 DEF P!AskUpdate, P!Ask
  <2>2. RequestOK(req, rounds, rubrics)
      BY DEF RequestOK
  <2> HIDE DEF req
  <2> QED BY <1>2, <2>1, <2>2
\* A round is scheduled on the brief it has, or on the newest confirmed rubric.
<1>15. ASSUME NEW p \in Planners, NEW r \in Rounds, P!AskSchedule(p, r) PROVE Goal
  <2> DEFINE brief == IF rounds[r].brief # 0 THEN rounds[r].brief ELSE P!Confirmed
             req == [op |-> "schedule", round |-> r, version |-> rounds[r].version, brief |-> brief]
  <2>1. reqs' = [reqs EXCEPT ![p] = req] /\ UNCHANGED <<rubrics, rounds>> /\ P!Confirmed # 0
      BY <1>15 DEF P!AskSchedule, P!Ask
  <2>2. RoundOK(rounds[r], rubrics)
      BY DEF PlanInv
  <2>3. IsConfirmed(brief, rubrics) /\ rounds[r].brief \in {0, brief}
      BY <2>1, <2>2, ConfirmedIsNewest DEF RoundOK
  <2> HIDE DEF brief
  <2>4. RequestOK(req, rounds, rubrics)
      BY <2>2, <2>3 DEF RequestOK, RoundOK
  <2> HIDE DEF req
  <2> QED BY <1>2, <2>1, <2>4
<1>16. ASSUME NEW p \in Planners, NEW r \in Rounds, P!AskComplete(p, r) PROVE Goal
  <2> DEFINE req == [op |-> "complete", round |-> r]
  <2>1. reqs' = [reqs EXCEPT ![p] = req] /\ UNCHANGED <<rubrics, rounds>>
      BY <1>16 DEF P!AskComplete, P!Ask
  <2>2. RequestOK(req, rounds, rubrics)
      BY DEF RequestOK
  <2> HIDE DEF req
  <2> QED BY <1>2, <2>1, <2>2
<1>17. ASSUME NEW p \in Planners, P!UpdateRound(p) PROVE Goal
  <2> DEFINE r == reqs[p].round
             row == [[rounds[r] EXCEPT !.complete = reqs[p].complete] EXCEPT !.version = rounds[r].version + 1]
  <2>1. r \in Rounds /\ RoundOK(rounds[r], rubrics)
      BY <1>17 DEF P!UpdateRound, PlanInv, RequestOK
  <2>2. reqs' = [reqs EXCEPT ![p] = P!Free] /\ UNCHANGED rubrics
        /\ (rounds' = [rounds EXCEPT ![r] = row] \/ rounds' = rounds)
      BY <1>17 DEF P!UpdateRound, P!Write, P!Answer
  <2>3. RoundOK(row, rubrics) /\ row.version = rounds[r].version + 1 /\ row.brief = rounds[r].brief
      BY <2>1 DEF RoundOK
  <2>4. rounds[r].version \in Nat
      BY <2>1 DEF RoundOK
  <2> HIDE DEF r, row
  <2>5. CASE rounds' = rounds
      BY <1>2, <1>3, <2>2, <2>5
  <2>6. CASE rounds' = [rounds EXCEPT ![r] = row]
    <3>1. row.version >= rounds[r].version
        BY <2>3, <2>4
    <3> QED BY <1>5, <2>1, <2>2, <2>3, <2>6, <3>1
  <2> QED BY <2>2, <2>5, <2>6
<1>18. ASSUME NEW p \in Planners, P!Schedule(p) PROVE Goal
  <2> DEFINE r == reqs[p].round
             brief == reqs[p].brief
             row == [[rounds[r] EXCEPT !.timed = TRUE, !.brief = brief] EXCEPT !.version = rounds[r].version + 1]
  <2>1. r \in Rounds /\ RoundOK(rounds[r], rubrics) /\ IsConfirmed(brief, rubrics)
        /\ (reqs[p].version = rounds[r].version => rounds[r].brief \in {0, brief})
      BY <1>18 DEF P!Schedule, PlanInv, RequestOK
  <2>2. /\ reqs' = [reqs EXCEPT ![p] = P!Free] /\ UNCHANGED rubrics
        /\ \/ reqs[p].version = rounds[r].version /\ rounds' = [rounds EXCEPT ![r] = row]
           \/ rounds' = rounds
      BY <1>18 DEF P!Schedule, P!Write, P!Answer, P!SameVersion
  <2>3. RoundOK(row, rubrics) /\ row.version = rounds[r].version + 1 /\ row.brief = brief
      BY <2>1 DEF RoundOK
  <2>4. rounds[r].version \in Nat
      BY <2>1 DEF RoundOK
  <2> HIDE DEF r, row, brief
  <2>5. CASE rounds' = rounds
      BY <1>2, <1>3, <2>2, <2>5
  <2>6. CASE reqs[p].version = rounds[r].version /\ rounds' = [rounds EXCEPT ![r] = row]
    <3>1. row.version >= rounds[r].version /\ row.version # rounds[r].version
        BY <2>3, <2>4
    <3> QED BY <1>5, <2>1, <2>2, <2>3, <2>6, <3>1
  <2> QED BY <2>2, <2>5, <2>6
<1>19. ASSUME NEW p \in Planners, P!Complete(p) PROVE Goal
  <2> DEFINE r == reqs[p].round
             row == [rounds[r] EXCEPT !.done = TRUE]
  <2>1. r \in Rounds /\ RoundOK(rounds[r], rubrics)
      BY <1>19 DEF P!Complete, PlanInv, RequestOK
  <2>2. reqs' = [reqs EXCEPT ![p] = P!Free] /\ UNCHANGED rubrics /\ rounds' = [rounds EXCEPT ![r] = row]
      BY <1>19 DEF P!Complete, P!Answer
  <2>3. RoundOK(row, rubrics) /\ row.version = rounds[r].version /\ row.brief = rounds[r].brief
      BY <2>1 DEF RoundOK
  <2>4. rounds[r].version >= rounds[r].version
      BY <2>1 DEF RoundOK
  <2> HIDE DEF r, row
  <2> QED BY <1>5, <2>1, <2>2, <2>3, <2>4
<1>20. ASSUME UNCHANGED P!vars PROVE Goal
    BY <1>6, <1>20 DEF P!vars
<1>21. Goal
    BY <1>7, <1>8, <1>9, <1>10, <1>11, <1>12, <1>13, <1>14, <1>15, <1>16, <1>17, <1>18, <1>19, <1>20
    DEF P!Next
<1> QED BY <1>21 DEF Goal

(* A round keeps the rubric version it was first briefed on, and that      *)
(* version was confirmed, for any number of requests, rounds and rubrics.  *)
THEOREM BriefsAreKept == P!PlanAssumption => (P!Spec => BriefIsKept)
<1> SUFFICES ASSUME P!PlanAssumption PROVE P!Spec => BriefIsKept
    OBVIOUS
<1>1. P!Init => PlanInv
  <2> SUFFICES ASSUME P!Init PROVE PlanInv
      OBVIOUS
  <2>1. rubrics = <<"confirmed">>
      BY DEF P!Init
  <2>2. rubrics \in Seq({"draft", "confirmed"}) /\ Len(rubrics) = 1 /\ DOMAIN rubrics = 1..1
        /\ rubrics[1] = "confirmed"
      BY <2>1
  <2>3. IsNewest(1, rubrics)
      BY <2>2 DEF IsNewest
  <2>4. DOMAIN rounds = Rounds /\ \A r \in Rounds: RoundOK(rounds[r], rubrics)
      BY DEF P!Init, RoundOK
  <2>5. DOMAIN reqs = Planners /\ \A p \in Planners: RequestOK(reqs[p], rounds, rubrics)
      BY DEF P!Init, RequestOK, P!Free
  <2> QED BY <2>2, <2>3, <2>4, <2>5 DEF PlanInv
<1>2. PlanInv /\ [P!Next]_(P!vars) => PlanInv' /\ BriefsKept
    BY PlanStep
<1>3. BriefsKept => [\A r \in Rounds:
         /\ rounds[r].brief # 0 => rounds'[r].brief = rounds[r].brief
         /\ rounds'[r].brief # 0 => rubrics[rounds'[r].brief] = "confirmed"]_(P!vars)
    BY DEF BriefsKept
<1> QED BY <1>1, <1>2, <1>3, PTL DEF P!Spec, BriefIsKept, P!BriefIsKept

(***************************************************************************)
(* The package.  The row's revision never falls, and the columns a version *)
(* shows are dated by it: an instant that is not null was taken at the     *)
(* revision it names and never comes back.  A version, or a snapshot, of   *)
(* a revision not before the sign-offs and the decision in force therefore *)
(* shows them, which is why a package that equals an old version is still  *)
(* the one in force.                                                       *)
(***************************************************************************)
Fields == {"rev", "decision", "by", "at", "hr", "hm", "status", "review", "offer", "late",
           "attempt", "offerVersion"}

InstantsUpTo(c, rev) == c.at \in 0..rev /\ c.hr \in 0..rev /\ c.hm \in 0..rev

RowOK(t) ==
    DOMAIN t = Fields /\ t.rev \in Nat /\ t.decision \in Decisions /\ InstantsUpTo(t, t.rev)

\* Two rows that show the same, but for the five minutes that have passed.
SameRow(t, u) == \A f \in Fields \ {"late"}: t[f] = u[f]

\* What a write of the row does: an instant stays, becomes null or is new, and a
\* new decision has a new instant, or none.
RowStep(t, u) ==
    /\ u.rev >= t.rev
    /\ u.rev = t.rev => SameRow(t, u)
    /\ \A f \in {"at", "hr", "hm"}: u[f] = t[f] \/ u[f] = 0 \/ u[f] > t.rev
    /\ u.decision = t.decision \/ u.at = 0 \/ u.at > t.rev

\* The columns c, as of revision rev, are those of the row when the sign-offs
\* and the decision in force were recorded by then.
Agrees(c, rev, t) ==
    (/\ t.at # 0 /\ t.hr # 0 /\ t.hm # 0
     /\ t.at <= rev /\ t.hr <= rev /\ t.hm <= rev)
      => c.decision = t.decision /\ c.at = t.at /\ c.hr = t.hr /\ c.hm = t.hm

VersionOK(v, t) ==
    v.rev <= t.rev /\ InstantsUpTo(v.content, v.rev) /\ Agrees(v.content, v.rev, t)

Version == [rev : Nat,
            content : [decision : Decisions, at : Nat, hr : Nat, hm : Nat, scores : Nat]]

SnapshotOK(x, t, vs) ==
    x.op \in {"package", "confirm", "offer"} =>
      /\ x.task.rev \in Nat /\ x.task.rev <= t.rev
      /\ x.task.decision \in Decisions /\ x.scores \in Nat
      /\ InstantsUpTo(x.task, x.task.rev) /\ Agrees(x.task, x.task.rev, t)
      /\ x.newest \in 0..Len(vs)
      /\ \A i \in 1..x.newest: vs[i].rev <= x.task.rev
      /\ x.op = "confirm" => x.role \in {"hr", "hm"}
      /\ x.op # "package" => /\ DOMAIN x.task = Fields
                             /\ x.task.rev = t.rev => SameRow(x.task, t)

PackageInv ==
    /\ RowOK(task) /\ scores \in Nat
    /\ versions \in Seq(Version)
    /\ \A i \in 1..Len(versions): VersionOK(versions[i], task)
    /\ \A i, j \in 1..Len(versions): i <= j => versions[i].rev <= versions[j].rev
    /\ DOMAIN calls = Callers
    /\ \A c \in Callers: SnapshotOK(calls[c], task, versions)
    /\ OneOfferAccepted

\* What OfferOnSignedPackage says of a step.
OfferStep ==
    task'.attempt # task.attempt =>
       /\ ~task.review
       /\ task.decision = "recommend_offer" /\ task.hr # 0 /\ task.hm # 0
       /\ LET frozen == versions'[task'.offerVersion].content IN
            /\ frozen.decision = task.decision /\ frozen.at = task.at
            /\ frozen.hr = task.hr /\ frozen.hm = task.hm

\* What a version, or a snapshot, shows stays true of the row as it moves on.
LEMMA AgreesOn ==
    ASSUME NEW t, NEW u, RowOK(t), RowOK(u), RowStep(t, u)
    PROVE  /\ \A c, rev: rev \in Nat /\ rev <= t.rev /\ Agrees(c, rev, t) => Agrees(c, rev, u)
           /\ \A v: v.rev \in Nat /\ VersionOK(v, t) => VersionOK(v, u)
           /\ \A x, vs: SnapshotOK(x, t, vs) => SnapshotOK(x, u, vs)
<1>0. /\ t.rev \in Nat /\ t.at \in 0..t.rev /\ t.hr \in 0..t.rev /\ t.hm \in 0..t.rev
      /\ u.rev \in Nat /\ u.at \in 0..u.rev /\ u.hr \in 0..u.rev /\ u.hm \in 0..u.rev
    BY DEF RowOK, InstantsUpTo
<1>r. /\ u.rev >= t.rev
      /\ u.rev = t.rev => SameRow(t, u)
      /\ u.at = t.at \/ u.at = 0 \/ u.at > t.rev
      /\ u.hr = t.hr \/ u.hr = 0 \/ u.hr > t.rev
      /\ u.hm = t.hm \/ u.hm = 0 \/ u.hm > t.rev
      /\ u.decision = t.decision \/ u.at = 0 \/ u.at > t.rev
    BY DEF RowStep
<1>1. ASSUME NEW c, NEW rev, rev \in Nat, rev <= t.rev, Agrees(c, rev, t) PROVE Agrees(c, rev, u)
  <2> SUFFICES ASSUME u.at # 0 /\ u.hr # 0 /\ u.hm # 0, u.at <= rev /\ u.hr <= rev /\ u.hm <= rev
               PROVE  c.decision = u.decision /\ c.at = u.at /\ c.hr = u.hr /\ c.hm = u.hm
      BY DEF Agrees
  <2>1. u.at <= t.rev /\ u.hr <= t.rev /\ u.hm <= t.rev
      BY <1>0, <1>1
  <2>2. u.at = t.at /\ u.hr = t.hr /\ u.hm = t.hm /\ u.decision = t.decision
      BY <1>0, <1>r, <2>1
  <2> QED BY <1>1, <2>2 DEF Agrees
<1>2. ASSUME NEW v, v.rev \in Nat, VersionOK(v, t) PROVE VersionOK(v, u)
  <2>1. v.rev <= u.rev
      BY <1>0, <1>r, <1>2 DEF VersionOK
  <2> QED BY <1>1, <1>2, <2>1 DEF VersionOK
<1>3. ASSUME NEW x, NEW vs, SnapshotOK(x, t, vs) PROVE SnapshotOK(x, u, vs)
  <2> SUFFICES ASSUME x.op \in {"package", "confirm", "offer"} PROVE SnapshotOK(x, u, vs)
      BY DEF SnapshotOK
  <2>1. x.task.rev \in Nat /\ x.task.rev <= t.rev /\ Agrees(x.task, x.task.rev, t)
      BY <1>3 DEF SnapshotOK
  <2>2. x.task.rev <= u.rev
      BY <1>0, <1>r, <2>1
  <2>3. Agrees(x.task, x.task.rev, u)
      BY <1>1, <2>1
  <2>4. x.task.rev = u.rev => x.task.rev = t.rev /\ u.rev = t.rev
      BY <1>0, <1>r, <2>1
  <2>5. ASSUME x.op # "package", x.task.rev = u.rev PROVE SameRow(x.task, u)
    <3>1. SameRow(x.task, t)
        BY <1>3, <2>4, <2>5 DEF SnapshotOK
    <3>2. SameRow(t, u)
        BY <1>r, <2>4, <2>5
    <3> QED BY <3>1, <3>2 DEF SameRow
  <2> QED BY <1>3, <2>2, <2>3, <2>5 DEF SnapshotOK
<1> QED BY <1>1, <1>2, <1>3

\* A snapshot of the row as it is.
LEMMA SnapshotNow ==
    ASSUME PackageInv, NEW t, RowOK(t), task.rev <= t.rev, NEW op, NEW role, NEW yes, NEW tries,
           op # "package" => t = task,
           op = "confirm" => role \in {"hr", "hm"}
    PROVE  SnapshotOK(Snapshot(t, op, role, yes, tries), t, versions)
<1> DEFINE x == Snapshot(t, op, role, yes, tries)
<1>1. /\ x.op = op /\ x.role = role /\ x.scores = scores /\ x.newest = Len(versions)
      /\ x.task = [f \in Columns(op) |-> t[f]]
    BY DEF Snapshot
<1>2. {"rev", "decision", "at", "hr", "hm"} \subseteq Columns(op)
      /\ (op # "package" => Columns(op) = Fields)
    BY DEF Columns, RowOK, Fields
<1> HIDE DEF x
<1>3. x.task.rev = t.rev /\ x.task.decision = t.decision /\ x.task.at = t.at
      /\ x.task.hr = t.hr /\ x.task.hm = t.hm
    BY <1>1, <1>2
<1>4. op # "package" => DOMAIN x.task = Fields /\ SameRow(x.task, t)
    BY <1>1, <1>2 DEF SameRow
<1>5. t.rev \in Nat /\ t.rev <= t.rev /\ InstantsUpTo(t, t.rev) /\ t.decision \in Decisions
    BY DEF RowOK
<1>6. Len(versions) \in 0..Len(versions) /\ scores \in Nat
    BY DEF PackageInv
<1>7. ASSUME NEW i \in 1..Len(versions) PROVE versions[i].rev <= t.rev
  <2>1. versions[i] \in Version /\ versions[i].rev <= task.rev /\ task.rev \in Nat
      BY <1>7 DEF PackageInv, VersionOK, RowOK
  <2> QED BY <1>5, <2>1 DEF Version
<1>8. InstantsUpTo(x.task, t.rev) /\ Agrees(x.task, t.rev, t)
    BY <1>3, <1>5 DEF InstantsUpTo, Agrees
<1>9. SnapshotOK(x, t, versions)
    BY <1>1, <1>3, <1>4, <1>5, <1>6, <1>7, <1>8 DEF SnapshotOK
<1> QED BY <1>9 DEF x

\* The status moves on, or nothing changes.
LEMMA AdvanceRow ==
    ASSUME NEW t, RowOK(t), NEW to
    PROVE  LET u == Advance(t, to) IN
             /\ RowOK(u) /\ u.rev >= t.rev /\ (u.rev = t.rev => u = t)
             /\ \A f \in Fields \ {"status", "rev"}: u[f] = t[f]
<1>1. t.rev \in Nat /\ DOMAIN t = Fields /\ InstantsUpTo(t, t.rev)
    BY DEF RowOK
<1>2. CASE Advance(t, to) = t
    BY <1>1, <1>2
<1>3. CASE Advance(t, to) = [t EXCEPT !.status = to, !.rev = t.rev + 1]
  <2> DEFINE u == [t EXCEPT !.status = to, !.rev = t.rev + 1]
  <2>1. /\ DOMAIN u = Fields /\ u.rev = t.rev + 1 /\ u.decision = t.decision
        /\ u.at = t.at /\ u.hr = t.hr /\ u.hm = t.hm
        /\ \A f \in Fields \ {"status", "rev"}: u[f] = t[f]
      BY <1>1 DEF Fields
  <2> HIDE DEF u
  <2>2. InstantsUpTo(u, u.rev)
      BY <1>1, <2>1 DEF InstantsUpTo
  <2>3. RowOK(u) /\ u.rev >= t.rev /\ u.rev # t.rev
      BY <1>1, <2>1, <2>2 DEF RowOK
  <2> QED BY <1>3, <2>1, <2>3 DEF u
<1> QED BY <1>2, <1>3 DEF Advance

LEMMA SignOffRow ==
    ASSUME NEW t, RowOK(t), NEW role \in {"hr", "hm"}, NEW yes
    PROVE  LET u == SignOff(t, role, yes) IN
             /\ RowOK(u) /\ RowStep(t, u) /\ u.rev # t.rev
             /\ u.late = t.late /\ u.offer = t.offer /\ u.attempt = t.attempt
<1> DEFINE k == t.rev + 1
           at == IF yes THEN k ELSE 0
           s == [t EXCEPT ![role] = at, !.rev = k]
           u == SignOff(t, role, yes)
<1>1. t.rev \in Nat /\ DOMAIN t = Fields /\ InstantsUpTo(t, t.rev) /\ t.decision \in Decisions
    BY DEF RowOK
<1>2. k \in Nat /\ k > t.rev /\ (at = 0 \/ at = k)
    BY <1>1
<1>3. u = SyncStatus(s)
    BY DEF SignOff
<1> HIDE DEF at, u
<1>4. /\ DOMAIN s = Fields /\ s.rev = k /\ s.decision = t.decision /\ s.at = t.at
      /\ s.late = t.late /\ s.offer = t.offer /\ s.attempt = t.attempt
      /\ s.hr = t.hr \/ s.hr = at
      /\ s.hm = t.hm \/ s.hm = at
    BY <1>1 DEF Fields
<1> HIDE DEF k, s
<1>5. InstantsUpTo(s, k)
    BY <1>1, <1>2, <1>4 DEF InstantsUpTo
<1>6. RowOK(s)
    BY <1>1, <1>2, <1>4, <1>5 DEF RowOK
<1>7. /\ RowOK(u) /\ u.rev >= k
      /\ \A f \in Fields \ {"status", "rev"}: u[f] = s[f]
  <2>1. CASE u = s
      BY <1>2, <1>4, <1>6, <2>1
  <2>2. CASE \E to: u = Advance(s, to)
      BY <1>4, <1>6, <2>2, AdvanceRow
  <2> QED BY <1>3, <2>1, <2>2 DEF SyncStatus
<1>8. /\ u.decision = s.decision /\ u.at = s.at /\ u.hr = s.hr /\ u.hm = s.hm
      /\ u.late = s.late /\ u.offer = s.offer /\ u.attempt = s.attempt
    BY <1>7 DEF Fields
<1>9. u.rev \in Nat /\ u.rev > t.rev /\ u.rev >= t.rev /\ u.rev # t.rev
    BY <1>1, <1>2, <1>7 DEF RowOK
<1>10. /\ u.at = t.at
       /\ u.hr = t.hr \/ u.hr = 0 \/ u.hr > t.rev
       /\ u.hm = t.hm \/ u.hm = 0 \/ u.hm > t.rev
    BY <1>2, <1>4, <1>8
<1>11. RowStep(t, u)
    BY <1>4, <1>8, <1>9, <1>10 DEF RowStep
<1>12. u.late = t.late /\ u.offer = t.offer /\ u.attempt = t.attempt
    BY <1>4, <1>8
<1> QED BY <1>7, <1>9, <1>11, <1>12 DEF u

LEMMA ClaimRow ==
    ASSUME NEW t, RowOK(t), NEW version
    PROVE  LET u == ClaimOffer(t, version) IN
             RowOK(u) /\ RowStep(t, u) /\ u.rev # t.rev /\ u.offerVersion = version
<1> DEFINE k == t.rev + 1
           u == ClaimOffer(t, version)
<1>1. t.rev \in Nat /\ DOMAIN t = Fields /\ InstantsUpTo(t, t.rev) /\ t.decision \in Decisions
    BY DEF RowOK
<1>2. k \in Nat /\ k > t.rev /\ k >= t.rev /\ k # t.rev
    BY <1>1
<1>3. /\ DOMAIN u = Fields /\ u.rev = k /\ u.decision = t.decision /\ u.at = t.at
      /\ u.hr = t.hr /\ u.hm = t.hm /\ u.offerVersion = version
    BY <1>1 DEF Fields, ClaimOffer
<1> HIDE DEF k, u
<1>4. InstantsUpTo(u, k)
    BY <1>1, <1>2, <1>3 DEF InstantsUpTo
<1>5. RowOK(u)
    BY <1>1, <1>2, <1>3, <1>4 DEF RowOK
<1>6. RowStep(t, u)
    BY <1>2, <1>3 DEF RowStep
<1> QED BY <1>2, <1>3, <1>5, <1>6 DEF u

\* What a transaction that saw the row as it is stores of it.
LEMMA StoredRow ==
    ASSUME NEW x, NEW t, NEW w, NEW u, RowOK(t), RowOK(w), DOMAIN x.task = Fields,
           SameRow(x.task, t), RowStep(x.task, w), w.rev # x.task.rev,
           u = [f \in DOMAIN t |-> IF f \in DOMAIN w /\ w[f] # x.task[f] THEN w[f] ELSE t[f]]
    PROVE  RowOK(u) /\ RowStep(t, u) /\ SameRow(w, u) /\ u.rev # t.rev
<1>1. DOMAIN t = Fields /\ DOMAIN w = Fields
    BY DEF RowOK
<1>2. \A f \in Fields: u[f] = IF w[f] # x.task[f] THEN w[f] ELSE t[f]
    BY <1>1
<1>3. DOMAIN u = Fields
    BY <1>1
<1>4. \A f \in Fields \ {"late"}: u[f] = w[f] /\ t[f] = x.task[f]
    BY <1>2 DEF SameRow
<1>5. /\ u.rev = w.rev /\ u.decision = w.decision /\ u.at = w.at /\ u.hr = w.hr /\ u.hm = w.hm
      /\ t.rev = x.task.rev /\ t.decision = x.task.decision
      /\ t.at = x.task.at /\ t.hr = x.task.hr /\ t.hm = x.task.hm
    BY <1>4 DEF Fields
<1>6. RowOK(u)
    BY <1>3, <1>5 DEF RowOK, InstantsUpTo
<1>7. RowStep(t, u)
    BY <1>5 DEF RowStep
<1> QED BY <1>4, <1>5, <1>6, <1>7 DEF SameRow

\* A row that shows the same fields is as good.
LEMMA SameStep ==
    ASSUME NEW t, NEW u, RowOK(t), DOMAIN u = Fields, SameRow(t, u)
    PROVE  RowOK(u) /\ RowStep(t, u) /\ u.offer = t.offer /\ u.attempt = t.attempt
<1>1. /\ u.rev = t.rev /\ u.decision = t.decision /\ u.at = t.at /\ u.hr = t.hr /\ u.hm = t.hm
      /\ u.offer = t.offer /\ u.attempt = t.attempt
    BY DEF SameRow, Fields
<1>2. t.rev \in Nat
    BY DEF RowOK
<1> QED BY <1>1, <1>2 DEF RowOK, RowStep, InstantsUpTo

\* What a transaction freezes.
LEMMA FrozenOK ==
    ASSUME NEW t, NEW w, NEW s \in Nat, w.rev \in Nat, w.rev <= t.rev, w.decision \in Decisions,
           InstantsUpTo(w, w.rev), Agrees(w, w.rev, t)
    PROVE  LET v == [content |-> Content(w, s), rev |-> w.rev] IN
             v \in Version /\ VersionOK(v, t) /\ v.rev = w.rev
<1> DEFINE c == Content(w, s)
           v == [content |-> c, rev |-> w.rev]
<1>1. /\ c.decision = w.decision /\ c.at = w.at /\ c.hr = w.hr /\ c.hm = w.hm
      /\ c = [decision |-> w.decision, at |-> w.at, hr |-> w.hr, hm |-> w.hm, scores |-> s]
    BY DEF Content
<1>2. w.at \in Nat /\ w.hr \in Nat /\ w.hm \in Nat
    BY DEF InstantsUpTo
<1>3. c \in [decision : Decisions, at : Nat, hr : Nat, hm : Nat, scores : Nat]
    BY <1>1, <1>2
<1> HIDE DEF c
<1>4. v \in Version /\ v.content = c /\ v.rev = w.rev
    BY <1>3 DEF Version
<1> HIDE DEF v
<1>5. VersionOK(v, t)
    BY <1>1, <1>4 DEF VersionOK, InstantsUpTo, Agrees
<1> QED BY <1>4, <1>5 DEF v, c

LEMMA VersionAdded ==
    ASSUME PackageInv, NEW v \in Version, NEW u, VersionOK(v, u), RowOK(u), RowStep(task, u),
           \A i \in 1..Len(versions): versions[i].rev <= v.rev,
           versions' = Append(versions, v)
    PROVE  /\ versions' \in Seq(Version)
           /\ Len(versions') = Len(versions) + 1 /\ versions'[Len(versions) + 1] = v
           /\ \A i \in 1..Len(versions'): VersionOK(versions'[i], u)
           /\ \A i, j \in 1..Len(versions'): i <= j => versions'[i].rev <= versions'[j].rev
           /\ \A x: SnapshotOK(x, task, versions) => SnapshotOK(x, u, versions')
<1> DEFINE n == Len(versions)
<1>1. /\ n \in Nat /\ versions \in Seq(Version) /\ RowOK(task)
      /\ \A i \in 1..n: versions[i] \in Version /\ VersionOK(versions[i], task)
      /\ \A i, j \in 1..n: i <= j => versions[i].rev <= versions[j].rev
    BY DEF PackageInv
<1>2. /\ versions' \in Seq(Version) /\ Len(versions') = n + 1 /\ versions'[n + 1] = v
      /\ \A i \in 1..n: versions'[i] = versions[i]
    BY <1>1
<1>3. \A i \in 1..n: versions[i].rev <= v.rev
    OBVIOUS
<1> HIDE DEF n
<1>4. /\ \A w: w.rev \in Nat /\ VersionOK(w, task) => VersionOK(w, u)
      /\ \A x, vs: SnapshotOK(x, task, vs) => SnapshotOK(x, u, vs)
    BY <1>1, AgreesOn
<1>5. \A i \in 1..n + 1: i \in 1..n \/ i = n + 1
    BY <1>1
<1>6. v.rev \in Nat /\ \A i \in 1..n: versions[i].rev \in Nat
    BY <1>1 DEF Version
<1>7. \A i \in 1..n: VersionOK(versions'[i], u)
    BY <1>1, <1>2, <1>4, <1>6
<1>8. \A i \in 1..n + 1: VersionOK(versions'[i], u)
    BY <1>2, <1>5, <1>7
<1>9. ASSUME NEW i \in 1..n + 1, NEW j \in 1..n + 1, i <= j
      PROVE  versions'[i].rev <= versions'[j].rev
  <2>1. CASE j = n + 1
      BY <1>2, <1>3, <1>5, <1>6, <2>1
  <2>2. CASE j \in 1..n
    <3>1. i \in 1..n
        BY <1>1, <1>9, <2>2
    <3> QED BY <1>1, <1>2, <1>9, <2>2, <3>1
  <2> QED BY <1>5, <2>1, <2>2
<1>10. ASSUME NEW x, SnapshotOK(x, task, versions) PROVE SnapshotOK(x, u, versions')
  <2> SUFFICES ASSUME x.op \in {"package", "confirm", "offer"} PROVE SnapshotOK(x, u, versions')
      BY DEF SnapshotOK
  <2>1. SnapshotOK(x, u, versions)
      BY <1>4, <1>10
  <2>2. x.newest \in 0..n /\ \A i \in 1..x.newest: versions[i].rev <= x.task.rev
      BY <2>1 DEF SnapshotOK, n
  <2>3. x.newest \in 0..n + 1 /\ \A i \in 1..x.newest: i \in 1..n
      BY <1>1, <2>2
  <2>4. \A i \in 1..x.newest: versions'[i].rev <= x.task.rev
      BY <1>2, <2>2, <2>3
  <2>5. x.newest \in 0..Len(versions')
      BY <1>2, <2>3
  <2> QED BY <2>1, <2>4, <2>5 DEF SnapshotOK
<1> QED BY <1>2, <1>8, <1>9, <1>10 DEF n
LEMMA PackageStep == PackageInv /\ [Next]_vars => PackageInv' /\ OfferStep
<1> SUFFICES ASSUME PackageInv, [Next]_vars PROVE PackageInv' /\ OfferStep
    OBVIOUS
<1> DEFINE Goal == PackageInv' /\ OfferStep
           OfferAsBefore == /\ accepted' = accepted
                            /\ task'.offer = task.offer /\ task'.attempt = task.attempt
<1> HIDE DEF Goal
<1>0. /\ RowOK(task) /\ task.rev \in Nat /\ DOMAIN task = Fields /\ scores \in Nat
      /\ DOMAIN calls = Callers /\ \A c \in Callers: SnapshotOK(calls[c], task, versions)
    BY DEF PackageInv, RowOK
<1>s. RowStep(task, task) /\ task.rev <= task.rev
    BY <1>0 DEF RowStep, SameRow
<1>v. \A i \in 1..Len(versions): versions[i].rev \in Nat /\ VersionOK(versions[i], task)
  <2>1. \A i \in 1..Len(versions): versions[i] \in Version /\ VersionOK(versions[i], task)
      BY DEF PackageInv
  <2> QED BY <2>1 DEF Version
<1>i. \A t, vs: SnapshotOK(Idle, t, vs)
    BY DEF SnapshotOK, Idle
\* A step that freezes nothing.
<1>1. ASSUME RowOK(task'), RowStep(task, task'), scores' \in Nat, UNCHANGED versions,
             \/ UNCHANGED calls
             \/ \E c \in Callers: \E next: /\ SnapshotOK(next, task', versions)
                                            /\ calls' = [calls EXCEPT ![c] = next],
             task'.attempt = task.attempt,
             OneOfferAccepted'
      PROVE  Goal
  <2>1. /\ \A v: v.rev \in Nat /\ VersionOK(v, task) => VersionOK(v, task')
        /\ \A x, vs: SnapshotOK(x, task, vs) => SnapshotOK(x, task', vs)
      BY <1>0, <1>1, AgreesOn
  <2>2. ASSUME NEW i \in 1..Len(versions) PROVE VersionOK(versions[i], task')
      BY <1>v, <2>1, <2>2
  <2>3. DOMAIN calls' = Callers /\ \A c \in Callers: SnapshotOK(calls'[c], task', versions)
      BY <1>0, <1>1, <2>1
  <2> QED BY <1>1, <2>2, <2>3 DEF Goal, PackageInv, OfferStep
<1>2. ASSUME OfferAsBefore PROVE OneOfferAccepted' /\ task'.attempt = task.attempt
    BY <1>2 DEF PackageInv, OneOfferAccepted
\* A step of one request that writes nothing.
<1>3. ASSUME NEW c \in Callers, NEW next, SnapshotOK(next, task, versions),
             calls' = [calls EXCEPT ![c] = next], UNCHANGED <<task, scores, versions, accepted>>
      PROVE  Goal
    BY <1>0, <1>1, <1>2, <1>3, <1>s
<1>4. ASSUME NEW c \in Callers, NEW d \in Decisions, SetDecision(c, d) PROVE Goal
  <2> DEFINE next == [op |-> "sync"]
             k == task.rev + 1
             at == IF d = None THEN 0 ELSE k
             u == [task EXCEPT !.decision = d, !.by = c, !.rev = k, !.at = at]
  <2>1. \A t: SnapshotOK(next, t, versions)
      BY DEF SnapshotOK
  <2>2. calls' = [calls EXCEPT ![c] = next] /\ UNCHANGED <<scores, versions, accepted>>
        /\ (task' = task \/ task' = u)
      BY <1>4 DEF SetDecision, Becomes
  <2>3. k \in Nat /\ k > task.rev /\ k >= task.rev /\ k # task.rev /\ (at = 0 \/ at = k)
      BY <1>0
  <2>4. /\ DOMAIN u = Fields /\ u.rev = k /\ u.at = at /\ u.decision = d
        /\ u.hr = task.hr /\ u.hm = task.hm /\ u.offer = task.offer /\ u.attempt = task.attempt
      BY <1>0 DEF Fields
  <2> HIDE DEF next, k, at, u
  <2>5. RowOK(u)
    <3>1. task.hr \in 0..task.rev /\ task.hm \in 0..task.rev
        BY <1>0 DEF RowOK, InstantsUpTo
    <3>2. InstantsUpTo(u, k)
        BY <1>0, <2>3, <2>4, <3>1 DEF InstantsUpTo
    <3> QED BY <2>3, <2>4, <3>2 DEF RowOK
  <2>6. RowStep(task, u)
      BY <2>3, <2>4 DEF RowStep
  <2>7. RowOK(task') /\ RowStep(task, task') /\ OfferAsBefore
      BY <1>0, <1>s, <2>2, <2>4, <2>5, <2>6
  <2> QED BY <1>0, <1>1, <1>2, <2>1, <2>2, <2>7
<1>5. ASSUME NEW c \in Callers, ReadMilestone(c) PROVE Goal
  <2> DEFINE next == IF task.decision = None THEN Idle ELSE [op |-> "advance", to |-> Milestone(task)]
  <2>1. calls' = [calls EXCEPT ![c] = next] /\ UNCHANGED <<task, scores, versions, accepted>>
      BY <1>5 DEF ReadMilestone, Becomes
  <2>2. SnapshotOK(next, task, versions)
      BY DEF SnapshotOK, Idle
  <2> HIDE DEF next
  <2> QED BY <1>3, <2>1, <2>2
<1>6. ASSUME NEW c \in Callers, WriteMilestone(c) PROVE Goal
  <2>1. calls' = [calls EXCEPT ![c] = Idle] /\ UNCHANGED <<scores, versions, accepted>>
        /\ task' = Advance(task, calls[c].to)
      BY <1>6 DEF WriteMilestone, Becomes
  <2>2. /\ RowOK(task') /\ task'.rev >= task.rev /\ (task'.rev = task.rev => task' = task)
        /\ \A f \in Fields \ {"status", "rev"}: task'[f] = task[f]
      BY <1>0, <2>1, AdvanceRow
  <2>3. /\ task'.decision = task.decision /\ task'.at = task.at /\ task'.hr = task.hr
        /\ task'.hm = task.hm /\ task'.offer = task.offer /\ task'.attempt = task.attempt
      BY <2>2 DEF Fields
  <2>4. RowStep(task, task')
      BY <2>2, <2>3 DEF RowStep, SameRow
  <2> QED BY <1>0, <1>1, <1>2, <1>i, <2>1, <2>2, <2>3, <2>4
<1>7. ASSUME SetScore PROVE Goal
  <2>1. UNCHANGED <<task, versions, calls, accepted>> /\ scores' \in Nat
      BY <1>0, <1>7 DEF SetScore
  <2> QED BY <1>0, <1>1, <1>2, <1>s, <2>1
<1>8. ASSUME Invalidate PROVE Goal
  <2> DEFINE k == task.rev + 1
             u == [task EXCEPT !.review = TRUE, !.rev = k]
  <2>1. UNCHANGED <<scores, versions, calls, accepted>> /\ task' = u
      BY <1>8 DEF Invalidate
  <2>2. k \in Nat /\ k > task.rev /\ k >= task.rev /\ k # task.rev
      BY <1>0
  <2>3. /\ DOMAIN u = Fields /\ u.rev = k /\ u.at = task.at /\ u.decision = task.decision
        /\ u.hr = task.hr /\ u.hm = task.hm /\ u.offer = task.offer /\ u.attempt = task.attempt
      BY <1>0 DEF Fields
  <2> HIDE DEF k, u
  <2>4. RowOK(u) /\ RowStep(task, u)
    <3>1. InstantsUpTo(task, task.rev) /\ task.decision \in Decisions
        BY <1>0 DEF RowOK
    <3>2. InstantsUpTo(u, k)
        BY <1>0, <2>2, <2>3, <3>1 DEF InstantsUpTo
    <3> QED BY <2>2, <2>3, <3>1, <3>2 DEF RowOK, RowStep
  <2> QED BY <1>0, <1>1, <1>2, <2>1, <2>3, <2>4
<1>9. ASSUME OfferLate PROVE Goal
  <2> DEFINE u == [task EXCEPT !.late = TRUE]
  <2>1. UNCHANGED <<scores, versions, calls, accepted>> /\ task' = u
      BY <1>9 DEF OfferLate
  <2>2. DOMAIN u = Fields /\ SameRow(task, u)
      BY <1>0 DEF SameRow
  <2> HIDE DEF u
  <2>3. RowOK(u) /\ RowStep(task, u) /\ u.offer = task.offer /\ u.attempt = task.attempt
      BY <1>0, <2>2, SameStep
  <2> QED BY <1>0, <1>1, <1>2, <2>1, <2>3
<1>10. ASSUME NEW c \in Callers, NEW op, NEW role, NEW yes, Begin(c, op, role, yes),
              op = "confirm" => role \in {"hr", "hm"}
       PROVE  Goal
  <2> DEFINE next == Snapshot(task, op, role, yes, 1)
  <2>1. calls' = [calls EXCEPT ![c] = next] /\ UNCHANGED <<task, scores, versions, accepted>>
      BY <1>10 DEF Begin, Becomes
  <2>2. SnapshotOK(next, task, versions)
      BY <1>0, <1>s, <1>10, SnapshotNow
  <2> HIDE DEF next
  <2> QED BY <1>3, <2>1, <2>2
<1>11. ASSUME NEW c \in Callers, Retry(c) PROVE Goal
  <2> DEFINE again == Snapshot(task, calls[c].op, calls[c].role, calls[c].yes, calls[c].tries + 1)
             next == IF calls[c].tries < 3 THEN again ELSE Idle
  <2>1. calls' = [calls EXCEPT ![c] = next] /\ UNCHANGED <<task, scores, versions, accepted>>
        /\ calls[c].op \in {"package", "confirm", "offer"}
      BY <1>11 DEF Retry, Becomes
  <2>2. calls[c].op = "confirm" => calls[c].role \in {"hr", "hm"}
      BY <1>0, <2>1 DEF SnapshotOK
  <2>3. SnapshotOK(again, task, versions)
      BY <1>0, <1>s, <2>2, SnapshotNow
  <2>4. SnapshotOK(next, task, versions)
      BY <1>i, <2>3
  <2> HIDE DEF next
  <2> QED BY <1>3, <2>1, <2>4
<1>12. ASSUME NEW c \in Callers, RefuseOffer(c) PROVE Goal
    BY <1>3, <1>i, <1>12 DEF RefuseOffer, Becomes
<1>13. ASSUME NEW c \in Callers, Crash(c) PROVE Goal
    BY <1>3, <1>i, <1>13 DEF Crash, Becomes
<1>14. ASSUME UNCHANGED vars PROVE Goal
  <2>1. UNCHANGED <<task, scores, versions, calls, accepted>>
      BY <1>14 DEF vars
  <2> QED BY <1>0, <1>1, <1>2, <1>s, <2>1
<1>15. ASSUME NEW c \in Callers, NEW attempt, NEW ok, ReadOffer(c, attempt, ok) PROVE Goal
  <2>1. CASE task.offer = "acknowledged" /\ ok
    <3> DEFINE next == Snapshot(task, "package", "none", FALSE, 1)
    <3>1. calls' = [calls EXCEPT ![c] = next] /\ UNCHANGED <<task, scores, versions>>
          /\ accepted' = accepted \cup {attempt} /\ attempt = task.attempt
        BY <1>15, <2>1 DEF ReadOffer, Becomes
    <3>2. SnapshotOK(next, task, versions)
        BY <1>0, <1>s, SnapshotNow
    <3>3. OneOfferAccepted'
        BY <2>1, <3>1 DEF PackageInv, OneOfferAccepted
    <3> HIDE DEF next
    <3> QED BY <1>0, <1>1, <1>s, <3>1, <3>2, <3>3
  <2>2. CASE ~(task.offer = "acknowledged" /\ ok)
    <3> DEFINE next == [op |-> "settle", attempt |-> attempt, ok |-> ok]
    <3>1. calls' = [calls EXCEPT ![c] = next] /\ UNCHANGED <<task, scores, versions, accepted>>
        BY <1>15, <2>2 DEF ReadOffer, Becomes
    <3>2. SnapshotOK(next, task, versions)
        BY DEF SnapshotOK
    <3> HIDE DEF next
    <3> QED BY <1>3, <3>1, <3>2
  <2> QED BY <2>1, <2>2
\* Nothing was accepted while the offer is pending, and what is accepted is it.
<1>16. ASSUME NEW c \in Callers, Settle(c) PROVE Goal
  <2>1. CASE StillPending(calls[c].attempt)
    <3> DEFINE k == task.rev + 1
               offer == IF calls[c].ok THEN "acknowledged" ELSE "failed"
               u == [task EXCEPT !.offer = offer, !.rev = k]
               next == Snapshot(task', "package", "none", FALSE, 1)
    <3>1. /\ task' = u /\ calls' = [calls EXCEPT ![c] = next] /\ UNCHANGED <<scores, versions>>
          /\ accepted' = IF calls[c].ok THEN accepted \cup {calls[c].attempt} ELSE accepted
          /\ calls[c].attempt = task.attempt /\ task.offer = "pending"
        BY <1>16, <2>1 DEF Settle, StillPending, Becomes
    <3>2. k \in Nat /\ k > task.rev /\ k >= task.rev /\ k # task.rev
        BY <1>0
    <3>3. /\ DOMAIN u = Fields /\ u.rev = k /\ u.at = task.at /\ u.decision = task.decision
          /\ u.hr = task.hr /\ u.hm = task.hm /\ u.offer = offer /\ u.attempt = task.attempt
        BY <1>0 DEF Fields
    <3> HIDE DEF k, u
    <3>4. RowOK(u) /\ RowStep(task, u)
      <4>1. InstantsUpTo(task, task.rev) /\ task.decision \in Decisions
          BY <1>0 DEF RowOK
      <4>2. InstantsUpTo(u, k)
          BY <1>0, <3>2, <3>3, <4>1 DEF InstantsUpTo
      <4> QED BY <3>2, <3>3, <4>1, <4>2 DEF RowOK, RowStep
    <3>5. RowOK(task') /\ RowStep(task, task') /\ task.rev <= task'.rev
        BY <1>0, <3>1, <3>2, <3>3, <3>4
    <3>6. SnapshotOK(next, task', versions)
        BY <3>5, SnapshotNow
    <3>7. accepted = {}
        BY <3>1 DEF PackageInv, OneOfferAccepted
    <3>8. OneOfferAccepted' /\ task'.attempt = task.attempt
        BY <3>1, <3>3, <3>7 DEF OneOfferAccepted
    <3> HIDE DEF next
    <3> QED BY <1>0, <1>1, <3>1, <3>5, <3>6, <3>8
  <2>2. CASE ~StillPending(calls[c].attempt)
      BY <1>3, <1>i, <1>16, <2>2 DEF Settle, Becomes
  <2> QED BY <2>1, <2>2
\* A version is frozen by a transaction that ends, whatever it stored.
<1>17. ASSUME NEW c \in Callers, NEW v \in Version, VersionOK(v, task'), RowOK(task'), RowStep(task, task'),
              \A i \in 1..Len(versions): versions[i].rev <= v.rev,
              versions' = Append(versions, v), calls' = [calls EXCEPT ![c] = Idle],
              UNCHANGED scores, OneOfferAccepted'
       PROVE  PackageInv'
  <2>1. /\ versions' \in Seq(Version)
        /\ \A i \in 1..Len(versions'): VersionOK(versions'[i], task')
        /\ \A i, j \in 1..Len(versions'): i <= j => versions'[i].rev <= versions'[j].rev
        /\ \A x: SnapshotOK(x, task, versions) => SnapshotOK(x, task', versions')
      BY <1>17, VersionAdded
  <2>2. DOMAIN calls' = Callers /\ \A b \in Callers: SnapshotOK(calls'[b], task', versions')
      BY <1>0, <1>i, <1>17, <2>1
  <2> QED BY <1>0, <1>17, <2>1, <2>2 DEF PackageInv
<1>18. ASSUME NEW c \in Callers, Commit(c) PROVE Goal
  <2> DEFINE x == calls[c]
             w == Written(x)
             v == [content |-> Content(w, x.scores), rev |-> w.rev]
  <2>1. /\ x.op \in {"package", "confirm"} /\ ~ConflictsOnRow(x) /\ ~ConflictsOnNumber(x)
        /\ Freeze(x) /\ Store(x, w)
        /\ calls' = [calls EXCEPT ![c] = Idle] /\ UNCHANGED <<scores, accepted>>
      BY <1>18 DEF Commit, Conflicts, Becomes
  <2>2. /\ SnapshotOK(x, task, versions)
        /\ x.task.rev \in Nat /\ x.task.rev <= task.rev /\ x.task.decision \in Decisions /\ x.scores \in Nat
        /\ InstantsUpTo(x.task, x.task.rev) /\ Agrees(x.task, x.task.rev, task)
        /\ \A i \in 1..x.newest: versions[i].rev <= x.task.rev
      BY <1>0, <2>1 DEF SnapshotOK
  <2>3. versions' = IF IsNew(x) THEN Append(versions, v) ELSE versions
      BY <2>1 DEF Freeze
  <2>4. IsNew(x) => Len(versions) = x.newest
      BY <2>1 DEF ConflictsOnNumber
  <2>5. /\ RowOK(task') /\ RowStep(task, task') /\ OfferAsBefore
        /\ v \in Version /\ VersionOK(v, task') /\ w.rev >= x.task.rev /\ w.rev \in Nat /\ v.rev = w.rev
    <3>1. CASE x.op = "package"
      <4>1. w = x.task
          BY <3>1 DEF Written
      <4>2. task' = [f \in DOMAIN task |-> IF f \in DOMAIN w /\ w[f] # x.task[f] THEN w[f] ELSE task[f]]
          BY <2>1 DEF Store
      <4> HIDE DEF w
      <4>3. DOMAIN task' = Fields /\ SameRow(task, task')
          BY <1>0, <4>1, <4>2 DEF SameRow
      <4>4. /\ RowOK(task') /\ RowStep(task, task')
            /\ task'.offer = task.offer /\ task'.attempt = task.attempt
          BY <1>0, <4>3, SameStep
      <4>5. v \in Version /\ VersionOK(v, task) /\ v.rev = w.rev
          BY <2>2, <4>1, FrozenOK
      <4> HIDE DEF v
      <4>6. v.rev \in Nat /\ x.task.rev <= x.task.rev
          BY <2>2, <4>1, <4>5
      <4>7. VersionOK(v, task')
          BY <1>0, <4>4, <4>5, <4>6, AgreesOn
      <4> QED BY <2>1, <2>2, <4>1, <4>4, <4>5, <4>6, <4>7
    <3>2. CASE x.op = "confirm"
      <4> HIDE DEF x
      <4>1. w = SignOff(x.task, x.role, x.yes) /\ x.role \in {"hr", "hm"}
          BY <2>2, <3>2 DEF Written, SnapshotOK
      <4>2. DOMAIN x.task = Fields /\ SameRow(x.task, task)
          BY <2>1, <2>2, <3>2 DEF ConflictsOnRow, SnapshotOK
      <4>3. RowOK(x.task)
          BY <2>2, <4>2 DEF RowOK
      <4>4. task' = [f \in DOMAIN task |-> IF f \in DOMAIN w /\ w[f] # x.task[f] THEN w[f] ELSE task[f]]
          BY <2>1 DEF Store
      <4> HIDE DEF w
      <4>5. /\ RowOK(w) /\ RowStep(x.task, w) /\ w.rev # x.task.rev
            /\ w.offer = x.task.offer /\ w.attempt = x.task.attempt
          BY <4>1, <4>3, SignOffRow
      <4>6. RowOK(task') /\ RowStep(task, task') /\ SameRow(w, task')
          BY <1>0, <4>2, <4>4, <4>5, StoredRow
      <4>7. /\ task'.offer = task.offer /\ task'.attempt = task.attempt /\ w.rev = task'.rev
            /\ w.decision = task'.decision /\ w.at = task'.at /\ w.hr = task'.hr /\ w.hm = task'.hm
          BY <4>2, <4>5, <4>6 DEF SameRow, Fields
      <4>8. w.rev \in Nat /\ w.rev <= task'.rev /\ w.decision \in Decisions /\ InstantsUpTo(w, w.rev)
          BY <4>5, <4>7 DEF RowOK
      <4>9. Agrees(w, w.rev, task')
          BY <4>7 DEF Agrees
      <4>10. v \in Version /\ VersionOK(v, task') /\ v.rev = w.rev
          BY <2>2, <4>8, <4>9, FrozenOK
      <4> HIDE DEF v
      <4> QED BY <2>1, <4>5, <4>6, <4>7, <4>8, <4>10 DEF RowStep
    <3> QED BY <2>1, <3>1, <3>2
  <2>6. OneOfferAccepted' /\ task'.attempt = task.attempt
      BY <1>2, <2>5
  <2> HIDE DEF x, w, v
  <2>7. CASE IsNew(x)
    <3>1. ASSUME NEW i \in 1..Len(versions) PROVE versions[i].rev <= v.rev
      <4>1. versions[i].rev <= x.task.rev
          BY <2>2, <2>4, <2>7, <3>1
      <4> QED BY <1>v, <2>2, <2>5, <3>1, <4>1
    <3>2. versions' = Append(versions, v) /\ UNCHANGED scores
        BY <2>1, <2>3, <2>7
    <3>3. PackageInv'
        BY <1>17, <2>1, <2>5, <2>6, <3>1, <3>2
    <3> QED BY <2>6, <3>3 DEF Goal, OfferStep
  <2>8. CASE ~IsNew(x)
    <3>1. versions' = versions /\ scores' \in Nat
        BY <1>0, <2>1, <2>3, <2>8
    <3>2. \E b \in Callers: \E next:
          SnapshotOK(next, task', versions) /\ calls' = [calls EXCEPT ![b] = next]
        BY <1>i, <2>1
    <3> QED BY <1>1, <2>5, <2>6, <3>1, <3>2
  <2> QED BY <2>7, <2>8
<1>19. ASSUME NEW c \in Callers, SendOffer(c) PROVE Goal
  <2> DEFINE x == calls[c]
             n == Len(versions)
             version == PackageVersion(x)
             w == ClaimOffer(x.task, version)
             v == [content |-> Content(x.task, x.scores), rev |-> x.task.rev]
  <2>1. /\ x.op = "offer" /\ MayOffer(x.task) /\ ~ConflictsOnRow(x) /\ ~ConflictsOnNumber(x)
        /\ Freeze(x) /\ Store(x, w)
        /\ calls' = [calls EXCEPT ![c] = Idle] /\ UNCHANGED <<scores, accepted>>
      BY <1>19 DEF SendOffer, Conflicts, Becomes
  <2>2. /\ x.task.rev \in Nat /\ x.task.decision \in Decisions /\ x.scores \in Nat
        /\ InstantsUpTo(x.task, x.task.rev) /\ Agrees(x.task, x.task.rev, task)
        /\ x.newest \in 0..n /\ \A i \in 1..x.newest: versions[i].rev <= x.task.rev
        /\ DOMAIN x.task = Fields /\ (x.task.rev = task.rev => SameRow(x.task, task))
    <3>1. SnapshotOK(x, task, versions)
        BY <1>0
    <3> HIDE DEF x
    <3> QED BY <2>1, <3>1 DEF SnapshotOK
  <2>3. x.task.rev = task.rev /\ SameRow(x.task, task) /\ RowOK(x.task)
      BY <2>1, <2>2 DEF ConflictsOnRow, RowOK
  <2>4. Written(x) = x.task
      BY <2>1 DEF Written
  <2>5. task' = [f \in DOMAIN task |-> IF f \in DOMAIN w /\ w[f] # x.task[f] THEN w[f] ELSE task[f]]
      BY <2>1 DEF Store
  <2>6. /\ versions' = IF IsNew(x) THEN Append(versions, v) ELSE versions
        /\ version = IF IsNew(x) THEN n + 1 ELSE n
        /\ IsNew(x) => n = x.newest
        /\ ~IsNew(x) => \E i \in {x.newest} \ {0}: versions[i].content = Content(x.task, x.scores)
      BY <2>1, <2>4 DEF Freeze, PackageVersion, ConflictsOnNumber, IsNew
  <2> HIDE DEF x, n, version
  <2>7. RowOK(w) /\ RowStep(x.task, w) /\ w.rev # x.task.rev /\ w.offerVersion = version
      BY <2>3, ClaimRow
  <2> HIDE DEF w
  <2>8. RowOK(task') /\ RowStep(task, task') /\ SameRow(w, task')
      BY <1>0, <2>2, <2>3, <2>5, <2>7, StoredRow
  <2>9. task'.offerVersion = version
      BY <2>7, <2>8 DEF SameRow, Fields
  <2>10. /\ x.task.decision = task.decision /\ x.task.at = task.at /\ x.task.hr = task.hr
         /\ x.task.hm = task.hm /\ x.task.review = task.review /\ x.task.offer = task.offer
      BY <2>3 DEF SameRow, Fields
  <2>11. /\ ~task.review /\ task.decision = "recommend_offer"
         /\ task.at # 0 /\ task.hr # 0 /\ task.hm # 0 /\ task.offer # "acknowledged"
      BY <2>1, <2>10 DEF MayOffer
  <2>12. OneOfferAccepted'
      BY <2>1, <2>11 DEF PackageInv, OneOfferAccepted
  <2>13. /\ Content(x.task, x.scores).decision = task.decision /\ Content(x.task, x.scores).at = task.at
         /\ Content(x.task, x.scores).hr = task.hr /\ Content(x.task, x.scores).hm = task.hm
      BY <2>10 DEF Content
  <2>14. n \in Nat /\ n = Len(versions)
      BY DEF PackageInv, n
  <2>15. CASE IsNew(x)
    <3>1. x.task.rev <= task.rev
        BY <2>2, <2>3
    <3>2. v \in Version /\ VersionOK(v, task) /\ v.rev = x.task.rev
        BY <2>2, <3>1, FrozenOK
    <3>3. v.content = Content(x.task, x.scores)
        OBVIOUS
    <3> HIDE DEF v
    <3>4. VersionOK(v, task')
        BY <1>0, <2>2, <2>8, <3>2, AgreesOn
    <3>5. \A i \in 1..Len(versions): versions[i].rev <= v.rev
        BY <2>2, <2>6, <2>14, <2>15, <3>2
    <3>6. versions' = Append(versions, v) /\ UNCHANGED scores
        BY <2>1, <2>6, <2>15
    <3>7. PackageInv'
        BY <1>17, <2>1, <2>8, <2>12, <3>2, <3>4, <3>5, <3>6
    <3>8. versions'[n + 1] = v
        BY <2>14, <3>6 DEF PackageInv
    <3>9. OfferStep
        BY <2>6, <2>9, <2>11, <2>13, <2>15, <3>3, <3>8 DEF OfferStep
    <3> QED BY <3>7, <3>9 DEF Goal
  \* The newest version is not older than the one the package equals.
  <2>16. CASE ~IsNew(x)
    <3> DEFINE i == x.newest
    <3>1. i \in 1..n /\ n \in 1..n /\ i <= n /\ versions[i].content = Content(x.task, x.scores)
        BY <2>2, <2>6, <2>14, <2>16
    <3>2. /\ versions[i] \in Version /\ VersionOK(versions[i], task)
          /\ versions[n] \in Version /\ VersionOK(versions[n], task)
          /\ versions[i].rev <= versions[n].rev
        BY <2>14, <3>1 DEF PackageInv
    <3> HIDE DEF i
    <3>3. versions[i].rev \in Nat /\ versions[n].rev \in Nat
        BY <3>2 DEF Version
    <3>4. task.at <= versions[n].rev /\ task.hr <= versions[n].rev /\ task.hm <= versions[n].rev
        BY <2>13, <3>1, <3>2, <3>3 DEF VersionOK, InstantsUpTo
    <3>5. /\ versions[n].content.decision = task.decision /\ versions[n].content.at = task.at
          /\ versions[n].content.hr = task.hr /\ versions[n].content.hm = task.hm
        BY <2>11, <3>2, <3>4 DEF VersionOK, Agrees
    <3>6. versions' = versions /\ version = n /\ scores' \in Nat
        BY <1>0, <2>1, <2>6, <2>16
    <3>7. OfferStep
        BY <2>9, <2>11, <3>5, <3>6 DEF OfferStep
    <3>8. /\ \A u: u.rev \in Nat /\ VersionOK(u, task) => VersionOK(u, task')
          /\ \A y, vs: SnapshotOK(y, task, vs) => SnapshotOK(y, task', vs)
        BY <1>0, <2>8, AgreesOn
    <3>9. ASSUME NEW j \in 1..Len(versions) PROVE VersionOK(versions[j], task')
        BY <1>v, <3>8, <3>9
    <3>10. DOMAIN calls' = Callers /\ \A b \in Callers: SnapshotOK(calls'[b], task', versions)
        BY <1>0, <1>i, <2>1, <3>8
    <3>11. PackageInv'
        BY <2>8, <2>12, <3>6, <3>9, <3>10 DEF PackageInv
    <3> QED BY <3>7, <3>11 DEF Goal
  <2> QED BY <2>15, <2>16
<1>20. Goal
  <2>1. "hr" \in {"hr", "hm"} /\ "hm" \in {"hr", "hm"} /\ "package" # "confirm" /\ "offer" # "confirm"
      OBVIOUS
  <2> QED BY <1>4, <1>5, <1>6, <1>7, <1>8, <1>9, <1>10, <1>11, <1>12, <1>13, <1>14, <1>15, <1>16, <1>18,
             <1>19, <2>1 DEF Next
<1> QED BY <1>20 DEF Goal

LEMMA ListOf ==
    ASSUME NEW Words, NEW n \in Nat, NEW s \in [1..n -> Words]
    PROVE  s \in Seq(Words) /\ Len(s) = n
<1>1. s \in Seq(Words)
    BY SeqDef
<1>2. Len(s) \in Nat /\ DOMAIN s = 1..Len(s) /\ DOMAIN s = 1..n
    BY <1>1, LenProperties
<1>3. Len(s) = n
    BY <1>2
<1> QED BY <1>1, <1>3

LEMMA PackageInit == Init => PackageInv
<1> SUFFICES ASSUME Init PROVE PackageInv
    OBVIOUS
<1>1. /\ task.rev = 3 /\ task.decision = "recommend_offer" /\ task.at = 3 /\ task.hr = 1 /\ task.hm = 2
      /\ DOMAIN task = Fields /\ scores = 0 /\ accepted = {}
    BY DEF Init, Fields
<1>2. RowOK(task)
    BY <1>1 DEF RowOK, InstantsUpTo, Decisions
<1>3. /\ versions \in Seq(Version) /\ Len(versions) = 2
      /\ \A i \in 1..2: versions[i].rev = i /\ versions[i].content.at = 0
           /\ versions[i].content.hr = 1 /\ versions[i].content.hm \in 0..i
  <2> DEFINE row(i) == [rev |-> i, content |-> [decision |-> None, at |-> 0, hr |-> 1,
                                                hm |-> IF i = 2 THEN 2 ELSE 0, scores |-> 0]]
  <2>1. versions = [i \in 1..2 |-> row(i)]
      BY DEF Init
  <2>2. \A i \in 1..2: row(i) \in Version
      BY DEF Version, Decisions
  <2>3. \A i \in 1..2: row(i).rev = i /\ row(i).content.at = 0
           /\ row(i).content.hr = 1 /\ row(i).content.hm \in 0..i
      OBVIOUS
  <2> HIDE DEF row
  <2>4. versions \in [1..2 -> Version] /\ \A i \in 1..2: versions[i] = row(i)
      BY <2>1, <2>2
  <2> HIDE DEF Version
  <2>5. versions \in Seq(Version) /\ Len(versions) = 2
      BY <2>4, ListOf
  <2> QED BY <2>3, <2>4, <2>5
<1>4. \A i \in 1..2: VersionOK(versions[i], task)
    BY <1>1, <1>3 DEF VersionOK, InstantsUpTo, Agrees
<1>5. DOMAIN calls = Callers /\ \A c \in Callers: SnapshotOK(calls[c], task, versions)
    BY DEF Init, SnapshotOK, Idle
<1> QED BY <1>1, <1>2, <1>3, <1>4, <1>5 DEF PackageInv, OneOfferAccepted

(* However attempts time out and are repeated, and whoever answers them,   *)
(* Offer is told of at most one attempt that it was accepted.              *)
THEOREM OfferAcceptedOnce == Spec => []OneOfferAccepted
<1>1. PackageInv /\ [Next]_vars => PackageInv'
    BY PackageStep
<1>2. PackageInv => OneOfferAccepted
    BY DEF PackageInv
<1> QED BY PackageInit, <1>1, <1>2, PTL DEF Spec

(* Whatever is decided, signed or withdrawn while an offer is prepared, it *)
(* is requested on the decision and the sign-offs in force, and names a    *)
(* version that shows them.                                                *)
THEOREM OffersAreSigned == Spec => OfferOnSignedPackage
<1>1. PackageInv /\ [Next]_vars => PackageInv' /\ OfferStep
    BY PackageStep
<1>2. OfferStep => [task'.attempt # task.attempt =>
                      /\ ~task.review
                      /\ task.decision = "recommend_offer" /\ task.hr # 0 /\ task.hm # 0
                      /\ LET frozen == versions'[task'.offerVersion].content IN
                           /\ frozen.decision = task.decision /\ frozen.at = task.at
                           /\ frozen.hr = task.hr /\ frozen.hm = task.hm]_vars
    BY DEF OfferStep
<1> QED BY PackageInit, <1>1, <1>2, PTL DEF Spec, OfferOnSignedPackage

(***************************************************************************)
(* The meetings of the host account, in s2s mode.  Only the holder of the  *)
(* lock is at work, so that what it read is what is stored; a creation is  *)
(* asked of Zoom only for a key without a meeting.                         *)
(***************************************************************************)
CallOK(x, f) ==
    \/ x = H!Idle
    \/ /\ DOMAIN x = {"op", "key", "seen", "made", "at"}
       /\ x.at \in {"leave", "account", "create", "created", "save"}
       /\ x.key \in Keys /\ x.seen = f
       /\ x.at \in {"create", "created"} => f.meetings[x.key] = 0
       /\ x.at = "created" => x.made # 0

FileOK(f) == DOMAIN f = {"meetings", "pending"} /\ DOMAIN f.meetings = Keys

ToldOK(ts, f) == DOMAIN ts = Keys /\ \A k \in Keys: \A n \in ts[k]: n # 0 /\ n = f.meetings[k]

MeetingsInv ==
    mode = "s2s" =>
      /\ FileOK(file) /\ ToldOK(told, file)
      /\ DOMAIN hosting = Callers
      /\ \A c \in Callers: CallOK(hosting[c], file) /\ (hosting[c] # H!Idle => lock = c)
      /\ asked \in Nat /\ \A c \in Callers: hosting[c].at = "create" => asked # 0

\* What is stored when the mark is changed, and when the meeting of a key is.
LEMMA MarkChanges ==
    ASSUME NEW f, FileOK(f), NEW p
    PROVE  FileOK([f EXCEPT !.pending = p]) /\ [f EXCEPT !.pending = p].meetings = f.meetings
BY DEF FileOK

LEMMA MeetingChanges ==
    ASSUME NEW f, FileOK(f), NEW k \in Keys, NEW n
    PROVE  /\ FileOK(H!With(f, k, n)) /\ H!With(f, k, n).meetings[k] = n
           /\ \A j \in Keys: j # k => H!With(f, k, n).meetings[j] = f.meetings[j]
BY DEF FileOK, H!With

LEMMA MeetingsStep == H!MeetingsAssumption /\ MeetingsInv /\ [H!Next]_(H!vars) => MeetingsInv'
<1> SUFFICES ASSUME H!MeetingsAssumption, MeetingsInv, [H!Next]_(H!vars), mode' = "s2s" PROVE MeetingsInv'
    BY DEF MeetingsInv
<1>0. /\ mode = "s2s" /\ FileOK(file) /\ ToldOK(told, file) /\ DOMAIN hosting = Callers /\ asked \in Nat
      /\ \A c \in Callers: CallOK(hosting[c], file) /\ (hosting[c] # H!Idle => lock = c)
      /\ \A c \in Callers: hosting[c].at = "create" => asked # 0
      /\ "nobody" \notin Callers
  <2>1. mode = "s2s"
      BY DEF H!Next, H!vars, H!Begin, H!BeginToken, H!Refresh, H!RefreshFails, H!Leave, H!Refuse, H!Reuse,
             H!Mark, H!Created, H!Store, H!Refused, H!Unknown, H!Deleted, H!Forget, H!Authorize, H!Lapse, H!Crash
  <2> QED BY <2>1 DEF MeetingsInv, H!MeetingsAssumption, H!Nobody
\* The holder of the lock works; everybody else is idle.
<1>1. ASSUME NEW c \in Callers, NEW x, hosting' = [hosting EXCEPT ![c] = x], CallOK(x, file'),
             x # H!Idle => lock' = c,
             \A d \in Callers: d # c => hosting[d] = H!Idle,
             FileOK(file'), ToldOK(told', file'), asked' \in Nat, x.at = "create" => asked' # 0
      PROVE  MeetingsInv'
  <2>1. DOMAIN hosting' = Callers /\ \A d \in Callers: (hosting'[d] = x /\ d = c) \/ (hosting'[d] = H!Idle /\ d # c)
      BY <1>0, <1>1
  <2>2. H!Idle.at = "idle"
      BY DEF H!Idle
  <2>3. \A d \in Callers: CallOK(hosting'[d], file') /\ (hosting'[d] # H!Idle => lock' = d)
                          /\ (hosting'[d].at = "create" => asked' # 0)
      BY <1>1, <2>1, <2>2 DEF CallOK
  <2> QED BY <1>1, <2>1, <2>3 DEF MeetingsInv
<1>2. ASSUME NEW c \in Callers, NEW at, hosting[c].at = at, at # "idle"
      PROVE  /\ hosting[c] # H!Idle /\ lock = c /\ \A d \in Callers: d # c => hosting[d] = H!Idle
             /\ DOMAIN hosting[c] = {"op", "key", "seen", "made", "at"}
             /\ at \in {"leave", "account", "create", "created", "save"}
             /\ hosting[c].key \in Keys /\ hosting[c].seen = file
             /\ at \in {"create", "created"} => file.meetings[hosting[c].key] = 0
             /\ at = "created" => hosting[c].made # 0
  <2>1. hosting[c] # H!Idle
      BY <1>2 DEF H!Idle
  <2>2. lock = c /\ \A d \in Callers: d # c => hosting[d] = H!Idle
      BY <1>0, <2>1
  <2> QED BY <1>0, <1>2, <2>1, <2>2 DEF CallOK
<1>3. ASSUME NEW c \in Callers, H!Enter(c)
      PROVE  \A d \in Callers: hosting[d] = H!Idle
    BY <1>0, <1>3 DEF H!Enter, H!Nobody
<1>i. CallOK(H!Idle, file') /\ H!Idle.at # "create"
    BY DEF CallOK, H!Idle
\* A caller is answered and nothing is stored.
<1>4. ASSUME NEW c \in Callers, NEW at, hosting[c].at = at, at # "idle", H!Returns(c),
             UNCHANGED <<file, asked>>, ToldOK(told', file')
      PROVE  MeetingsInv'
  <2>1. hosting' = [hosting EXCEPT ![c] = H!Idle] /\ \A d \in Callers: d # c => hosting[d] = H!Idle
      BY <1>2, <1>4 DEF H!Returns
  <2>2. FileOK(file') /\ asked' \in Nat
      BY <1>0, <1>4
  <2> QED BY <1>1, <1>i, <1>4, <2>1, <2>2
<1>5. ASSUME NEW c \in Callers, NEW op, NEW k \in Keys, H!Begin(c, op, k) PROVE MeetingsInv'
  <2> DEFINE at == CASE op = "reset" -> "save"
                     [] op = "end" /\ file.meetings[k] = H!NoMeeting -> "leave"
                     [] mode = "oauth" /\ lapsed -> "refresh"
                     [] OTHER -> "account"
             x == [op |-> op, key |-> k, seen |-> file, made |-> H!NoMeeting, at |-> at]
  <2>1. at \in {"save", "leave", "account"}
      BY <1>0
  <2>2. hosting' = [hosting EXCEPT ![c] = x] /\ lock' = c /\ UNCHANGED <<file, asked, told>> /\ H!Enter(c)
      BY <1>5 DEF H!Begin, H!history
  <2> HIDE DEF at
  <2>3. CallOK(x, file') /\ x.at # "create"
      BY <2>1, <2>2 DEF CallOK
  <2> HIDE DEF x
  <2>4. FileOK(file') /\ ToldOK(told', file') /\ asked' \in Nat
      BY <1>0, <2>2
  <2> QED BY <1>1, <1>3, <2>2, <2>3, <2>4
<1>6. ASSUME NEW c \in Callers, H!BeginToken(c) PROVE FALSE
    BY <1>0, <1>6 DEF H!BeginToken
<1>7. ASSUME NEW c \in Callers, H!Refresh(c) \/ H!RefreshFails(c) PROVE FALSE
    BY <1>2, <1>7 DEF H!Refresh, H!RefreshFails
<1>8. ASSUME NEW c \in Callers, H!Leave(c) \/ H!Refuse(c) PROVE MeetingsInv'
  <2>1. hosting[c].at \in {"leave", "account"} /\ H!Returns(c) /\ UNCHANGED <<file, asked, told>>
      BY <1>8 DEF H!Leave, H!Refuse, H!history
  <2>2. ToldOK(told', file')
      BY <1>0, <2>1
  <2> QED BY <1>4, <2>1, <2>2
<1>9. ASSUME NEW c \in Callers, H!Unknown(c) PROVE MeetingsInv'
  <2>1. hosting[c].at = "create" /\ H!Returns(c) /\ UNCHANGED <<file, asked, told>>
      BY <1>9 DEF H!Unknown
  <2>2. ToldOK(told', file')
      BY <1>0, <2>1
  <2> QED BY <1>4, <2>1, <2>2
<1>10. ASSUME NEW c \in Callers, H!Reuse(c) PROVE MeetingsInv'
  <2> DEFINE k == hosting[c].key
             n == hosting[c].seen.meetings[k]
  <2>1. /\ hosting[c].at = "account" /\ n # 0 /\ H!Returns(c) /\ UNCHANGED <<file, asked>>
        /\ told' = [told EXCEPT ![k] = told[k] \cup {n}]
      BY <1>10 DEF H!Reuse, H!NoMeeting
  <2>2. k \in Keys /\ n = file.meetings[k]
      BY <1>2, <2>1
  <2> HIDE DEF k, n
  <2>3. ToldOK(told', file')
      BY <1>0, <2>1, <2>2 DEF ToldOK
  <2> QED BY <1>4, <2>1, <2>3
<1>11. ASSUME NEW c \in Callers, H!Mark(c) PROVE MeetingsInv'
  <2> DEFINE k == hosting[c].key
             f == H!Marked(c, k)
             x == [hosting[c] EXCEPT !.at = "create", !.seen = f]
  <2>1. /\ hosting[c].at = "account" /\ hosting[c].seen.meetings[k] = 0 /\ UNCHANGED <<lock, told>>
        /\ file' = f /\ asked' = asked + 1 /\ hosting' = [hosting EXCEPT ![c] = x]
    <3>1. hosting' = [hosting EXCEPT ![c].at = "create", ![c].seen = f]
        BY <1>11 DEF H!Mark
    <3> HIDE DEF f, k
    <3>2. hosting' = [hosting EXCEPT ![c] = x]
        BY <3>1
    <3> QED BY <1>11, <3>2 DEF H!Mark, H!NoMeeting, k, f
  <2>2. /\ k \in Keys /\ hosting[c].seen = file /\ lock = c
        /\ DOMAIN hosting[c] = {"op", "key", "seen", "made", "at"}
        /\ \A d \in Callers: d # c => hosting[d] = H!Idle
      BY <1>2, <2>1
  <2>3. f = [file EXCEPT !.pending = k]
      BY <2>2 DEF H!Marked
  <2> HIDE DEF f
  <2>4. FileOK(f) /\ f.meetings = file.meetings
      BY <1>0, <2>2, <2>3, MarkChanges
  <2>5. /\ DOMAIN x = {"op", "key", "seen", "made", "at"} /\ x.at = "create" /\ x.seen = f /\ x.key = k
      BY <2>2
  <2> HIDE DEF x, k
  <2>6. CallOK(x, file')
      BY <2>1, <2>2, <2>4, <2>5 DEF CallOK
  <2>7. ToldOK(told', file')
      BY <1>0, <2>1, <2>4 DEF ToldOK
  <2>8. asked' \in Nat /\ asked' # 0
      BY <1>0, <2>1
  <2> QED BY <1>1, <2>1, <2>2, <2>4, <2>6, <2>7, <2>8
<1>12. ASSUME NEW c \in Callers, H!Created(c) PROVE MeetingsInv'
  <2> DEFINE x == [hosting[c] EXCEPT !.at = "created", !.made = asked]
  <2>1. hosting[c].at = "create" /\ UNCHANGED <<lock, told, file, asked>>
      BY <1>12 DEF H!Created, H!history
  <2>2. hosting' = [hosting EXCEPT ![c] = x]
      BY <1>12 DEF H!Created
  <2>3. /\ hosting[c].key \in Keys /\ hosting[c].seen = file /\ lock = c
        /\ file.meetings[hosting[c].key] = 0
        /\ DOMAIN hosting[c] = {"op", "key", "seen", "made", "at"}
        /\ \A d \in Callers: d # c => hosting[d] = H!Idle
      BY <1>2, <2>1
  <2>4. /\ DOMAIN x = {"op", "key", "seen", "made", "at"} /\ x.at = "created" /\ x.seen = file
        /\ x.key = hosting[c].key /\ x.made = asked
      BY <2>3
  <2>5. asked # 0
      BY <1>0, <2>1
  <2> HIDE DEF x
  <2>6. CallOK(x, file') /\ x.at # "create"
      BY <2>1, <2>3, <2>4, <2>5 DEF CallOK
  <2>7. FileOK(file') /\ ToldOK(told', file') /\ asked' \in Nat
      BY <1>0, <2>1
  <2> QED BY <1>1, <2>1, <2>2, <2>3, <2>6, <2>7
\* A key without a meeting was not told of any, and now gets the one made.
<1>13. ASSUME NEW c \in Callers, H!Store(c) PROVE MeetingsInv'
  <2> DEFINE k == hosting[c].key
             n == hosting[c].made
             g == [file EXCEPT !.pending = NoKey]
  <2>1. hosting[c].at = "created" /\ H!Returns(c) /\ UNCHANGED asked
        /\ told' = [told EXCEPT ![k] = told[k] \cup {n}]
        /\ file' = H!With([hosting[c].seen EXCEPT !.pending = NoKey], k, n)
      BY <1>13 DEF H!Store
  <2>2. /\ k \in Keys /\ hosting[c].seen = file /\ file.meetings[k] = 0 /\ n # 0
        /\ \A d \in Callers: d # c => hosting[d] = H!Idle
      BY <1>2, <2>1
  <2>3. file' = H!With(g, k, n)
      BY <2>1, <2>2
  <2>4. FileOK(g) /\ g.meetings = file.meetings
      BY <1>0, <2>2, MarkChanges
  <2> HIDE DEF k, n, g
  <2>5. FileOK(file') /\ file'.meetings[k] = n /\ \A j \in Keys: j # k => file'.meetings[j] = file.meetings[j]
      BY <2>2, <2>3, <2>4, MeetingChanges
  <2>6. ToldOK(told', file')
      BY <1>0, <2>1, <2>2, <2>5 DEF ToldOK
  <2>7. hosting' = [hosting EXCEPT ![c] = H!Idle] /\ asked' \in Nat
      BY <1>0, <2>1 DEF H!Returns
  <2> QED BY <1>1, <1>i, <2>2, <2>5, <2>6, <2>7
<1>14. ASSUME NEW c \in Callers, H!Refused(c) PROVE MeetingsInv'
  <2>1. hosting[c].at = "create" /\ H!Returns(c) /\ UNCHANGED <<asked, told>> /\ file' = H!Marked(c, NoKey)
      BY <1>14 DEF H!Refused, H!history
  <2>2. /\ hosting[c].key \in Keys /\ hosting[c].seen = file
        /\ \A d \in Callers: d # c => hosting[d] = H!Idle
      BY <1>2, <2>1
  <2>3. file' = [file EXCEPT !.pending = NoKey]
      BY <2>1, <2>2 DEF H!Marked
  <2>4. FileOK(file') /\ file'.meetings = file.meetings
      BY <1>0, <2>2, <2>3, MarkChanges
  <2>5. ToldOK(told', file')
      BY <1>0, <2>1, <2>4 DEF ToldOK
  <2>6. hosting' = [hosting EXCEPT ![c] = H!Idle] /\ asked' \in Nat
      BY <1>0, <2>1 DEF H!Returns
  <2> QED BY <1>1, <1>i, <2>2, <2>4, <2>5, <2>6
<1>15. ASSUME NEW c \in Callers, H!Deleted(c) PROVE MeetingsInv'
  <2> DEFINE at == IF file.meetings[hosting[c].key] = H!NoMeeting THEN "leave" ELSE "save"
             x == [hosting[c] EXCEPT !.seen = file, !.at = at]
  <2>1. hosting[c].at \in {"account", "latest"} /\ UNCHANGED <<lock, told, file, asked>>
      BY <1>15 DEF H!Deleted, H!history
  <2>2. hosting' = [hosting EXCEPT ![c] = x]
      BY <1>15 DEF H!Deleted
  <2>3. /\ hosting[c].key \in Keys /\ lock = c
        /\ DOMAIN hosting[c] = {"op", "key", "seen", "made", "at"}
        /\ \A d \in Callers: d # c => hosting[d] = H!Idle
      BY <1>2, <2>1
  <2>4. at \in {"leave", "save"}
      OBVIOUS
  <2> HIDE DEF at
  <2>5. /\ DOMAIN x = {"op", "key", "seen", "made", "at"} /\ x.at = at /\ x.seen = file
        /\ x.key = hosting[c].key
      BY <2>3
  <2> HIDE DEF x
  <2>6. CallOK(x, file') /\ x.at # "create"
      BY <2>1, <2>3, <2>4, <2>5 DEF CallOK
  <2>7. FileOK(file') /\ ToldOK(told', file') /\ asked' \in Nat
      BY <1>0, <2>1
  <2> QED BY <1>1, <2>1, <2>2, <2>3, <2>6, <2>7
<1>16. ASSUME NEW c \in Callers, H!Forget(c) PROVE MeetingsInv'
  <2> DEFINE k == hosting[c].key
             f == H!With(file, k, 0)
  <2>1. /\ hosting[c].at = "save" /\ H!Returns(c) /\ UNCHANGED asked
        /\ told' = [told EXCEPT ![k] = {}]
      BY <1>16 DEF H!Forget
  <2>2. /\ k \in Keys /\ hosting[c].seen = file
        /\ \A d \in Callers: d # c => hosting[d] = H!Idle
      BY <1>2, <2>1
  <2>3. file' = [f EXCEPT !.pending = NoKey] \/ file' = f
      BY <1>16, <2>2 DEF H!Forget, H!NoMeeting
  <2> HIDE DEF k, f
  <2>4. FileOK(f) /\ \A j \in Keys: j # k => f.meetings[j] = file.meetings[j]
      BY <1>0, <2>2, MeetingChanges DEF f
  <2>5. FileOK([f EXCEPT !.pending = NoKey]) /\ [f EXCEPT !.pending = NoKey].meetings = f.meetings
      BY <2>2, <2>4, MarkChanges
  <2>6. FileOK(file') /\ \A j \in Keys: j # k => file'.meetings[j] = file.meetings[j]
      BY <2>3, <2>4, <2>5
  <2>7. ToldOK(told', file')
      BY <1>0, <2>1, <2>2, <2>6 DEF ToldOK
  <2>8. hosting' = [hosting EXCEPT ![c] = H!Idle] /\ asked' \in Nat
      BY <1>0, <2>1 DEF H!Returns
  <2> QED BY <1>1, <1>i, <2>2, <2>6, <2>7, <2>8
<1>17. ASSUME NEW c \in Callers, NEW same, H!Authorize(c, same) PROVE FALSE
    BY <1>0, <1>17 DEF H!Authorize
<1>18. ASSUME H!Lapse PROVE FALSE
    BY <1>0, <1>18 DEF H!Lapse
<1>19. ASSUME H!Crash PROVE MeetingsInv'
  <2>1. hosting' = [c \in Callers |-> H!Idle] /\ UNCHANGED <<file, asked, told>>
      BY <1>19 DEF H!Crash
  <2>2. DOMAIN hosting' = Callers /\ \A c \in Callers: hosting'[c] = H!Idle
      BY <2>1
  <2> QED BY <1>0, <1>i, <2>1, <2>2 DEF MeetingsInv
<1>20. ASSUME UNCHANGED H!vars PROVE MeetingsInv'
    BY <1>0, <1>20 DEF H!vars, MeetingsInv
<1> QED BY <1>5, <1>6, <1>7, <1>8, <1>9, <1>10, <1>11, <1>12, <1>13, <1>14, <1>15, <1>16, <1>17, <1>18,
           <1>19, <1>20 DEF H!Next

(* In s2s mode a key has one meeting until it is ended or reset, for any   *)
(* number of keys, callers, crashes and lost answers.                      *)
THEOREM OneMeetingPerKey == H!MeetingsAssumption => (H!Spec => []SameMeeting)
<1> SUFFICES ASSUME H!MeetingsAssumption PROVE H!Spec => []SameMeeting
    OBVIOUS
<1>1. H!Init => MeetingsInv
  <2> SUFFICES ASSUME H!Init PROVE MeetingsInv
      OBVIOUS
  <2>1. FileOK(file) /\ ToldOK(told, file)
      BY DEF H!Init, H!Empty, FileOK, ToldOK
  <2>2. DOMAIN hosting = Callers /\ asked \in Nat /\ \A c \in Callers: hosting[c] = H!Idle
      BY DEF H!Init
  <2> QED BY <2>1, <2>2 DEF MeetingsInv, CallOK, H!Idle
<1>2. MeetingsInv /\ [H!Next]_(H!vars) => MeetingsInv'
    BY MeetingsStep
<1>3. MeetingsInv => SameMeeting
    BY DEF MeetingsInv, ToldOK, SameMeeting, H!SameMeeting
<1> QED BY <1>1, <1>2, <1>3, PTL DEF H!Spec
=============================================================================
