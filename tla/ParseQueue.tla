----------------------------- MODULE ParseQueue -----------------------------
(***************************************************************************)
(* The queue of AI extractions of the Interview backend (ParsingService):  *)
(* every process polls it, claims the oldest eligible job under a lease of *)
(* ninety seconds, calls the model, and stores the result or the failure.  *)
(* A lease that lapses makes the job eligible again while its worker is    *)
(* still at it; what fences the late worker off is the token of its claim. *)
(*                                                                         *)
(* Only jobs in the queue are modelled, not what asks for them; the order  *)
(* by creation is left out (any eligible job may be found), and so are the *)
(* duplicate check after a resume and the check of the JD's version before *)
(* a retry by hand.  Time is abstract: a lease may lapse, and a back-off   *)
(* end, at any moment.                                                     *)
(***************************************************************************)
EXTENDS Naturals

CONSTANTS
  ParseJobs,   \* the queued extractions
  Workers,     \* the processes that poll
  MaxClaims,   \* bound: claims per job
  MaxRetries   \* bound: retries by hand per job

QueueAssumption == MaxClaims \in Nat /\ MaxRetries \in Nat

VARIABLES
  parse,       \* the ParseJob rows
  polls,       \* where each process's tick is
  results      \* history: by job, the claims whose result was stored

vars == <<parse, polls, results>>

Resting == [at |-> "rest"]

Init ==
  /\ parse = [j \in ParseJobs |->
               [status |-> "queued", due |-> TRUE, attempt |-> 0, token |-> 0,
                claims |-> 0, retries |-> 0]]
  /\ polls = [w \in Workers |-> Resting]
  /\ results = [j \in ParseJobs |-> {}]

(* Queued and due, or with a lease that has lapsed.                        *)
Eligible(j) == parse[j].status \in {"queued", "parsing"} /\ parse[j].due

(* The tick finds a job.                                                   *)
Find(w, j) ==
  /\ polls[w] = Resting
  /\ Eligible(j)
  /\ polls' = [polls EXCEPT ![w] = [at |-> "found", job |-> j, attempt |-> parse[j].attempt]]
  /\ UNCHANGED <<parse, results>>

(* It claims it, with a token of its own, if it is still eligible.         *)
Claim(w) ==
  /\ polls[w].at = "found"
  /\ LET j == polls[w].job IN
       IF Eligible(j)
       THEN /\ parse[j].claims < MaxClaims
            /\ parse' = [parse EXCEPT ![j] = [@ EXCEPT !.status = "parsing", !.due = FALSE,
                           !.attempt = parse[j].attempt + 1, !.claims = parse[j].claims + 1,
                           !.token = parse[j].claims + 1]]
            /\ polls' = [polls EXCEPT ![w] = [at |-> "call", job |-> j,
                           attempt |-> polls[w].attempt, token |-> parse[j].claims + 1]]
       ELSE polls' = [polls EXCEPT ![w] = Resting] /\ UNCHANGED parse
  /\ UNCHANGED results

(* Mutant: the row is found by its id alone, whoever has claimed it since. *)
HoldsJob(w) == TRUE

(* The where clause of both writes.                                        *)
HoldsClaim(w) == parse[polls[w].job].token = polls[w].token

(* The model answers: the result waits for review.                         *)
StoreResult(w) ==
  /\ polls[w].at = "call"
  /\ LET j == polls[w].job IN
       IF HoldsClaim(w)
       THEN /\ parse' = [parse EXCEPT ![j].status = "needs_review", ![j].token = 0]
            /\ results' = [results EXCEPT ![j] = @ \cup {polls[w].token}]
       ELSE UNCHANGED <<parse, results>>
  /\ polls' = [polls EXCEPT ![w] = Resting]

(* It fails, for good or not: the attempt read before the claim decides    *)
(* whether the job is queued again, after a back-off.                      *)
StoreFailure(w, retryable) ==
  /\ polls[w].at = "call"
  /\ LET j == polls[w].job IN
       parse' = IF HoldsClaim(w)
                THEN [parse EXCEPT ![j].token = 0, ![j].due = FALSE, ![j].status =
                        IF retryable /\ polls[w].attempt < 2 THEN "queued" ELSE "failed"]
                ELSE parse
  /\ polls' = [polls EXCEPT ![w] = Resting]
  /\ UNCHANGED results

(* The lease lapses, or the back-off ends.                                 *)
BecomeDue(j) ==
  /\ parse[j].status \in {"queued", "parsing"}
  /\ ~parse[j].due
  /\ parse' = [parse EXCEPT ![j].due = TRUE]
  /\ UNCHANGED <<polls, results>>

(* Somebody retries a failed job.                                          *)
RetryParse(j) ==
  /\ parse[j].status = "failed"
  /\ parse[j].retries < MaxRetries
  /\ parse' = [parse EXCEPT ![j] = [@ EXCEPT !.status = "queued", !.due = TRUE, !.attempt = 0,
                                             !.retries = parse[j].retries + 1]]
  /\ UNCHANGED <<polls, results>>

(* The process restarts.                                                   *)
RestartWorker(w) ==
  /\ polls[w] # Resting
  /\ polls' = [polls EXCEPT ![w] = Resting]
  /\ UNCHANGED <<parse, results>>

Next ==
  \/ \E w \in Workers :
       \/ \E j \in ParseJobs : Find(w, j)
       \/ Claim(w)
       \/ StoreResult(w)
       \/ \E retryable \in BOOLEAN : StoreFailure(w, retryable)
       \/ RestartWorker(w)
  \/ \E j \in ParseJobs : BecomeDue(j) \/ RetryParse(j)

Spec == Init /\ [][Next]_vars

-----------------------------------------------------------------------------
(* The state is well-typed. *)
TypeOK ==
  /\ parse \in [ParseJobs -> [status : {"queued", "parsing", "needs_review", "failed"},
                              due : BOOLEAN, attempt : 0..MaxClaims, token : 0..MaxClaims,
                              claims : 0..MaxClaims, retries : 0..MaxRetries]]
  /\ polls \in [Workers -> {Resting}
       \cup [at : {"found"}, job : ParseJobs, attempt : Nat]
       \cup [at : {"call"}, job : ParseJobs, attempt : Nat, token : Nat]]
  /\ results \in [ParseJobs -> SUBSET (1..MaxClaims)]

(* A job has at most one result, which stays: a worker that lost its lease *)
(* neither replaces the result of the one that took over nor turns the job *)
(* into a failure, and a retry by hand never runs a job that has a result. *)
OneResultPerJob ==
  \A j \in ParseJobs : results[j] # {} =>
     (\E k \in 1..MaxClaims : results[j] = {k}) /\ parse[j].status = "needs_review"

(* Not so: the third failure is the last.  The attempt is counted in the   *)
(* claim but compared as it was read before, and the claims of a process   *)
(* that died are counted with the others and never compared at all.        *)
ThreeAttempts == \A j \in ParseJobs : parse[j].attempt <= 3
=============================================================================
