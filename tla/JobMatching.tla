----------------------------- MODULE JobMatching -----------------------------
(***************************************************************************)
(* One candidate and one open job: matching runs that propose the link     *)
(* (DiscoveryService), the people who dismiss, defer or confirm a          *)
(* proposal, and the application that a confirmation creates               *)
(* (LinkingService).                                                       *)
(*                                                                         *)
(* Runs are started from a queue, or by hand.  Every write to a            *)
(* recommendation is by its id alone.  Scores are a choice of outcome; the *)
(* version of the candidate's profile, which a proposal must still be      *)
(* based on when it is confirmed, stands for that of the criteria too.     *)
(* Core Record, which is asked first and answers the same request the same *)
(* way, always agrees; the job stays open.                                 *)
(***************************************************************************)
EXTENDS Naturals, Sequences

CONSTANTS
  MatchJobs,    \* job_discovery_match jobs
  Runners,      \* the processes that run them, or a match asked for by hand
  People,       \* requests on recommendations
  MaxProposals, \* bound: recommendations
  MaxProfiles,  \* bound: versions of the profile
  MaxClaims     \* bound: claims per job

MatchingAssumption == {MaxProposals, MaxProfiles, MaxClaims} \subseteq Nat

VARIABLES
  queue,        \* the ProcessingJob rows
  runs,         \* where each run is
  recs,         \* the recommendations, each with its link_confirmation task
  profile,      \* the latest version of the profile
  application,  \* whether there is an Application
  applicants,   \* applicantCount of the job, as far as this candidate goes
  review,       \* its screening_review: "none", "open", or "decided" by an approved decision
  people        \* what each request has read

vars == <<queue, runs, recs, profile, application, applicants, review, people>>
linkvars == <<application, applicants, review>>

Resting == [at |-> "rest"]
NoJob == [at |-> "no job"]

Init ==
  /\ queue = [m \in MatchJobs |-> [status |-> "none", due |-> TRUE, token |-> 0, claims |-> 0]]
  /\ runs = [w \in Runners |-> Resting]
  /\ recs = <<>>
  /\ profile = 1
  /\ application = FALSE
  /\ applicants = 0
  /\ review = "none"
  /\ people = [p \in People |-> Resting]

(* A parse, or "match this job", queues a run.                             *)
Enqueue(m) ==
  /\ queue[m].status = "none"
  /\ queue' = [queue EXCEPT ![m].status = "queued"]
  /\ UNCHANGED <<runs, recs, profile, linkvars, people>>

(* A run reads the profile; a candidate confirmed for the job is not       *)
(* matched again, else the matcher is asked.                               *)
Started(m, token) ==
  IF \E n \in DOMAIN recs : recs[n].status = "confirmed"
  THEN [at |-> "done", job |-> m, token |-> token]
  ELSE [at |-> "asked", job |-> m, token |-> token, profile |-> profile]

(* A round finds a job, queued or with a lapsed lease ...                  *)
Find(w, m) ==
  /\ runs[w] = Resting
  /\ queue[m].status \in {"queued", "running"} /\ queue[m].due
  /\ runs' = [runs EXCEPT ![w] = [at |-> "found", job |-> m, status |-> queue[m].status]]
  /\ UNCHANGED <<queue, recs, profile, linkvars, people>>

(* ... and claims it if its status is what it was, lapsed or not.          *)
Claim(w) ==
  /\ runs[w].at = "found"
  /\ LET m == runs[w].job IN
       IF queue[m].status = runs[w].status
       THEN /\ queue[m].claims < MaxClaims
            /\ queue' = [queue EXCEPT ![m] = [status |-> "running", due |-> FALSE,
                           token |-> @.claims + 1, claims |-> @.claims + 1]]
            /\ runs' = [runs EXCEPT ![w] = Started(m, queue[m].claims + 1)]
       ELSE runs' = [runs EXCEPT ![w] = Resting] /\ UNCHANGED queue
  /\ UNCHANGED <<recs, profile, linkvars, people>>

(* Matching by hand, when no job is queued or running.                     *)
MatchCandidate(w) ==
  /\ runs[w] = Resting
  /\ \A m \in MatchJobs : queue[m].status \notin {"queued", "running"}
  /\ runs' = [runs EXCEPT ![w] = Started(NoJob, 0)]
  /\ UNCHANGED <<queue, recs, profile, linkvars, people>>

(* No match, or no answer.                                                 *)
NoMatch(w) ==
  /\ runs[w].at = "asked"
  /\ runs' = [runs EXCEPT ![w] = [at |-> "done", job |-> @.job, token |-> @.token]]
  /\ UNCHANGED <<queue, recs, profile, linkvars, people>>

(* A match: the proposals there are will be replaced.                      *)
ReadProposed(w) ==
  /\ runs[w].at = "asked"
  /\ runs' = [runs EXCEPT ![w] =
       [at |-> "propose", job |-> @.job, token |-> @.token, profile |-> @.profile,
        stale |-> {n \in DOMAIN recs : recs[n].status = "proposed"}]]
  /\ UNCHANGED <<queue, recs, profile, linkvars, people>>

(* A confirmation that is about to commit holds its recommendation.        *)
Held(n) == \E p \in People : people[p].at = "confirm3" /\ people[p].rec = n

Closed(task) == IF task = "open" THEN "closed" ELSE task

Replaced(rec) == [rec EXCEPT !.status = "stale", !.task = Closed(@)]

(* They become stale, whatever they are by now, and a new one is proposed. *)
Propose(w) ==
  /\ runs[w].at = "propose"
  /\ Len(recs) < MaxProposals
  /\ \A n \in runs[w].stale : ~Held(n)
  /\ recs' = Append([n \in DOMAIN recs |-> IF n \in runs[w].stale THEN Replaced(recs[n]) ELSE recs[n]],
                    [status |-> "proposed", task |-> "open", basis |-> runs[w].profile])
  /\ runs' = [runs EXCEPT ![w] = [at |-> "done", job |-> @.job, token |-> @.token]]
  /\ UNCHANGED <<queue, profile, linkvars, people>>

(* The job has ended, well or with an error at any point, if it is still   *)
(* this run's.                                                             *)
Finish(w) ==
  /\ runs[w].at \in {"asked", "propose", "done"}
  /\ LET m == runs[w].job IN
       queue' = IF m # NoJob /\ queue[m].token = runs[w].token
                THEN [queue EXCEPT ![m].status = "ended", ![m].token = 0]
                ELSE queue
  /\ runs' = [runs EXCEPT ![w] = Resting]
  /\ UNCHANGED <<recs, profile, linkvars, people>>

LeaseLapses(m) ==
  /\ queue[m].status = "running" /\ ~queue[m].due
  /\ queue' = [queue EXCEPT ![m].due = TRUE]
  /\ UNCHANGED <<runs, recs, profile, linkvars, people>>

(* The profile is parsed again or corrected.                               *)
NewProfile ==
  /\ profile < MaxProfiles
  /\ profile' = profile + 1
  /\ UNCHANGED <<queue, runs, recs, linkvars, people>>

(* A person adds a recommendation, on no profile ...                       *)
CreateManual(p) ==
  /\ people[p] = Resting
  /\ Len(recs) < MaxProposals
  /\ recs' = Append(recs, [status |-> "proposed", task |-> "none", basis |-> 0])
  /\ people' = [people EXCEPT ![p] = [at |-> "added", rec |-> Len(recs) + 1]]
  /\ UNCHANGED <<queue, runs, profile, linkvars>>

(* ... and then its task.                                                  *)
AddTask(p) ==
  /\ people[p].at = "added"
  /\ recs' = [recs EXCEPT ![people[p].rec].task = "open"]
  /\ people' = [people EXCEPT ![p] = Resting]
  /\ UNCHANGED <<queue, runs, profile, linkvars>>

(* Dismissing or deferring a recommendation, whatever it is by now ...     *)
Dismiss(p, n, to) ==
  /\ people[p] = Resting
  /\ ~Held(n)
  /\ recs' = [recs EXCEPT ![n].status = to]
  /\ people' = [people EXCEPT ![p] = [at |-> "dismissed", rec |-> n]]
  /\ UNCHANGED <<queue, runs, profile, linkvars>>

(* ... and then closing its task.                                          *)
CloseTask(p) ==
  /\ people[p].at = "dismissed"
  /\ recs' = [recs EXCEPT ![people[p].rec].task = Closed(@)]
  /\ people' = [people EXCEPT ![p] = Resting]
  /\ UNCHANGED <<queue, runs, profile, linkvars>>

(* Confirming one that is proposed or deferred, on the latest profile.     *)
ConfirmRead(p, n) ==
  /\ people[p] = Resting
  /\ recs[n].status \in {"proposed", "deferred"}
  /\ recs[n].basis = profile
  /\ people' = [people EXCEPT ![p] = [at |-> "confirm1", rec |-> n]]
  /\ UNCHANGED <<queue, runs, recs, profile, linkvars>>

(* The transaction looks for the application ...                           *)
ConfirmExisting(p) ==
  /\ people[p].at = "confirm1"
  /\ people' = [people EXCEPT ![p] = [at |-> "confirm2", rec |-> @.rec, existing |-> application]]
  /\ UNCHANGED <<queue, runs, recs, profile, linkvars>>

(* ... updates the recommendation, looks for a review of an existing       *)
(* application that is open ...                                            *)
ConfirmReview(p) ==
  /\ people[p].at = "confirm2"
  /\ ~Held(people[p].rec)
  /\ people' = [people EXCEPT ![p] =
       [at |-> "confirm3", rec |-> @.rec, existing |-> @.existing,
        open |-> @.existing /\ review = "open"]]
  /\ UNCHANGED <<queue, runs, recs, profile, linkvars>>

(* Mutant: an application created meanwhile is used.                       *)
CreateAnyway(p) == TRUE

(* The unique index on (candidate, job, cycle).                            *)
MayCreate(p) == people[p].existing \/ ~application

NeedsScreening(p) == ~people[p].open /\ ~(people[p].existing /\ review = "decided")

(* ... and then for a decision; with neither it is sent to be screened.    *)
(* An index that refuses the application takes the transaction back.       *)
ConfirmCommit(p) ==
  /\ people[p].at = "confirm3"
  /\ LET c == people[p] IN
       IF MayCreate(p)
       THEN /\ application' = TRUE
            /\ applicants' = IF c.existing THEN applicants ELSE applicants + 1
            /\ recs' = [recs EXCEPT ![c.rec] = [@ EXCEPT !.status = "confirmed", !.task = Closed(recs[c.rec].task)]]
            /\ review' = IF NeedsScreening(p) THEN "open" ELSE review
       ELSE UNCHANGED <<recs, linkvars>>
  /\ people' = [people EXCEPT ![p] = Resting]
  /\ UNCHANGED <<queue, runs, profile>>

(* Screening's decision closes the review, its withdrawal opens it again.  *)
Decide ==
  /\ review # "none"
  /\ review' = IF review = "open" THEN "decided" ELSE "open"
  /\ UNCHANGED <<queue, runs, recs, profile, application, applicants, people>>

Next ==
  \/ \E m \in MatchJobs : Enqueue(m) \/ LeaseLapses(m) \/ \E w \in Runners : Find(w, m)
  \/ \E w \in Runners : \/ Claim(w) \/ MatchCandidate(w) \/ NoMatch(w)
                        \/ ReadProposed(w) \/ Propose(w) \/ Finish(w)
  \/ NewProfile \/ Decide
  \/ \E p \in People, n \in DOMAIN recs :
       ConfirmRead(p, n) \/ \E to \in {"dismissed", "deferred"} : Dismiss(p, n, to)
  \/ \E p \in People : \/ CreateManual(p) \/ AddTask(p) \/ CloseTask(p)
                       \/ ConfirmExisting(p) \/ ConfirmReview(p) \/ ConfirmCommit(p)

Spec == Init /\ [][Next]_vars

(* The candidate is counted for the job once if there is an application,   *)
(* also when two proposals are confirmed at once.                          *)
CountedOnce == applicants = IF application THEN 1 ELSE 0

(* Not so: one proposal at a time.  Two runs replace the same ones.        *)
OneProposal == \A m, n \in DOMAIN recs :
  recs[m].status = "proposed" /\ recs[n].status = "proposed" => m = n

(* Not so: a confirmed recommendation stays confirmed.  A run that read it *)
(* as proposed makes it stale, and the candidate is matched again; and     *)
(* dismiss does not look.                                                  *)
ConfirmedStays == [][\A n \in DOMAIN recs :
  recs[n].status = "confirmed" => recs'[n].status = "confirmed"]_vars

(* Not so: an application is sent to be screened once, as long as it has a *)
(* review or a decision.  The two are read one after the other.            *)
ScreenedOnce == [][\A p \in People :
  ConfirmCommit(p) /\ people[p].existing => ~NeedsScreening(p)]_vars
=============================================================================
