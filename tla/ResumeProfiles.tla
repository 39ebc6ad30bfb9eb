---------------------------- MODULE ResumeProfiles ----------------------------
(***************************************************************************)
(* The profile of one candidate (ProfilesService): versions read out of    *)
(* resumes by queued parses, versions corrected by hand, and the contact   *)
(* of the candidate that both write.                                       *)
(*                                                                         *)
(* A parse is claimed under a lease, calls the model, and stores its       *)
(* version in a transaction that ends with the condition that the job is   *)
(* still its own; else nothing is kept.  Two writers of the same version   *)
(* meet at the unique index on (candidate, version).  A resume has one     *)
(* parse job.  What a profile says is left out, save the log of its        *)
(* corrections and the contact.                                            *)
(***************************************************************************)
EXTENDS Naturals, Sequences

CONSTANTS
  ParseJobs,     \* the resume_parse jobs of the candidate, one per resume
  Workers,       \* the processes that poll
  Editors,       \* people's requests: corrections and retries
  MaxAttempts,   \* MAX_ATTEMPTS
  MaxClaims,     \* bound: claims per job
  MaxEdits,      \* bound: corrections
  MaxRetries     \* bound: retries by hand per job

ProfilesAssumption ==
  {MaxAttempts, MaxClaims, MaxEdits, MaxRetries} \subseteq Nat /\ MaxAttempts > 0

VARIABLES
  jobs,      \* the ProcessingJob rows
  resumes,   \* parseStatus of the resume of each job
  profiles,  \* the versions of the profile, in their order
  contact,   \* of the candidate: none, as parsed, or the correction it is from
  work,      \* where each process is with its job
  edits,     \* what each request of a person has read
  corrected, \* history: how many corrections were submitted
  matches    \* history: by job, the auto-matches queued

vars == <<jobs, resumes, profiles, contact, work, edits, corrected, matches>>

Resting == [at |-> "rest"]

NoContact == 0
AsParsed == MaxEdits + 1

Init ==
  /\ jobs = [j \in ParseJobs |-> [status |-> "queued", due |-> TRUE, attempt |-> 0, token |-> 0,
                                  claims |-> 0, asked |-> 1, stored |-> 0]]
  /\ resumes = [j \in ParseJobs |-> "pending"]
  /\ profiles = <<>>
  /\ contact = NoContact
  /\ work = [w \in Workers |-> Resting]
  /\ edits = [e \in Editors |-> Resting]
  /\ corrected = 0
  /\ matches = [j \in ParseJobs |-> 0]

(* Queued and due, or running under a lease that has lapsed.               *)
Claimable(j) == jobs[j].status \in {"queued", "running"} /\ jobs[j].due

(* A round claims a job with a token of its own, and reads the candidate.  *)
Claim(w, j) ==
  /\ work[w] = Resting
  /\ Claimable(j)
  /\ jobs[j].claims < MaxClaims
  /\ jobs' = [jobs EXCEPT ![j] = [@ EXCEPT !.status = "running", !.due = FALSE,
                !.attempt = jobs[j].attempt + 1, !.claims = jobs[j].claims + 1, !.token = jobs[j].claims + 1]]
  /\ work' = [work EXCEPT ![w] = [at |-> "call", job |-> j, token |-> jobs[j].claims + 1,
                                  attempt |-> jobs[j].attempt + 1, contact |-> contact]]
  /\ UNCHANGED <<resumes, profiles, contact, edits, corrected, matches>>

(* The model answers; the transaction reads which version is the latest.   *)
Parsed(w) ==
  /\ work[w].at = "call"
  /\ work' = [work EXCEPT ![w] = [at |-> "store", job |-> @.job, token |-> @.token,
                attempt |-> @.attempt, contact |-> @.contact, base |-> Len(profiles)]]
  /\ UNCHANGED <<jobs, resumes, profiles, contact, edits, corrected, matches>>

(* Mutant: the job is completed by its id.                                 *)
HoldsJob(w) == TRUE

(* The condition on every write to the job: it still carries the token.    *)
Holds(w) == jobs[work[w].job].token = work[w].token

(* The unique index on the versions of a candidate.                        *)
VersionFree(base) == base + 1 \notin DOMAIN profiles

(* The parse is stored: its version, the status of the resume, a contact   *)
(* where there was none, the job.                                          *)
Store(w) ==
  /\ work[w].at = "store"
  /\ VersionFree(work[w].base)
  /\ LET j == work[w].job IN
       IF Holds(w)
       THEN /\ profiles' = Append(profiles, [kind |-> "parsed", log |-> <<>>])
            /\ resumes' = [resumes EXCEPT ![j] = "succeeded"]
            /\ contact' \in IF work[w].contact = NoContact THEN {NoContact, AsParsed}
                            ELSE {work[w].contact}
            /\ jobs' = [jobs EXCEPT ![j] = [@ EXCEPT !.status = "succeeded", !.token = 0,
                                                     !.stored = jobs[j].stored + 1]]
            /\ work' = [work EXCEPT ![w] = [at |-> "match", job |-> j]]
       ELSE /\ work' = [work EXCEPT ![w] = Resting]
            /\ UNCHANGED <<jobs, resumes, profiles, contact>>
  /\ UNCHANGED <<edits, corrected, matches>>

(* Matching is queued once the profile is there.                           *)
QueueMatch(w) ==
  /\ work[w].at = "match"
  /\ matches' = [matches EXCEPT ![work[w].job] = @ + 1]
  /\ work' = [work EXCEPT ![w] = Resting]
  /\ UNCHANGED <<jobs, resumes, profiles, contact, edits, corrected>>

(* It fails: the model, the material, or a version that was taken.  It is  *)
(* queued again until its attempts are used up, unless that cannot help.   *)
Failing(w) ==
  \/ work[w].at = "call"
  \/ work[w].at = "store" /\ ~VersionFree(work[w].base)

ParseFails(w) ==
  /\ Failing(w)
  /\ LET j == work[w].job IN
       \/ /\ work[w].attempt < MaxAttempts
          /\ jobs' = IF Holds(w)
                     THEN [jobs EXCEPT ![j] = [@ EXCEPT !.status = "queued", !.due = FALSE, !.token = 0]]
                     ELSE jobs
          /\ work' = [work EXCEPT ![w] = Resting]
       \/ /\ work[w].attempt >= MaxAttempts \/ work[w].at = "call"
          /\ IF Holds(w)
             THEN /\ jobs' = [jobs EXCEPT ![j] = [@ EXCEPT !.status = "failed", !.token = 0]]
                  /\ work' = [work EXCEPT ![w] = [at |-> "failed", job |-> j]]
             ELSE /\ work' = [work EXCEPT ![w] = Resting]
                  /\ UNCHANGED jobs
  /\ UNCHANGED <<resumes, profiles, contact, edits, corrected, matches>>

(* Then, in a write of its own, the resume shows it.                       *)
ShowFailure(w) ==
  /\ work[w].at = "failed"
  /\ resumes' = [resumes EXCEPT ![work[w].job] = "failed"]
  /\ work' = [work EXCEPT ![w] = Resting]
  /\ UNCHANGED <<jobs, profiles, contact, edits, corrected, matches>>

(* A lease lapses, or a back-off ends.                                     *)
Due(j) ==
  /\ jobs[j].status \in {"queued", "running"}
  /\ ~jobs[j].due
  /\ jobs' = [jobs EXCEPT ![j].due = TRUE]
  /\ UNCHANGED <<resumes, profiles, contact, work, edits, corrected, matches>>

(* The process ends in the middle of a parse.                              *)
Crash(w) ==
  /\ work[w] # Resting
  /\ work' = [work EXCEPT ![w] = Resting]
  /\ UNCHANGED <<jobs, resumes, profiles, contact, edits, corrected, matches>>

(* A retry reads that the job has failed ...                               *)
RetryRead(e, j) ==
  /\ edits[e] = Resting
  /\ jobs[j].status = "failed"
  /\ edits' = [edits EXCEPT ![e] = [at |-> "retry", job |-> j]]
  /\ UNCHANGED <<jobs, resumes, profiles, contact, work, corrected, matches>>

(* ... and queues it afresh, whatever has become of it.                    *)
Requeue(e) ==
  /\ edits[e].at = "retry"
  /\ LET j == edits[e].job IN
       /\ jobs[j].asked <= MaxRetries
       /\ resumes' = [resumes EXCEPT ![j] = IF @ = "failed" THEN "pending" ELSE @]
       /\ jobs' = [jobs EXCEPT ![j] = [@ EXCEPT !.status = "queued", !.due = TRUE, !.attempt = 0,
                                                !.token = 0, !.asked = jobs[j].asked + 1]]
  /\ edits' = [edits EXCEPT ![e] = Resting]
  /\ UNCHANGED <<profiles, contact, work, corrected, matches>>

(* A correction reads the latest version ...                               *)
CorrectRead(e) ==
  /\ edits[e] = Resting
  /\ profiles # <<>>
  /\ corrected < MaxEdits
  /\ corrected' = corrected + 1
  /\ edits' = [edits EXCEPT ![e] = [at |-> "correct", base |-> Len(profiles),
                                    log |-> profiles[Len(profiles)].log, edit |-> corrected + 1]]
  /\ UNCHANGED <<jobs, resumes, profiles, contact, work, matches>>

(* Mutant: the correction gets the next free version.                      *)
CorrectLatest(e) ==
  /\ edits[e].at = "correct"
  /\ profiles' = Append(profiles, [kind |-> "corrected", log |-> Append(edits[e].log, edits[e].edit)])
  /\ contact' \in {contact, edits[e].edit}
  /\ edits' = [edits EXCEPT ![e] = Resting]
  /\ UNCHANGED <<jobs, resumes, work, corrected, matches>>

(* ... and writes the one after it, and the contact if that is corrected,  *)
(* or fails when there is one already.                                     *)
Correct(e) ==
  /\ edits[e].at = "correct"
  /\ IF VersionFree(edits[e].base)
     THEN /\ profiles' = Append(profiles, [kind |-> "corrected",
                                           log |-> Append(edits[e].log, edits[e].edit)])
          /\ contact' \in {contact, edits[e].edit}
     ELSE UNCHANGED <<profiles, contact>>
  /\ edits' = [edits EXCEPT ![e] = Resting]
  /\ UNCHANGED <<jobs, resumes, work, corrected, matches>>

Next ==
  \/ \E w \in Workers, j \in ParseJobs : Claim(w, j)
  \/ \E w \in Workers : \/ Parsed(w) \/ Store(w) \/ QueueMatch(w)
                        \/ ParseFails(w) \/ ShowFailure(w) \/ Crash(w)
  \/ \E j \in ParseJobs : Due(j)
  \/ \E e \in Editors, j \in ParseJobs : RetryRead(e, j)
  \/ \E e \in Editors : Requeue(e) \/ CorrectRead(e) \/ Correct(e)

Spec == Init /\ [][Next]_vars

(* A resume becomes a version of the profile at most as often as that was  *)
(* asked for, whoever takes over from whom (#385).                         *)
OneProfilePerAsking == \A j \in ParseJobs : jobs[j].stored <= jobs[j].asked

(* A corrected version has the corrections of the version before it and    *)
(* its own: of two corrections at once, or one and a parse, none is lost.  *)
CorrectionsAddUp == \A k \in DOMAIN profiles :
  profiles[k].kind = "corrected" =>
    /\ k > 1
    /\ \E c \in 1..corrected : profiles[k].log = Append(profiles[k - 1].log, c)

(* Not so: only a correction changes a contact that was corrected.  A      *)
(* parse writes back the contact it read before it called the model.       *)
ContactStays == [][
  (contact \in 1..MaxEdits /\ contact' # contact) =>
    (contact' \in 1..MaxEdits /\ contact' > contact)]_vars

(* Not so: a job that succeeded shows its resume as parsed.  The failure   *)
(* before it is shown in a second write, which may come after a retry.     *)
ParsedIsShown == \A j \in ParseJobs : jobs[j].status = "succeeded" => resumes[j] = "succeeded"

(* Not so: a job that succeeded is not run again.  A retry that read the   *)
(* failure before another retry queues it a second time.                   *)
SucceededIsDone == [][\A j \in ParseJobs :
  jobs[j].status = "succeeded" => jobs'[j].status = "succeeded"]_vars
=============================================================================
