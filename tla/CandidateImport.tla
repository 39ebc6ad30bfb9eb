---------------------------- MODULE CandidateImport ----------------------------
(***************************************************************************)
(* Importing resumes into Screening's library (ImportsService, with        *)
(* MaterialsService.saveUpload and DuplicatesService.resolve).             *)
(*                                                                         *)
(* An upload request walks through the files of its batch: each becomes an *)
(* item, is stored as a material (one per content), is compared with the   *)
(* candidates on record and, if it is new, leaves a candidate_creation job *)
(* behind.  Workers claim jobs under a lease, create the candidate and     *)
(* queue the parsing of the resume.  Recruiters cancel batches, retry      *)
(* failed items and decide the reviews of possible duplicates.  Each       *)
(* handler ends by rolling up its batch's status from the items.           *)
(*                                                                         *)
(* Processes: the upload request of each batch, the workers, and other     *)
(* requests (retries and reviews).                                         *)
(***************************************************************************)
EXTENDS Naturals, FiniteSets

CONSTANTS
    Batches,
    Items,         \* the files of all batches
    Batch,         \* Items -> Batches
    Contents,      \* what files contain (their hash)
    Content,       \* Items -> Contents
    Workers,       \* instances polling for candidate_creation jobs
    Requests,      \* retry and review requests under way at a time
    Slow,          \* processes between whose reading and writing of a batch others act
    MaxJobs,       \* bound: jobs of an item
    MaxFaults      \* bound: crashes, errors and leases outlived by their worker

Processes == Batches \cup Workers \cup Requests
Jobs == Items \X (1..MaxJobs)
None == <<>>

ImportAssumption ==
    /\ Batch \in [Items -> Batches] /\ Content \in [Items -> Contents]
    /\ MaxJobs \in Nat \ {0} /\ MaxFaults \in Nat
    /\ Batches \cap Workers = {} /\ Batches \cap Requests = {} /\ Workers \cap Requests = {}

VARIABLES
    batch,       \* Batches -> status ("absent" before the upload)
    status,      \* Items -> status of the row ("absent" before it is created)
    retryable,   \* items with retryable
    stored,      \* items with materialId
    linked,      \* Items -> candidateId: none, the own file's candidate, or another one
    reviewed,    \* items with duplicateReviewId
    analyses,    \* Contents -> times the material was analysed, 0 if there is none
    readable,    \* contents whose material was read
    imported,    \* contents with a ResumeVersion of a candidate
    parses,      \* Contents -> resume_parse jobs queued
    job,         \* Jobs -> status ("absent" before it is created)
    token,       \* Jobs -> leaseToken: the number of the claim, 0 for null
    claims,      \* Jobs -> attempt
    lapsed,      \* jobs whose leaseUntil has passed
    pc,          \* Processes -> where the handler is
    of,          \* Processes -> the item it is at
    saw,         \* Processes -> what it read: a status, or a number of analyses
    work,        \* Workers -> the job picked
    held,        \* Workers -> its lease token
    faults

items == <<status, retryable, stored, linked, reviewed>>
files == <<analyses, readable, imported, parses>>
jobs == <<job, token, claims, lapsed>>
procs == <<pc, of, saw>>
vars == <<batch, items, files, jobs, procs, work, held, faults>>

Init ==
    /\ batch = [b \in Batches |-> "absent"]
    /\ status = [i \in Items |-> "absent"]
    /\ retryable = {} /\ stored = {} /\ reviewed = {}
    /\ linked = [i \in Items |-> "none"]
    /\ analyses = [c \in Contents |-> 0]
    /\ readable = {} /\ imported = {}
    /\ parses = [c \in Contents |-> 0]
    /\ job = [j \in Jobs |-> "absent"]
    /\ token = [j \in Jobs |-> 0]
    /\ claims = [j \in Jobs |-> 0]
    /\ lapsed = {}
    /\ pc = [p \in Processes |-> "idle"]
    /\ of = [p \in Processes |-> None]
    /\ saw = [p \in Processes |-> None]
    /\ work = [w \in Workers |-> None]
    /\ held = [w \in Workers |-> 0]
    /\ faults = 0

\* The process goes on with what it read, or having used it.
Reads(p, step, what) ==
    /\ pc' = [pc EXCEPT ![p] = step]
    /\ saw' = [saw EXCEPT ![p] = what]
Goes(p, step) == Reads(p, step, None)

\* updateItem
Sets(i, s) == status' = [status EXCEPT ![i] = s]
\* Failures are retryable unless they are the file's own.
Fails(i, again) ==
    /\ Sets(i, "failed")
    /\ retryable' = IF again THEN retryable \cup {i} ELSE retryable \ {i}

FileOf(p) == Content[of[p]]

\* enqueueCandidateCreation
Enqueue(i) ==
    \E n \in 1..MaxJobs:
        /\ job[<<i, n>>] = "absent" /\ \A k \in 1..(n - 1): job[<<i, k>>] # "absent"
        /\ job' = [job EXCEPT ![<<i, n>>] = "queued"]
        /\ UNCHANGED <<token, claims, lapsed>>

-----------------------------------------------------------------------------
(* finalizeBatch: the items are read, then the batch is written.           *)

Terminal == {"completed", "duplicate", "needs_review", "failed", "cancelled"}

Rollup(b) ==
    LET found == {status[i]: i \in {k \in Items: Batch[k] = b}} \ {"absent"} IN
    IF ~(found \subseteq Terminal) THEN "processing"
    ELSE IF found \cap {"failed", "needs_review"} # {} THEN "partial"
    ELSE "completed"

BatchOf(p) == IF p \in Batches THEN p ELSE Batch[of[p]]

\* A handler is at its end, an upload after the last file.
Rolls(p) ==
    \/ pc[p] = "rollup"
    \/ p \in Batches /\ pc[p] = "next" /\ \A i \in Items: Batch[i] = p => status[i] # "absent"

RollupRead(p) ==
    /\ Rolls(p) /\ p \in Slow
    /\ Reads(p, "filing", Rollup(BatchOf(p)))
    /\ UNCHANGED <<batch, items, files, jobs, of, work, held, faults>>

\* The handler is over; an upload runs once.
Ends(p) ==
    /\ Goes(p, IF p \in Batches THEN "done" ELSE "idle")
    /\ of' = [of EXCEPT ![p] = None]
    /\ work' = [w \in Workers |-> IF w = p THEN None ELSE work[w]]
    /\ held' = [w \in Workers |-> IF w = p THEN 0 ELSE held[w]]

RollupWrite(p) ==
    /\ \/ pc[p] = "filing" /\ batch' = [batch EXCEPT ![BatchOf(p)] = saw[p]]
       \/ Rolls(p) /\ p \notin Slow /\ batch' = [batch EXCEPT ![BatchOf(p)] = Rollup(BatchOf(p))]
    /\ Ends(p)
    /\ UNCHANGED <<items, files, jobs, faults>>

-----------------------------------------------------------------------------
(* The upload request of a batch.                                          *)

\* createBatch; a repeated request finds the batch by its key.
Upload(b) ==
    /\ batch[b] = "absent"
    /\ batch' = [batch EXCEPT ![b] = "processing"]
    /\ Goes(b, "next")
    /\ UNCHANGED <<items, files, jobs, of, work, held, faults>>

\* The item is created, and saveUpload looks for a material with the hash ...
Receive(b, i) ==
    /\ pc[b] = "next" /\ Batch[i] = b /\ status[i] = "absent"
    /\ Sets(i, "processing")
    /\ Reads(b, "storing", analyses[Content[i]])
    /\ of' = [of EXCEPT ![b] = i]
    /\ UNCHANGED <<batch, retryable, stored, linked, reviewed, files, jobs, work, held, faults>>

\* ... one that was read makes the item a duplicate, linked to its candidate
\* if there already is one; so does one analysed again meanwhile.
IsDuplicate(b) == saw[b] > 0 /\ (FileOf(b) \in readable \/ analyses[FileOf(b)] # saw[b])

SaveDuplicate(b) ==
    /\ pc[b] = "storing" /\ IsDuplicate(b)
    /\ Sets(of[b], "duplicate")
    /\ linked' = [linked EXCEPT ![of[b]] = IF FileOf(b) \in imported THEN "own" ELSE "none"]
    /\ stored' = stored \cup {of[b]}
    /\ Goes(b, "next")
    /\ UNCHANGED <<batch, retryable, reviewed, files, jobs, of, work, held, faults>>

\* A new material is analysed, one that could not be read once more.
SaveNew(b, ok) ==
    LET i == of[b] IN
    /\ pc[b] = "storing" /\ ~IsDuplicate(b) /\ analyses[FileOf(b)] = saw[b]
    /\ analyses' = [analyses EXCEPT ![FileOf(b)] = @ + 1]
    /\ readable' = IF ok THEN readable \cup {FileOf(b)} ELSE readable
    /\ stored' = IF ok THEN stored ELSE stored \cup {i}
    /\ IF ok THEN Goes(b, "matching") /\ UNCHANGED <<status, retryable>>
             ELSE Goes(b, "next") /\ Fails(i, FALSE)
    /\ UNCHANGED <<batch, linked, reviewed, imported, parses, jobs, of, work, held, faults>>

\* The unique hash refuses the second of two concurrent uploads.
SaveRefused(b) ==
    /\ pc[b] = "storing" /\ saw[b] = 0 /\ analyses[FileOf(b)] > 0
    /\ Fails(of[b], TRUE)
    /\ Goes(b, "next")
    /\ UNCHANGED <<batch, stored, linked, reviewed, files, jobs, of, work, held, faults>>

\* findPossibleDuplicate: the item waits for a person, or for a candidate.
Match(b, possible) ==
    LET i == of[b] IN
    /\ pc[b] = "matching"
    /\ stored' = stored \cup {i}
    /\ IF possible
       THEN Sets(i, "needs_review") /\ reviewed' = reviewed \cup {i} /\ Goes(b, "next")
       ELSE Sets(i, "processing") /\ UNCHANGED reviewed /\ Goes(b, "queueing")
    /\ UNCHANGED <<batch, retryable, linked, files, jobs, of, work, held, faults>>

UploadEnqueues(b) ==
    /\ pc[b] = "queueing"
    /\ Enqueue(of[b])
    /\ Goes(b, "next")
    /\ UNCHANGED <<batch, items, files, of, work, held, faults>>

\* failItem
UploadError(b) ==
    /\ pc[b] \in {"storing", "matching", "queueing"}
    /\ faults < MaxFaults
    /\ faults' = faults + 1
    /\ Fails(of[b], TRUE)
    /\ Goes(b, "next")
    /\ UNCHANGED <<batch, stored, linked, reviewed, files, jobs, of, work, held>>

-----------------------------------------------------------------------------
(* Recruiters.                                                             *)

\* One transaction: whatever is still processing is cancelled.
Cancel(b) ==
    LET cancelled == {i \in Items: Batch[i] = b /\ status[i] = "processing"} IN
    /\ batch[b] # "absent"
    /\ batch' = [batch EXCEPT ![b] = "cancelled"]
    /\ status' = [i \in Items |-> IF i \in cancelled THEN "cancelled" ELSE status[i]]
    /\ retryable' = retryable \ cancelled
    /\ UNCHANGED <<stored, linked, reviewed, files, jobs, procs, work, held, faults>>

\* retryItem reads the item ...
RetryRead(r, i) ==
    /\ pc[r] = "idle"
    /\ status[i] = "failed" /\ i \in retryable /\ i \in stored
    /\ job[<<i, MaxJobs>>] = "absent"
    /\ Goes(r, "retrying")
    /\ of' = [of EXCEPT ![r] = i]
    /\ UNCHANGED <<batch, items, files, jobs, work, held, faults>>

\* ... writes it whatever it has become, and queues a job.
RetryWrite(r) ==
    /\ pc[r] = "retrying"
    /\ Sets(of[r], "processing")
    /\ retryable' = retryable \ {of[r]}
    /\ Goes(r, "queueing")
    /\ UNCHANGED <<batch, stored, linked, reviewed, files, jobs, of, work, held, faults>>

\* retryBatch rolls the batch up at the end, retryItem does not.
RetryEnqueues(r, whole) ==
    /\ pc[r] = "queueing" /\ r \in Requests
    /\ Enqueue(of[r])
    /\ IF whole THEN Goes(r, "rollup") /\ UNCHANGED <<of, work, held>> ELSE Ends(r)
    /\ UNCHANGED <<batch, items, files, faults>>

\* resolveOnce, one transaction that claims the open check: the file becomes a
\* version of a candidate, or is left as another source of one.
Resolve(r, i, owner) ==
    /\ pc[r] = "idle" /\ status[i] = "needs_review"
    /\ owner = "own" => Content[i] \notin imported
    /\ Sets(i, "completed")
    /\ linked' = [linked EXCEPT ![i] = owner]
    /\ imported' = IF owner = "own" THEN imported \cup {Content[i]} ELSE imported
    /\ Goes(r, IF owner = "own" THEN "parsing" ELSE "rollup")
    /\ of' = [of EXCEPT ![r] = i]
    /\ UNCHANGED <<batch, retryable, stored, reviewed, analyses, readable, parses, jobs, work, held, faults>>

\* A review and a worker queue the resume of the candidate for parsing.
QueueParse(p) ==
    /\ pc[p] = "parsing"
    /\ parses' = [parses EXCEPT ![FileOf(p)] = @ + 1]
    /\ Goes(p, IF p \in Workers THEN "linking" ELSE "rollup")
    /\ UNCHANGED <<batch, items, analyses, readable, imported, jobs, of, work, held, faults>>

-----------------------------------------------------------------------------
(* A worker with a candidate_creation job.                                 *)

Claimable(j) == job[j] = "queued" \/ (job[j] = "running" /\ j \in lapsed)

Pick(w, j) ==
    /\ pc[w] = "idle" /\ Claimable(j)
    /\ Reads(w, "claiming", job[j])
    /\ of' = [of EXCEPT ![w] = j[1]]
    /\ work' = [work EXCEPT ![w] = j]
    /\ UNCHANGED <<batch, items, files, jobs, held, faults>>

Claims(w) ==
    LET j == work[w] IN
    /\ job' = [job EXCEPT ![j] = "running"]
    /\ claims' = [claims EXCEPT ![j] = @ + 1]
    /\ token' = [token EXCEPT ![j] = claims[j] + 1]
    /\ lapsed' = lapsed \ {j}
    /\ held' = [held EXCEPT ![w] = claims[j] + 1]
    /\ Goes(w, "checking")
    /\ UNCHANGED <<batch, items, files, of, work, faults>>

\* Mutant: the row is claimed whatever has become of it.
ClaimAnyway(w) == pc[w] = "claiming" /\ Claims(w)

\* The update is conditional on the status read, not on the lease.
Claim(w) == pc[w] = "claiming" /\ job[work[w]] = saw[w] /\ Claims(w)

ClaimLost(w) ==
    /\ pc[w] = "claiming" /\ job[work[w]] # saw[w]
    /\ Ends(w)
    /\ UNCHANGED <<batch, items, files, jobs, faults>>

\* Mutant: the lease stays.
EndsJobLeased(w, s) ==
    IF token[work[w]] = held[w]
    THEN job' = [job EXCEPT ![work[w]] = s] /\ UNCHANGED <<token, claims, lapsed>>
    ELSE UNCHANGED jobs

\* Job status writes are conditional on the lease.
EndsJob(w, s) ==
    IF token[work[w]] = held[w]
    THEN /\ job' = [job EXCEPT ![work[w]] = s]
         /\ token' = [token EXCEPT ![work[w]] = 0]
         /\ lapsed' = lapsed \ {work[w]}
         /\ UNCHANGED claims
    ELSE UNCHANGED jobs

\* The job is read again with its lease, and the item's status.
CheckLost(w) ==
    /\ pc[w] = "checking" /\ token[work[w]] # held[w]
    /\ Ends(w)
    /\ UNCHANGED <<batch, items, files, jobs, faults>>

CheckCancelled(w) ==
    /\ pc[w] = "checking" /\ token[work[w]] = held[w] /\ status[of[w]] = "cancelled"
    /\ EndsJob(w, "cancelled")
    /\ Ends(w)
    /\ UNCHANGED <<batch, items, files, faults>>

CheckPasses(w) ==
    /\ pc[w] = "checking" /\ token[work[w]] = held[w] /\ status[of[w]] # "cancelled"
    /\ Goes(w, "creating")
    /\ UNCHANGED <<batch, items, files, jobs, of, work, held, faults>>

\* Mutant: a candidate that is there already is taken as created.
CreateAgain(w) ==
    /\ pc[w] = "creating"
    /\ imported' = imported \cup {FileOf(w)}
    /\ Goes(w, "parsing")
    /\ UNCHANGED <<batch, items, analyses, readable, parses, jobs, of, work, held, faults>>

\* Mutant: ... and its parsing as queued.
CreateReused(w) ==
    /\ pc[w] = "creating"
    /\ imported' = imported \cup {FileOf(w)}
    /\ Goes(w, IF FileOf(w) \in imported THEN "linking" ELSE "parsing")
    /\ UNCHANGED <<batch, items, analyses, readable, parses, jobs, of, work, held, faults>>

\* createCandidateFromMaterial: Core Record answers with the same candidate
\* each time, and one transaction writes it with its ResumeVersion; candidate
\* and material can be written only once.
Create(w) ==
    /\ pc[w] = "creating"
    /\ imported' = imported \cup {FileOf(w)}
    /\ Goes(w, IF FileOf(w) \in imported THEN "failing" ELSE "parsing")
    /\ UNCHANGED <<batch, items, analyses, readable, parses, jobs, of, work, held, faults>>

\* The item is completed whatever it has become.
Complete(w) ==
    /\ pc[w] = "linking"
    /\ Sets(of[w], "completed")
    /\ linked' = [linked EXCEPT ![of[w]] = "own"]
    /\ Goes(w, "ending")
    /\ UNCHANGED <<batch, retryable, stored, reviewed, files, jobs, of, work, held, faults>>

Succeed(w) ==
    /\ pc[w] = "ending"
    /\ EndsJob(w, "succeeded")
    /\ Goes(w, "rollup")
    /\ UNCHANGED <<batch, items, files, of, work, held, faults>>

\* Core Record is unavailable, or the database refuses a write.
WorkerError(w) ==
    /\ pc[w] \in {"creating", "parsing", "linking", "ending"} /\ w \in Workers
    /\ faults < MaxFaults
    /\ faults' = faults + 1
    /\ Goes(w, "failing")
    /\ UNCHANGED <<batch, items, files, jobs, of, work, held>>

FailItem(w) ==
    /\ pc[w] = "failing"
    /\ Fails(of[w], TRUE)
    /\ Goes(w, "failed")
    /\ UNCHANGED <<batch, stored, linked, reviewed, files, jobs, of, work, held, faults>>

FailJob(w) ==
    /\ pc[w] = "failed"
    /\ EndsJob(w, "failed")
    /\ Goes(w, "rollup")
    /\ UNCHANGED <<batch, items, files, of, work, held, faults>>

-----------------------------------------------------------------------------
Idle(p) == pc[p] \in {"idle", "done"}
Held(j) == \E w \in Workers: work[w] = j /\ held[w] = token[j]

\* The lease of a dead worker runs out ...
LeaseLapses(j) ==
    /\ job[j] = "running" /\ j \notin lapsed /\ ~Held(j)
    /\ lapsed' = lapsed \cup {j}
    /\ UNCHANGED <<batch, items, files, job, token, claims, procs, work, held, faults>>

\* ... and that of a slow one: no heartbeat renews it.
LeaseOutlived(j) ==
    /\ job[j] = "running" /\ j \notin lapsed /\ Held(j) /\ faults < MaxFaults
    /\ faults' = faults + 1
    /\ lapsed' = lapsed \cup {j}
    /\ UNCHANGED <<batch, items, files, job, token, claims, procs, work, held>>

\* A worker or a request dies with its instance; an upload is not resumed.
Dies(p) ==
    /\ ~Idle(p) /\ faults < MaxFaults
    /\ faults' = faults + 1
    /\ Ends(p)
    /\ UNCHANGED <<batch, items, files, jobs>>

Next ==
    \/ \E p \in Processes: RollupRead(p)
    \/ \E p \in Processes: RollupWrite(p)
    \/ \E b \in Batches: Upload(b)
    \/ \E b \in Batches, i \in Items: Receive(b, i)
    \/ \E b \in Batches: SaveDuplicate(b)
    \/ \E b \in Batches, ok \in BOOLEAN: SaveNew(b, ok)
    \/ \E b \in Batches: SaveRefused(b)
    \/ \E b \in Batches, possible \in BOOLEAN: Match(b, possible)
    \/ \E b \in Batches: UploadEnqueues(b)
    \/ \E b \in Batches: UploadError(b)
    \/ \E b \in Batches: Cancel(b)
    \/ \E r \in Requests, i \in Items: RetryRead(r, i)
    \/ \E r \in Requests: RetryWrite(r)
    \/ \E r \in Requests, whole \in BOOLEAN: RetryEnqueues(r, whole)
    \/ \E r \in Requests, i \in Items, owner \in {"own", "other"}: Resolve(r, i, owner)
    \/ \E p \in Processes: QueueParse(p)
    \/ \E w \in Workers, j \in Jobs: Pick(w, j)
    \/ \E w \in Workers: Claim(w)
    \/ \E w \in Workers: ClaimLost(w)
    \/ \E w \in Workers: CheckLost(w)
    \/ \E w \in Workers: CheckCancelled(w)
    \/ \E w \in Workers: CheckPasses(w)
    \/ \E w \in Workers: Create(w)
    \/ \E w \in Workers: Complete(w)
    \/ \E w \in Workers: Succeed(w)
    \/ \E w \in Workers: WorkerError(w)
    \/ \E w \in Workers: FailItem(w)
    \/ \E w \in Workers: FailJob(w)
    \/ \E j \in Jobs: LeaseLapses(j)
    \/ \E j \in Jobs: LeaseOutlived(j)
    \/ \E p \in Processes: Dies(p)

Spec == Init /\ [][Next]_vars
-----------------------------------------------------------------------------
Steps == {"idle", "done", "next", "storing", "matching", "queueing", "retrying", "parsing",
          "claiming", "checking", "creating", "linking", "ending", "failing", "failed", "rollup", "filing"}

TypeOK ==
    /\ batch \in [Batches -> {"absent", "processing", "partial", "completed", "cancelled"}]
    /\ status \in [Items -> Terminal \cup {"absent", "processing"}]
    /\ retryable \subseteq Items /\ stored \subseteq Items /\ reviewed \subseteq Items
    /\ linked \in [Items -> {"none", "own", "other"}]
    /\ analyses \in [Contents -> 0..Cardinality(Items)]
    /\ imported \subseteq readable /\ readable \subseteq {c \in Contents: analyses[c] > 0}
    /\ parses \in [Contents -> Nat]
    /\ job \in [Jobs -> {"absent", "queued", "running", "succeeded", "failed", "cancelled"}]
    /\ token \in [Jobs -> Nat] /\ claims \in [Jobs -> Nat]
    /\ \A j \in Jobs: job[j] = "running" <=> token[j] > 0
    /\ lapsed \subseteq {j \in Jobs: job[j] = "running"}
    /\ pc \in [Processes -> Steps]
    /\ of \in [Processes -> Items \cup {None}]
    /\ work \in [Workers -> Jobs \cup {None}]
    /\ held \in [Workers -> Nat]
    /\ faults \in 0..MaxFaults

\* What reads as done is done: a succeeded job has left a candidate whose
\* resume is queued for parsing, a completed item points to a candidate, and
\* one that needed no review to the candidate of its own file.
DoneIsDone ==
    /\ \A j \in Jobs: job[j] = "succeeded" => parses[Content[j[1]]] > 0
    /\ \A i \in Items:
        /\ status[i] = "completed" => linked[i] # "none"
        /\ linked[i] = "own" => Content[i] \in imported
        /\ status[i] = "completed" /\ i \notin reviewed => parses[Content[i]] > 0

\* However often its jobs are run and its review is decided, a resume becomes
\* one candidate's and is parsed once.
ParsedOnce == \A c \in Contents: parses[c] <= 1 /\ (parses[c] = 1 => c \in imported)

\* A job that has ended is not run again, whoever picked it before.
EndedJobsStay ==
    [][\A j \in Jobs: job[j] \notin {"absent", "queued", "running"} => job'[j] = job[j]]_vars

\* finalizeBatch is run by all that change an item, "so the batch's rolled-up
\* status doesn't go stale": a batch whose items are all terminal is not shown
\* as processing when nothing is under way.
RollupIsFresh ==
    \A b \in Batches:
        (\A p \in Processes: Idle(p)) /\ (\A j \in Jobs: job[j] \notin {"queued", "running"})
            /\ (\A i \in Items: Batch[i] = b => status[i] \in Terminal)
        => batch[b] # "processing"
=============================================================================
