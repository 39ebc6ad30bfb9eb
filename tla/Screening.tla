------------------------------- MODULE Screening -------------------------------
(***************************************************************************)
(* What Screening does before a decision: batches and evaluations; the     *)
(* review of an evaluation; the profile of a candidate; matching and       *)
(* linking; the turns of workspaces in a queue; the import of resumes.     *)
(* These parts share no state, so a behaviour is of one of them.           *)
(***************************************************************************)
EXTENDS ScreeningBatches

CONSTANTS
    Parts,                                                           \* the parts looked at
    Requirements, Reviewers, Resolutions, MaxHandlings,               \* of EvaluationReview
    ParseJobs, Workers, Editors, MaxAttempts, MaxClaims, MaxEdits, MaxRetries,  \* of ResumeProfiles
    MatchJobs, Runners, People, MaxProposals, MaxProfiles, MaxMatchings,  \* of JobMatching
    Workspaces, Pollers, MaxJobs,                                     \* of FairTurns
    Uploads, Files, UploadOf, Contents, ContentOf, Requests, Slow     \* of CandidateImport

VARIABLES
    part,      \* the part this behaviour is of
    concerns, items, evaluation, reviews,
    jobs, resumes, profiles, contact, parsing, edits, corrected, matches,
    matchQueue, matchRuns, recs, profile, application, applicants, review, people,
    turnQueue, taken, turn, lastServed, chosen, ahead,
    importBatch, importStatus, retryable, stored, linked, reviewed, analyses, readable,
    imported, parses, importJob, importToken, importClaims, importLapsed, importPc,
    importOf, importRead, importWork, importHeld, importFaults

R == INSTANCE EvaluationReview
P == INSTANCE ResumeProfiles WITH work <- parsing
M == INSTANCE JobMatching WITH MaxClaims <- MaxMatchings, queue <- matchQueue, runs <- matchRuns
F == INSTANCE FairTurns WITH queue <- turnQueue
C == INSTANCE CandidateImport WITH
       Batches <- Uploads, Items <- Files, Batch <- UploadOf, Content <- ContentOf,
       batch <- importBatch, status <- importStatus, job <- importJob, token <- importToken,
       claims <- importClaims, lapsed <- importLapsed, pc <- importPc, of <- importOf,
       saw <- importRead, work <- importWork, held <- importHeld, faults <- importFaults

ASSUME Parts \subseteq {"batches", "review", "profile", "matching", "turns", "import"}
ASSUME R!ReviewAssumption
ASSUME P!ProfilesAssumption
ASSUME M!MatchingAssumption
ASSUME F!TurnsAssumption
ASSUME C!ImportAssumption

reviewvars == <<concerns, items, evaluation, reviews>>
profilevars == <<jobs, resumes, profiles, contact, parsing, edits, corrected, matches>>
matchvars == <<matchQueue, matchRuns, recs, profile, application, applicants, review, people>>
turnvars == <<turnQueue, taken, turn, lastServed, chosen, ahead>>
importvars == <<importBatch, importStatus, retryable, stored, linked, reviewed, analyses, readable,
                imported, parses, importJob, importToken, importClaims, importLapsed, importPc,
                importOf, importRead, importWork, importHeld, importFaults>>
parts == <<part, vars, reviewvars, profilevars, matchvars, turnvars, importvars>>

ScreeningInit == part \in Parts /\ Init /\ R!Init /\ P!Init /\ M!Init /\ F!Init /\ C!Init

ScreeningNext ==
    /\ UNCHANGED part
    /\ \/ part = "batches" /\ Next /\ UNCHANGED <<reviewvars, profilevars, matchvars, turnvars, importvars>>
       \/ part = "review" /\ R!Next /\ UNCHANGED <<vars, profilevars, matchvars, turnvars, importvars>>
       \/ part = "profile" /\ P!Next /\ UNCHANGED <<vars, reviewvars, matchvars, turnvars, importvars>>
       \/ part = "matching" /\ M!Next /\ UNCHANGED <<vars, reviewvars, profilevars, turnvars, importvars>>
       \/ part = "turns" /\ F!Next /\ UNCHANGED <<vars, reviewvars, profilevars, matchvars, importvars>>
       \/ part = "import" /\ C!Next /\ UNCHANGED <<vars, reviewvars, profilevars, matchvars, turnvars>>

ScreeningSpec == ScreeningInit /\ [][ScreeningNext]_parts

\* EvaluationReview: what was recorded of a concern stays.
HistoryGrows == R!HistoryGrows

\* ResumeProfiles: a resume is stored at most as often as it was asked for.
OneProfilePerAsking == P!OneProfilePerAsking

\* ResumeProfiles: a correction builds on the version before it.
CorrectionsAddUp == P!CorrectionsAddUp

\* JobMatching: a candidate is counted once for a job.
CountedOnce == M!CountedOnce

\* FairTurns: a workspace waits for one job at most of every other.
OneTurnEach == F!OneTurnEach

\* CandidateImport: what reads as done is done ...
DoneIsDone == C!DoneIsDone

\* ... and a resume becomes one candidate's and is parsed once.
ParsedOnce == C!ParsedOnce

\* Not so, of CandidateImport: a roll-up is of the items as they are.
RollupIsFresh == C!RollupIsFresh
=============================================================================
