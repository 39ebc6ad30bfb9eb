# HireOS in TLA+

TLA+ modules of the parts of HireOS in which concurrency, failure and ordering decide
whether the program is correct, TLC runs that check them on small instances, and TLAPS
proofs for every value of the constants. Contents:

1. [The system](#1-the-system)
2. [The modules and the code](#2-the-modules-and-the-code)
3. [How code becomes actions](#3-how-code-becomes-actions)
4. [The runs](#4-the-runs)
5. [The proofs](#5-the-proofs)
6. [What only TLC checks, and what is not modelled](#6-what-only-tlc-checks-and-what-is-not-modelled)
7. [Where the code and what is said of it differ](#7-where-the-code-and-what-is-said-of-it-differ)
8. [Plan](#8-plan)

To repeat the results: `tlc -config handoff_safety.cfg MCHandoffOutbox` (and so on for the
table of section 4, which names the module of each run), `tlapm HandoffOutboxProofs.tla` (and
the other `*Proofs` modules).

## 1. The system

HireOS takes a candidate from a résumé to a hiring decision. Each subsystem is a NestJS
service with a PostgreSQL database of its own, reached through Prisma, and a browser
front-end. Services call each other over HTTP; a gateway routes. Transactions run at
PostgreSQL's default level, read committed, unless the code says otherwise. Any service may
run as several instances: background work is in rows of a table that every instance polls
by a timer.

| subsystem | state | operations | interacts with | hard behaviour |
|---|---|---|---|---|
| **Core Record** (`hireos-core-record`): jobs, candidates, applications, materials, role versions | master rows with a version, status history, audit, outbox, idempotency keys | create, patch, delete; draft, confirm, snapshot a role version | everyone writes through it by HTTP requests that may be repeated | reads before the transaction, repeated requests, optimistic versions, foreign keys |
| **Screening**: import | batches, items, materials, candidates, reviews, processing jobs | upload, cancel, retry, resolve a duplicate; job worker | Core Record for candidates, profiles by a queued job | leases outlived by their worker, crashes between steps, roll-up of a status from many rows |
| **Screening**: evaluations, batches | evaluations by version, batches, items | screen, refresh, start/cancel/retry a batch; worker | AI model, linking | unknown outcomes of calls, cap per workspace, versions written by several parties |
| **Screening**: review of results | concerns, verification items, assessments, tasks | resolve, reopen, assess | evaluations | read-modify-write of one JSON value |
| **Screening**: decisions, outbox | decisions, handoffs, outbox events | decide, withdraw; dispatcher | Interview or Written take the handoff | two dispatchers, late answers, withdrawal during delivery, retries |
| **Screening**: profiles, discovery, linking | profile drafts, recommendations, applications, processing jobs | parse, confirm, match, link | AI model, import, evaluations | leases, tasks that must be closed |
| **Written**: case | case, task, rounds (invitations), plan items, submissions | plan, send, open, submit, finalize, release, hold, resume, close, hand over | takes Screening's handoff, calls Interview | requests of HR and the candidate interleave; half-done calls |
| **Written**: scoring | evaluation status and attempts of a submission | score, by the submission itself and by a timer | AI model | overlapping rounds of a timer, lost runs, a reviewer who is faster |
| **Interview** | tasks, rounds, rubric, meetings, parse jobs, package | stage gates, plan, schedule, score, decide | takes handoffs; Zoom; Core Record | gates read and used later; lease and fencing token |
| **JD** | drafts, documents, analyses, published versions, codes | edit, analyse, publish, migrate, roll back | Core Record (opens jobs) | publishing under a lock of what was read before it |
| **Identity** | users, memberships, sessions, login codes | sign in, invite, demote, remove | every service resolves sessions with it | locks by e-mail and address, last administrator |
| gateway, front-ends, demo, scripts | none | routing, screens | | |

What makes each of them correct, and the property that says so. Those marked * are not part of
a run: they are proved (section 5), and a run checked them until they were.

* **Decisions and outbox.** An application has at most one handoff in force
  (`OneHandoffInForce`*); no event is being sent by two dispatchers (`SingleSender`*); once a
  decision is withdrawn nobody sends its event again (`WithdrawnIsSilent`*), and one in force
  keeps the handoff announced for it (`ActiveHandoffKept`); a handoff reported as sent was
  received (`DispatchedWasReceived`*); a final state stays (`FinalStateStays`*); every handoff
  is settled (`HandoffSettles`). Together: the outbox implements `HandoffDelivery`
  (`ImplementsDelivery`), and the services that take the handoffs, statement by statement, are
  what the outbox takes for one step (`ImplementsOutbox`).
* **Written case.** The state machine in the comment at the head of `CaseLifecycleService`
  holds whatever requests interleave (`ImplementsPipeline` with `CasePipeline`); a status is
  backed by the work it names, the handover by its receipt (`StatusIsEarned`); a review is never
  undone (`ReviewIsKept`*) and follows its order (`ReviewOrder`*); an ended case is quiet
  (`EndedIsQuiet`), its task done (`TaskDoneWithCase`*), its pass based on a met outcome
  (`PassedOnMerit`).
* **Scoring.** One run at a time (`RunsDoNotOverlap`), a stored result is final
  (`ScoredOnce`*), never stored over a review (`ReviewIsNotOverwritten`), the status agrees
  with what is stored (`StatusIsTrue`*), every scoring ends (`ScoringEnds`).
* **Screening: batches.** One result per item (`OneResultPerItem`); an application has one
  current evaluation at most, and one that a batch made current is from inputs at least as new
  as those of every version before it (`CurrentIsSound`); at most `Cap` calls under way
  (`CapHolds`); the queue only waits for unknown outcomes (`QueueMoves`).
* **Screening: review, profiles, matching.** What was recorded of a concern stays
  (`HistoryGrows`); no more profiles are parsed than were asked for (`OneProfilePerAsking`), and
  corrections build on one another (`CorrectionsAddUp`); a candidate is counted once for a job
  (`CountedOnce`); a workspace waits for one job at most of each other one (`OneTurnEach`).
* **Import.** What reads as done is done (`DoneIsDone`), a résumé becomes one candidate's and is
  parsed once (`ParsedOnce`).
* **Core Record.** A request takes effect once (`OneEffectPerKey`), the outbox tells every
  version once and in order (`OneEventPerVersion`*), the status history is a chain
  (`HistoryIsAChain`*), no application loses its job (`ApplicationsKeepTheirJob`), and what JD
  shows as confirmed is confirmed in Core Record (`ConfirmedInCore`).
* **JD.** A published version was reviewed and analysed as it is (`PublishedAsReviewed`) and is
  what its publisher was shown (`PublishedAsShown`); the list of versions only grows
  (`ImplementsVersionLog` with `VersionLog`); no save drops what another window has stored
  (`StoredEditsStay`, with the exceptions of section 7); a text resolves to one live job (`OneJobPerText`).
* **Identity.** An e-mail has one usable code and limits are kept (`IssuedInTurn`); a code signs
  in once and is guessed at a limited number of times (`CodeIsSpent`); an administrator remains
  while requests do not overlap (`AdminRemains`); sessions end with their account
  (`SessionsEnd`).
* **Interview.** An offer goes out on the decision and sign-offs in force (`OfferOnSignedPackage`)
  and one attempt of it is accepted (`OneOfferAccepted`); a round keeps the rubric it was briefed
  on (`BriefIsKept`); an extraction has one result (`OneResultPerJob`); a round has one meeting
  (`SameMeeting`), and a stream marked as asked for is being asked for (`MarkerIsServed`).

## 2. The modules and the code

| module | code | state ↔ code | refines |
|---|---|---|---|
| `HandoffOutbox` | `DecisionsService`, `InterviewHandoffDispatcherService`, `guardedPoll` | `decision`, `status`, `attempt`, `due`, `holder`, `lapsed` are columns of `ScreeningDecision` and `ScreeningOutboxEvent`; `pc`, `batch`, `cur`, `request` the two queues of a dispatcher; `late`, `received` the network and the destination | `HandoffDelivery` |
| `WrittenCase` | `CaseLifecycleService`, `InvitationsService`, `PlanItemsService` | columns of `Case`, `Invitation`, `Submission`, `PlanItem`; `call` what a request in flight has read | `CasePipeline` |
| `SubmissionScoring` | `evaluate`, `resumeEvaluations` of `InvitationsService`, `AiEvaluatorService` | `status`, `attempts`, `evaluation`, `finalized` of `Submission`; `due`, `cur`, `pc` rounds of an instance's timer | |
| `ScreeningBatches` | `ScreeningBatchesService`, `ScreeningService.createEvaluation` and `refresh` | columns of batches, items, evaluations; executions (`Slots`) and single screenings (`Desks`) | |
| `CandidateImport` | `ImportsService`, `MaterialsService.saveUpload`, `DuplicatesService.resolve` | columns of batches, items, materials, processing jobs; `pc`, `of`, `saw` handlers and workers | |
| `CoreRecord` | `JobsService`, `CandidatesService`, `ApplicationsService`, `records.ts`, audit and outbox | rows with versions, their history and events; `answer` the stored idempotency keys; `pc`, `req`, `saw` handlers | |
| `HandoffIntake` | `ScreeningHandoffService` of Interview, the handoff endpoint of Written | the variables of `HandoffOutbox`, and the rows each service writes, statement by statement | `HandoffOutbox` |
| `JdPublishing` | `DocumentsService`, `DocAiService.analyze`, `VersionsService`, `backfill-jd-baseline.ts` | `doc`, `analysis`, `versions`, the status of the job; `pc` and what a request has read | `VersionLog` |
| `DocumentEditing` | `useDocumentSaver`, `DocumentTab`, `docActions`, `PublishModal`, `DocumentsService.save`, `SuggestionsService` | `local` what each window shows and is waiting for; `texts` the revisions stored | |
| `JdIntake` | `IntakeService.createJob` | jobs, sources, drafts; what each request has done | |
| `JdDrafts` | `DraftsService`; `RoleVersionsService` of Core Record | `drafts` and `roles` with their versions and confirmations, the answers stored per key | |
| `LoginCodes` | `AuthService.requestCode`, `verifyCode` | `codes`, the two advisory locks, requests and guesses in flight | |
| `Membership` | `UsersService`, `AuthService.signIn`, `SessionsService`, `BootstrapService` | `member`, roles, sessions; requests in flight with what they read | |
| `InterviewPackage` | decision, sign-offs, package and offer of `TasksService` | `task` (its row), `versions` frozen; `calls` a request's snapshot | |
| `InterviewPlan` | `RubricService`, `TasksService.confirmPlan`, `RoundsService` | rubric versions, the plan, `rounds`; what a request has read | |
| `ParseQueue` | `ParsingService` | rows of the queue with attempt, token and result; `workers` | |
| `HostMeetings` | `ZoomHostService` | the account's file, its lock, what Zoom has created; `calls` | |
| `Streams` | `RtmsService` | marker, generation and status of a round's stream; retry loops | |
| `EvaluationReview` | concerns and verification items of `ScreeningService` | `concerns` with their histories, `items`, `evaluation`; `reviews` in flight | |
| `ResumeProfiles` | `ProfilesService` | `jobs`, `profiles`, `contact`; parses and corrections in flight | |
| `JobMatching` | `DiscoveryService`, `LinkingService` | recommendations with their tasks, the application and its count; runs and requests | |
| `FairTurns` | `FairQueue.next` | the queue, and the turns each poller has given | |
| `HandoffDelivery`, `CasePipeline`, `VersionLog` | what the modules that refine them promise the rest of the system | | |
| `Screening`, `Interview`, `Identity`, `Jd`, `CoreData` | the parts of one subsystem whose models share no variable, side by side | `part` says which part a behaviour is of | |
| `MC*` | values for constants, symmetry | | |
| `*Proofs` | theorems | | |

`Screening` puts `EvaluationReview`, `ResumeProfiles`, `JobMatching`, `FairTurns` and
`CandidateImport` next to `ScreeningBatches`, `Interview` its five modules, `Identity` `Membership`
next to `LoginCodes`, `Jd` `JdIntake` and `DocumentEditing` next to `JdPublishing`, `CoreData`
`JdDrafts` next to `CoreRecord`. The models of the parts share no variable, and no property relates
two of them, so that interleaving them would show nothing more: a behaviour is of one part
(`part` is chosen at the start, and the rest stands still). The properties of the parts are defined there, so that runs and
theorems speak of the same formulas. `Parts` of `Screening` chooses which parts a run looks at.

How they meet: `HandoffIntake` puts the receivers in the place of the one step in which
`HandoffOutbox` has them take a handoff, and TLC and the proofs show that they fit. For the other
seams each side has the other as one atomic step: the submission of `WrittenCase.SubmitWrite`
is what `SubmissionScoring` scores, and `FinalizeWrite` is its `Finalize`; an import of
`CandidateImport` ends with the parse that `ResumeProfiles` starts from and with a candidate of
`CoreRecord`; a confirmation in `JobMatching` starts the single screening of `ScreeningBatches`, and
its results are what `EvaluationReview` starts from; `DocumentEditing` stores by the
compare-and-set that `JdPublishing` saves with.

The definitions are named after the operations of the code. `PROJECT.json` maps each one to
its lines. A definition with no use in `Next`, placed before the one it resembles
(`SaveAsCurrent` before `Save` in `ScreeningBatches`), is that operation with a plausible mistake; the properties
are tried against it, so that each is known to notice one.

## 3. How code becomes actions

* A single `UPDATE`, and a transaction that decides on what it locks, is one action. A
  handler that reads first and writes later is two or more, and what it read is kept in its
  process variable (`withdrawal`, `call`, `saw`, `seen`): other processes act in between.
* A conditional `updateMany` is a guard on the rows *when it runs*. A unique index or a
  foreign key of `schema.prisma` is a guard of the action that meets it. What is modelled from
  outside the code is the end of a process, the roll-back of a transaction, a request that
  its sender has given up, an operator, and that inputs of a screening change.
* A serializable transaction (Interview's package) is two: it takes its snapshot, and commits
  unless what it wrote has been written since; the attempts after a conflict are new ones.
* A lease is a token on the row and a set of rows whose lease has lapsed. Its holder never
  learns of the lapse: it acts on its token, as in the code. Clocks are not modelled; each
  timeout is an action that becomes possible.
* A `fetch` is sent, then accepted, refused or lost, and a lost one may arrive later.
  A crash takes the process's local state and leaves the rows.
* The AI, a virus scan, text extraction and duplicate scoring are a choice of outcome.
* Users send any request in any order: the front-ends restrict nothing.

## 4. The runs

Every run finishes in less than three minutes on two cores. `pass` unless marked.

| run | module, bounds | states | what it shows |
|---|---|---|---|
| `handoff_safety` | `MCHandoffOutbox`: 2 instances (4 queues), 2 recruiters, 1 application, 2 decisions, 2 attempts, requeueing, 1 fault among the first events | 649,875 | a withdrawal cancels only its own handoff, and the outbox implements `HandoffDelivery`, when a lease outlives a delivery |
| `handoff_intake` | `MCHandoffIntake`: 1 instance, 1 recruiter, 1 decision, 2 attempts, 2 faults | 151,740 | `HandoffSettles`, through crashes and failed settles; the receivers are what the outbox takes for one step |
| `written_case` | `MCWrittenCase`: 2 HR requests and 1 of the candidate in flight, 1 question, 2 rounds | 781,454 | the case follows its state machine, and its status is earned |
| `scoring` | `SubmissionScoring`: 2 submissions, 2 rounds of a timer, 3 attempts, 1 fault | 107,292 | safety and `ScoringEnds`, when a run is over before it counts as lost |
| `screening` | `MCScreening`: 2 batches and 2 single screenings of one application, 2 states of its inputs; 1 evaluation, 2 reviewers, 3 handlings; 1 parse job, 2 processes, 2 corrections, 2 retries; 1 match job, 2 people, 2 proposals; 3 workspaces, 4 jobs, 2 pollers | 1,218,289 | the safety of everything in `Screening` but imports |
| `screening_queue` | `MCScreeningBatches`: 3 items over 2 applications, `Cap` 2, 3 executions, 1 fault | 86,157 | the cap and the progress of the queue |
| `import` | `MCScreening`: 2 uploads of the same file, 2 workers, 1 retry or review, 2 jobs an item, 1 fault | 1,204,746 | one candidate, one parse, true statuses |
| `import_v_rollup` (violation) | `MCScreening`: 1 upload, 1 worker | | a roll-up overwrites a later one |
| `core_record` | `MCCoreRecord`: 1 job, 1 candidate, 1 application, 9 requests, each repeated at will, 2 handlers; 2 drafts over 2 texts, 2 sessions | 955,971 | keys, versions, foreign keys; JD's drafts and their role versions |
| `jd` | `Jd`: 2 people and a migration, 2 texts, 2 revisions, 2 versions; 3 intakes of one text; 2 windows, 1 edit and 1 suggestion, 3 revisions, 2 saves, 1 publication | 823,049 | what is published, and the two ways to lose work |
| `identity` | `MCIdentity`: 1 or 2 e-mails, 2 requests, 2 guessers, limits of 2, 2 or 3 codes; 2 users, 2 requests | 992,432 | codes, limits, administrators and sessions |
| `interview` | `Interview`: 2 callers, 5 revisions of the task's row, 1 change of scores; 2 parse jobs, 2 workers, 4 claims; 2 planners, 1 round, 3 rubrics; 2 keys, 2 meetings, both modes, 1 crash, 1 consent; 1 round's stream, 2 hosts, 2 webhooks, 1 fault | 1,453,917 | offers, briefs, extractions, meetings and streams |

**Why the bounds are enough to be of interest.** Each hazard is a race of two: two queues and
a recruiter, two requests of HR and the candidate, two rounds of a timer, two uploads of a
file, two handlers of a row. Every bound gives both parties, and a second object wherever an
operation quantifies over others (a second decision that could be in force, a second round
that could drag the status, a second application that shares the cap, a second key that takes
the mark of the first). `MaxAttempts` is 3 in scoring, as in the code; it is 2 in the outbox,
which reaches first, retried and final failure. Faults are bounded by 1 or 2, enough for a crash
at any step. In `handoff_safety`, which is about four queues and two decisions, the constraint
`FaultsComeEarly` stops following the second decision once there has been a fault; `handoff_intake`
is about faults.
The proofs of section 5 then drop the bounds.

**Bounds in the modules**: `MaxDecisions`, `MaxRounds`, `MaxSlots`, `MaxRuns`, `MaxInputs`, `MaxJobs`,
`MaxHandlings`, `MaxClaims`, `MaxMatchings`, `MaxEdits`, `MaxRetries`, `MaxProposals`, `MaxProfiles`,
`MaxDrafts`, `MaxRevision`, `MaxVersions`, `MaxTexts`, `MaxSaves`, `MaxOpenings`, `MaxConfirms`, `MaxCodes`, `MaxRow`,
`MaxScores`, `MaxRubrics`, `MaxMeetings`, `MaxConsents`, `MaxRequests`, `MaxCrashes`, `MaxStreamFaults` and
`MaxFaults` bound counters that the code does not; `MaxAttempts` (outbox, scoring, login codes),
`EmailLimit`, `IpLimit`, `MaxActive` and `Cap` are limits of the code, made small.
`Slow` (import) names the processes whose roll-up is split into its reading and its writing; for
the others, whose interleavings are those of the rest of the handler, it is one step.
`import_v_rollup` splits all of them. `Beyond` (`DocumentEditing`) lets behaviours go on after a save
that wrote unseen over another (section 7), of which the properties of `jd` say nothing; it is off
in `jd`, and the theorems hold either way.

**Symmetry** is used for instances, users, handlers and workers, which no action tells apart. In
`screening` and `interview` the processes of all parts are the same set, so that one permutation
acts on all of them. `import` uses it also for the exchange of the two batches together with
their files. No run with a liveness property uses it.

**Deadlock** is not looked for where the bounds let everything be done: all decisions taken
and settled, all submissions scored, all jobs and edits used up, or, in the composed modules, the
one part of a behaviour finished. `written_case` and `core_record` keep the check on.

**Fairness**, and what in the code justifies it:

* Outbox: `setInterval` fires on every instance, so rounds start and finish; a queue goes
  through its batch; a delivery has a deadline, so a claim is settled; time passes, so leases
  lapse and back-offs elapse. Recruiters, destinations and faults are not fair: a destination
  may refuse for ever.
* Scoring: timers fire, a run ends by the AI's deadline with an answer or a failure, and time
  passes. Candidates, reviewers and faults are not fair.
* Receivers (`handoff_intake`): what the outbox assumes of itself, and nothing of the services.
* Screening: some instance recovers and claims (one that stays up); executions begin and end by
  the deadline of the AI; the lease of an item nobody executes lapses. `LeaseLapses` is not fair for
  an item under execution, whose heartbeat renews it.
* All of it is weak fairness: the code promises no more.

**Assumptions named as constants.** `LeaseOutlivesSend`: the lease of an event is longer than
the deadline of its delivery, and clocks agree. `StaleOutlivesRun`: a scoring run ends before
it counts as lost. The defaults of the code give both (10 s of `HANDOFF_DISPATCH_TIMEOUT_MS`
against 60 s of `LEASE_MS`; 60 s of `HIREOS_AI_TIMEOUT_SECONDS` against ten minutes of
`EVALUATION_STALE_MS`) as long as configuration does not raise the deadlines past them and no
process is suspended for the difference; the proofs say which properties need them.

## 5. The proofs

All of them are over the specifications the runs check, for every finite or infinite choice
of the sets and every number within the assumption of its module. Nothing else is assumed, save
where noted. The theorems named after a property of a run state that very definition;
`PROJECT.json` lists the pairs. Every safety property of the runs is stated by a theorem.

A theorem about a module that its `*Proofs` module extends has the form `Spec => []Property`; one
about an instance in a composed module has the form
`X!XAssumption => (X!Spec => []X!Property)`, whose hypothesis is assumed (and evaluated by TLC) in
the composed module. Actions are first reduced to a few kinds of steps on rows
where many of them do the same; lemmas about those and about the operators are cited by name.

The invariants of the older proofs, and the two largest of the newer ones (`ImportInv`,
`PackageInv`), were checked by TLC before they were proved; the others were found by proving.

* **`HandoffOutboxProofs`.** Unconditional: `TypeCorrect`, `OneHandoff`, `DispatchedReceived`,
  `FinalStatesStay`, `HandoffsAreKept`. Under `LeaseOutlivesSend`: `NeverTwoSenders`,
  `WithdrawnStaysSilent` and `OutboxImplementsDelivery`. The first group rests on `SafeInv`: the
  decisions of an application follow one another, each withdrawn before the next, and only one in
  effect has a live event (`Chain`); a withdrawal about to commit read the very event of its decision
  (`WithdrawalRead`); a row is `sending` exactly while it carries a token (`Leases`); an accepted
  request was received (`Taken`). The second group needs `Sole` as well: whoever is sending an
  event holds it, under a lease that has not lapsed. For the refinement every step of
  `HandoffOutbox` is mapped to a step of `HandoffDelivery` or to a stutter: claims, polls, skips and
  back-offs stutter, settling hands over or gives up.
  `IntakeImplementsOutbox`: every statement of a receiver is one step of the outbox or a stutter,
  the last being the receipt. What is needed beside `SafeInv` is `Waiting`: a queue that waits for an
  answer has exactly one request under way, of the event it is sending; the decision of a request was
  made; and only Interview's requests are past their first statement.
* **`WrittenCaseProofs`.** `TypeCorrect`, `CaseImplementsPipeline`, `TaskEndsWithCase`,
  `EndedCaseIsQuiet`, `ReviewStays`, `ReviewInOrder`, `PassedMeansMet`, `CaseEarnsItsStatus`. The
  strengthening says of every call in flight what still holds of its reads when it writes
  (`GoodRequest`): a finalization concerns a round that was answered and stays so, a submission a round
  that was sent and stays so. `HoldOK` says that a case remembers a status exactly while it is on
  hold; `NoneAhead` that no round is ahead of the newest. `EarnedInv` adds, for the status, that there are
  rounds as far as it says (`Earned`), also for the status a held case will resume to, and what each
  call in flight has seen of that (`CallsEarned`): nothing ever takes it away.
* **`SubmissionScoringProofs`.** Unconditional: `TypeCorrect`, `StatusTrue`, `ReviewKept`. Under
  `StaleOutlivesRun`: `NoOverlap` and `NeverRescored`. `Counted`: a run at work has been
  counted and gives its result up only for a finalized round. `Alone`, with the assumption:
  a submission being scored is `running`, not stale, and scored by one slot.
* **`ScreeningProofs`.** `EvaluatedOnce`, `CapIsKept` and `CurrentStaysSound` rest on `BatchInv`: every
  execution holds the token of its item (`Busy`) and is the only one at it (`Alone`), the running
  and unknown items are within the cap and of different applications (`Places`), frozen inputs
  and those of stored evaluations are no newer than the live ones (`Frozen`, `Inputs`), the versions
  of an application have a greatest one (`Numbered`), and an evaluation made for an item is the one
  its completed row names, of its frozen inputs (`Results`). `CurrentIsSound` is a part of it.
  The other theorems are of the other parts. `CandidateCountedOnce` (`CountedInv`: a confirmation that
  found an application still finds it). `ProfilesWereAsked` (`ProfilesInv`: a row carries a token only
  while it is running, and one that has not succeeded was stored less often than asked for) and
  `CorrectionsAreKept` (a correction in hand is of a version there is). `HistoriesGrow` (`ReviewInv`: what
  a request will write continues a history it read). `TurnsAreFair` (`TurnsInv`: everyone served
  while a workspace waited was served after that workspace last was, and is named once).
  `ImportedIsDone` and `ResumesParsedOnce`: `ImportInv` says that whoever is about to queue a parse has just
  made the résumé a candidate's, with no parse queued, and is the only one about to (`ProcessesOK`).
* **`CoreRecordProofs`.** `TypeCorrect`, `EffectsCorrect`, `EventsCorrect`, `HistoryCorrect`,
  `ApplicationsCorrect`. What a handler read may be stale, but not arbitrary (`ReadsOK`): it
  is a version there was, and if it is still the version of the row, its status is the status
  of the row. So the version in the condition of an update stands for the status too, which
  no update compares. Further parts: a key with no answer had no effect (`Unanswered`), candidates
  are never deleted (`CandidatesStay`), a row that was not created has no past
  (`NothingBeforeCreation`). Each action is first reduced to one of four steps on rows
  (`Stays`, `Opens`, `Changes`, `Removes`), about which the invariants are then proved.
  `ConfirmedThere` rests on `DraftsInv`: what a session holds as confirmed is (`HeldTrue`), a stored
  answer to a confirmation names a confirmed version (`AnswersTrue`), and confirmations are never
  taken back.
* **`JdProofs`.** `TextsResolve` (`IntakeInv`: the source row and the job it names come and go
  together, whatever requests have registered besides), `PublishedWasReviewed` and
  `VersionsImplementLog` (`PublishingInv`: what a request or an analysis has read is no newer than the
  document, and of an equal revision is the equal text, unless the document was deleted),
  `PublishedWasShown` and `StoredEditsAreKept` (`EditingInv`: as long as no save was blind, the base of a
  window's draft and what its saves have sent are within its draft, and none runs while it loads).
* **`IdentityProofs`.** `CodesIssuedInTurn` (`CodesInv`: advisory locks are held by whoever is between
  them and their commit, so that what a request counted still holds when it stores),
  `CodesAreSpent` (`Guesses`: attempts counted and submissions yet to count are together fewer than the
  limit and the guessers: the exact price of counting without a lock), `AnAdministratorRemains`
  (`MembersInv`: a request not overlapped by another still finds the other administrator it counted)
  and `EndedAccountsSignedOut`.
* **`InterviewProofs`.** `OffersAreSigned` and `OfferAcceptedOnce` (`PackageInv`: instants are revisions of
  the row and never come back, versions are dated by the revision they were frozen at; so a
  transaction whose snapshot is still the row, or whose version number is still free, commits what
  is true now), `JobsGetOneResult` (`QueueInv`: a token is never used again, and storing takes it away),
  `BriefsAreKept` (`PlanInv`: a request that carries the current version of a round carries its brief),
  `OneMeetingPerKey` (`MeetingsInv`: what the holder of the lock read is what is stored, in s2s mode, in
  which nothing writes the file past the lock) and `MarkersAreServed` (`StreamInv`: only the newest loop
  may give the marker up).

What the theorems do not say: `AdminRemains` and `SameMeeting` have the exceptions their comments
name (requests of administrators that overlap; OAuth mode), because the code needs them (section 7).

## 6. What only TLC checks, and what is not modelled

Liveness under fairness and anything that needs `ENABLED` is out of the prover's reach:
`HandoffSettles`, `ScoringEnds` and `QueueMoves` are checked, not proved. `ImplementsDelivery`,
`ImplementsOutbox` and `ImplementsPipeline` are about safety, and proved. No liveness is stated of
imports, matching or meetings: a handler that dies between its steps does leave work behind
(section 7). `EndedJobsStay` (import) and the type invariants of most newer modules are stated in
their modules and not proved as theorems of their own; a run checked them when they were
written, and the proofs carry the types they need.

Left out of the modelled parts:

* Outbox: the content of a handoff, save which text of the job it carries (`HandoffIntake`).
* Written: validation of scores and answers, the e-mail (its failure changes no row), the
  question bank.
* Screening: the order of the queue and its limits per tick (any order is allowed); other
  workspaces, which share only the instance's limit; evaluations flagged as an issue;
  `screeningStatus` of the application, which a late evaluation may overwrite after a decision.
  The transaction that numbers and stores an evaluation is one step, since the unique index
  on (application, version) refuses the second of two that chose the same number. Matching is of
  one candidate and one job; profiles of one candidate.
* Import: scanning, extraction, scoring of identity; the order in which `FairQueue` picks.
* Core Record: a key used again with another body, which is refused without effect; other
  fields of rows; the dispatch of its outbox, which the code does not have.
* JD: the numbering of jobs, the preview of an intake, refined and outdated suggestions.
* Identity: the daily limit (of the kind of the hourly one), the expiry and single logout of
  sessions, e-mails of invitations.
* Interview: the log of package events, the cards of a rubric, rounds beyond the default ones,
  hosting with a ZAK, the joined stream and its lines.

Not modelled: materials of Core Record; comparisons, library, settings and mail of Screening; the
question bank, task list and mail accounts of Written; scores, debrief, brief, transcripts and meeting
notes of Interview; the copilot of JD and its voice relay. Most of the code lies outside what
a state machine could say: screens, translations, prompts, prototypes and form handling are more
than half of it, and have no state that two parties share. `PROJECT.json` lists every part with the
reason.

## 7. Where the code and what is said of it differ

Shown by a run:

* `import_v_rollup`: a roll-up is read, computed and written without a condition; two of them
  may end in the older one, with every item terminal and the batch `processing`, against the
  comment above `finalizeBatch`.

Stated in the modules, and violated when added to the run named, or to a specification
of the module that states fairness:

* `HandoffOutbox` (`handoff_safety`): `RequeuedIsTakenUp` (an event set back to pending by hand, as the
  dispatcher's comment suggests, has reached `MAX_ATTEMPTS` and is never polled),
  `WithdrawnBeforeReceipt` (a request on the way may arrive after the withdrawal),
  `EveryFailureCounts` (a dispatcher counts on from the attempt it read before its claim),
  `HeldUpOnlyByOwnEvents` (a round waits for both queues).
* `HandoffIntake` (`handoff_intake`): `SecondTimeIsNoOp`, `NewestTextStays` (two deliveries worked on at
  once, although the comment of `ScreeningHandoffService` calls the second a no-op; and an older
  handoff, repeated, puts its text back).
* `WrittenCase` (`written_case`): `SentQuestionFrozen`, `SupplementFollowsFinished`,
  `EndedTakesNoQuestions`, `StatusFollowsNewestRound`, all by stale reads.
* `SubmissionScoring` (`scoring`): `LostRunIsPickedUp` (the claim counted the lost run, so the third
  one stays `running`).
* `ScreeningBatches` (`screening`): `AsksOnlyWhatIsNew` (a batch stores its result from older inputs as
  the highest version, marked stale; only the highest is looked at for reuse).
* `EvaluationReview`, `ResumeProfiles`, `JobMatching` (`screening`): `AnswersAreKept`, `RecordedStands` (of two
  answers at once one is lost, and one may write over a resolution); `ContactStays` (a parse
  writes back the contact it read before the model was called), `ParsedIsShown`, `SucceededIsDone` (a
  second retry by hand undoes the first one's success); `OneProposal`, `ConfirmedStays`, `ScreenedOnce` (proposals
  are replaced by id, whatever they have become).
* `CoreRecord`, `JdDrafts` (`core_record`): `DeletionComesLast` (a deletion names the version it read
  before its transaction), `ClosedJobsTakeNone` (an application is created for a job that
  closes meanwhile); `DraftsCanBeEdited`, `SameText` (idempotency keys made of content answer a text
  sent before from the store), `SnapshotsAreTrue` (a version is written after it was confirmed).
* `JdPublishing` (`jd`): `NewestIsLatest` (publications of two revisions overtake each other),
  `PublishedIsOpen` (a repeated publication finds its key answered and opens nothing).
* `DocumentEditing` (`jd`): `NothingIsDropped` (a first save carries no base revision and overwrites
  what is there; so does one after a tab reopened during a save, which shows the old text as
  revision of the new one), `UnsavedEditsWin` (what is loaded replaces edits made meanwhile, although
  the comment in `DocumentTab` says that local edits win), `RejectedStaysOut` (two decisions at once).
  The first is what `blind` excepts from `StoredEditsStay` and `PublishedAsShown`.
* `LoginCodes`, `Membership` (`identity`): `SupersededSignsNobodyIn` (a code read before a newer one was
  issued), `AnAdminRemains` (two administrators demote each other), `RemovedStaysRemoved` (a first
  sign-in makes active a member removed meanwhile).
* `InterviewPackage`, `InterviewPlan`, `ParseQueue` (`interview`): `OfferIsWhatWasSigned` (scores changed after
  the sign-offs are in the version handed over), `AcknowledgedIsRecommended`; `PlanFreezesRounds`,
  `RubricIsFrozen` (even without overlapping requests), `ScheduledIsPlanned`; `ThreeAttempts` (claims of a
  process that died are counted and not compared).
* `HostMeetings`, `Streams` (`interview`): `NeverRepeated` (the account has one mark for all keys), and in OAuth
  mode `SameMeeting` itself (the refresh for RTMS writes back the whole file past the lock);
  `SupersededIsQuiet`, `ConnectingIsServed` (an older loop may mark the round failed).

Seen while modelling, and permitted by the models: an item of a batch whose outcome is
unknown keeps its place in the cap, since reconciliation looks for a result that the failed
transaction never stored. A cancelled import item may be completed by a worker that had
checked before. A candidate job run again after its candidate was created meets the primary
key and ends as failed, with the candidate there. Two uploads of the same new file at once
leave one of them failed without a material, so that it cannot be retried. A repeated upload
request does not resume a batch that stopped half-way, and a retry that dies between its
update and its job leaves an item nobody works on. A repeated deletion of a job is answered
with NOT_FOUND, not with the first answer. Interview: `packageNeedsReview` is set
(`jobs.service.ts:62`, `rubric.service.ts:167`) and never cleared, though the package page asks to complete
the review; the attachment of a JD may change the text of a published version. Screening: a manual
recommendation has criteria version 0 and can never be confirmed; taking on a verification item
reopens a resolved one; an upload that loses the race for its material is accepted without a
résumé. Written: `materializeAiScoresIfReady` may stop half-way. JD: the fixed key of the copilot's
confirmation makes a repetition after a partial failure conflict once a field was edited.

## 8. Plan

Done: every subsystem has its concurrent parts modelled, every property of a run has a mistake
in the code's definitions that it notices, and every safety property of a run is proved.

Next, in this order:

1. Theorems for what is stated and only carried along: the type invariants of the newer
   modules, `EndedJobsStay`, `DraftsInv`'s snapshots.
2. The seams that are one step on each side: imports to profiles, confirmations to single
   screenings, submissions to scoring, as refinements like that of `HandoffIntake`.
3. Meeting notes and the copilot's conversation, if they come to keep state that others write.
