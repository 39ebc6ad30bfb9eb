----------------------------- MODULE HandoffIntake -----------------------------
(***************************************************************************)
(* The outbox of HandoffOutbox together with the services that take its    *)
(* handoffs, whose receipt that module has as one step: Interview's        *)
(* ScreeningHandoffService works through a sequence of statements outside  *)
(* any transaction, so that it may stop half-way and two deliveries of a   *)
(* handoff may be worked on at once; Written's is one transaction.         *)
(*                                                                         *)
(* A service goes on with a request whose sender has given up: such a      *)
(* request is one of the late ones of HandoffOutbox.                       *)
(***************************************************************************)
EXTENDS HandoffOutbox

CONSTANTS
    Texts,      \* wordings of the job description
    jdText,     \* Decisions -> the wording in the payload of its event
    NoText      \* that of a job Interview does not have

VARIABLES
    job,        \* Applications -> its Job row in Interview; version 0: no row
    resume,     \* Applications -> Interview's rows of its resume: none, material, linked
    task,       \* Applications -> its InterviewTask: none, bare, with_resume
    cases,      \* applications Written has a case and a task for
    requests    \* the requests under way, each with the queue that waits for it

rows == <<job, resume, task, cases>>
intake == <<rows, requests>>
composed == <<vars, intake>>

ASSUME IntakeAssumption ==
    /\ jdText \in [Decisions -> Texts]
    /\ NoText \notin Texts

Steps == {"sent", "read", "resume", "download", "link", "task"}
Requests == [event: Decisions, for: Workers \cup {NoWorker},
             step: Steps, saw: Texts \cup {NoText}, found: BOOLEAN]

IntakeInit ==
    /\ Init
    /\ job = [a \in Applications |-> [version |-> 0, text |-> NoText]]
    /\ resume = [a \in Applications |-> "none"]
    /\ task = [a \in Applications |-> "none"]
    /\ cases = {}
    /\ requests = {}

-----------------------------------------------------------------------------
(* ScreeningHandoffService.ingest of Interview, statement by statement, for *)
(* a request h.                                                            *)

Of(h) == h.event[1]

\* The service is through with a statement.  Two requests nobody waits for that
\* are equally far are one.
Goes(h, g) ==
    /\ requests' = (requests \ {h}) \cup {g}
    /\ UNCHANGED vars

\* The job as it is before the upsert, by which jdChanged is judged ...
ReadJob(h) ==
    /\ h.step = "sent" /\ goesTo[h.event] = "interview"
    /\ Goes(h, [h EXCEPT !.step = "read", !.saw = job[Of(h)].text])
    /\ UNCHANGED rows

\* ... and the upsert, which starts a version of the text if it was judged to
\* have changed.  (The candidate is upserted next, in a row of its own.)
UpsertJob(h) ==
    /\ h.step = "read"
    /\ LET sent == jdText[h.event]
           old == job[Of(h)]
       IN  job' = [job EXCEPT ![Of(h)] =
             IF old.version = 0 \/ h.saw # sent THEN [version |-> old.version + 1, text |-> sent]
             ELSE old]
    /\ Goes(h, [h EXCEPT !.step = "resume"])
    /\ UNCHANGED <<resume, task, cases>>

\* fromCoreMaterial: a material that is there is used as it is.
FindMaterial(h) ==
    /\ h.step = "resume"
    /\ Goes(h, [h EXCEPT !.step = IF resume[Of(h)] = "none" THEN "download" ELSE "link"])
    /\ UNCHANGED rows

\* Otherwise the file is fetched and stored ...
StoreMaterial(h) ==
    /\ h.step = "download" /\ resume[Of(h)] = "none"
    /\ resume' = [resume EXCEPT ![Of(h)] = "material"]
    /\ Goes(h, [h EXCEPT !.step = "link"])
    /\ UNCHANGED <<job, task, cases>>

\* ... unless Core Record fails to serve it, or another request has stored it
\* meanwhile (coreMaterialId is unique): the task is made without it.
MissMaterial(h) ==
    /\ h.step = "download"
    /\ Goes(h, [h EXCEPT !.step = "task"])
    /\ UNCHANGED rows

\* The Resume row, upserted by its material.
LinkResume(h) ==
    /\ h.step = "link"
    /\ resume' = [resume EXCEPT ![Of(h)] = "linked"]
    /\ Goes(h, [h EXCEPT !.step = "task", !.found = TRUE])
    /\ UNCHANGED <<job, task, cases>>

\* The InterviewTask is upserted last; a resume it has is not taken from it.
UpsertTask(h) ==
    /\ h.step = "task"
    /\ task' = [task EXCEPT ![Of(h)] = IF h.found \/ @ = "with_resume" THEN "with_resume" ELSE "bare"]
    /\ UNCHANGED <<job, resume, cases>>

\* Written's ingest: candidate, job, case and task in one transaction, which
\* leaves alone a case and a task that are there.
UpsertCase(h) ==
    /\ h.step = "sent" /\ goesTo[h.event] = "written"
    /\ cases' = cases \cup {Of(h)}
    /\ UNCHANGED <<job, resume, task>>

\* Mutant: Interview answers once the job and the candidate are there, and
\* leaves the rest to a later step.
TakesEarly(h) ==
    \/ h.step = "resume" /\ UNCHANGED rows
    \/ UpsertTask(h) \/ UpsertCase(h)

Takes(h) == UpsertTask(h) \/ UpsertCase(h)

\* The destination of e has the candidate to work on.
IsThere(e) ==
    \/ goesTo[e] = "interview" /\ task[e[1]] # "none"
    \/ goesTo[e] = "written" /\ e[1] \in cases

\* The requests that nobody waits for.
Stray(of) == {h.event: h \in {g \in of: g.for = NoWorker}}

\* The last statement, and the answer if a queue waits for it.
Finish(h) ==
    /\ Takes(h)
    /\ requests' = requests \ {h}
    /\ request' = IF h.for = NoWorker THEN request ELSE [request EXCEPT ![h.for] = "accepted"]
    /\ late' = Stray(requests')
    /\ UNCHANGED <<events, pc, batch, cur, withdrawal, posted, faults>>
    /\ received' = received \cup {e \in {h.event}: IsThere(e)'}

\* Interview or Written refuses or fails, at whatever statement, and nobody
\* hears of it if nobody waits; a stray request may also be lost.
Fail(h) ==
    /\ requests' = requests \ {h}
    /\ late' = Stray(requests')
    /\ request' = IF h.for = NoWorker THEN request ELSE [request EXCEPT ![h.for] = "refused"]
    /\ UNCHANGED <<events, pc, batch, cur, received, withdrawal, posted, faults, rows>>

-----------------------------------------------------------------------------
(* The steps of the outbox, as far as they concern a request.              *)

PostOut(w) ==
    /\ Post(w)
    /\ requests' = requests \cup
         {[event |-> cur[w].event, for |-> w, step |-> "sent", saw |-> NoText, found |-> FALSE]}
    /\ UNCHANGED rows

\* The queues in ws wait no longer.
Leave(ws) ==
    /\ requests' = {[h EXCEPT !.for = IF @ \in ws THEN NoWorker ELSE @]: h \in requests}
    /\ UNCHANGED rows

GiveUp(w) == (SettleFailed(w) \/ SettleError(w)) /\ Leave({w})

CrashAway(i) == Crash(i) /\ Leave({w \in Workers: w[1] = i})

\* The others (no operator requeues what has failed).
Elsewhere ==
    /\ \/ \E d \in Decisions, t \in Destinations \cup {"nobody"}: Record(d, t)
       \/ \E u \in Users, d \in Decisions: WithdrawReadDecision(u, d)
       \/ \E u \in Users: WithdrawReadHandoffs(u) \/ WithdrawCommit(u)
       \/ \E i \in Instances: StartRound(i) \/ FinishRound(i)
       \/ \E w \in Workers: \E b \in batch[w]: Claim(w, b) \/ Skip(w, b)
       \/ \E w \in Workers: SettleDispatched(w)
       \/ \E e \in Decisions: BackoffElapses(e) \/ LeaseLapses(e)
    /\ UNCHANGED intake

IntakeNext ==
    \/ \E w \in Workers: PostOut(w)
    \/ \E w \in Workers: GiveUp(w)
    \/ \E i \in Instances: CrashAway(i)
    \/ Elsewhere
    \/ \E h \in requests:
         \/ ReadJob(h)
         \/ UpsertJob(h)
         \/ FindMaterial(h)
         \/ StoreMaterial(h)
         \/ MissMaterial(h)
         \/ LinkResume(h)
         \/ Finish(h)
         \/ Fail(h)

IntakeSpec == IntakeInit /\ [][IntakeNext]_composed

\* The dispatchers and the clocks are as fair as they are without the services,
\* which are not: a request may be worked on for ever.
FairIntakeSpec == IntakeSpec /\ Fairness

-----------------------------------------------------------------------------
(* Properties.                                                             *)

IntakeTypeOK ==
    /\ TypeOK
    /\ job \in [Applications -> [version: Nat, text: Texts \cup {NoText}]]
    /\ resume \in [Applications -> {"none", "material", "linked"}]
    /\ task \in [Applications -> {"none", "bare", "with_resume"}]
    /\ cases \in SUBSET Applications
    /\ requests \in SUBSET Requests
    /\ late = Stray(requests)
    /\ \A w \in Workers: request[w] = "sent" <=> \E h \in requests: h.for = w

\* The receivers keep what the outbox counts on, that a handoff is taken in one
\* step: although Interview's is a sequence of statements that may stop
\* anywhere, be repeated and overlap with itself, a handoff is answered for when
\* its candidate is there to be worked on, and by nothing less.
ImplementsOutbox == Spec

\* A task that was given a resume keeps it, whatever is delivered again.
ResumeStays ==
    [][\A a \in Applications: task[a] = "with_resume" => task'[a] = "with_resume"]_composed

-----------------------------------------------------------------------------
(* What comments say of the program, and the code does not do.             *)

\* "a retried or duplicated delivery of the same event is a no-op the second
\* time": a description that Interview has is not counted as a new version of it.
SecondTimeIsNoOp ==
    [][\A a \in Applications: job'[a].version > job[a].version => job'[a].text # job[a].text]_composed

\* A duplicate does not bring back what a later handoff replaced.
NewestTextStays ==
    [][\A a \in Applications: job'[a].text # job[a].text =>
         \E d \in Decisions: d[1] = a /\ jdText[d] = job'[a].text /\
             \A e \in Decisions: e[1] = a /\ e \in received => e[2] <= d[2]]_composed
=============================================================================
