--------------------------------- MODULE JdIntake ---------------------------------
(***************************************************************************)
(* Jobs started from a JD text pasted in another subsystem                 *)
(* (IntakeService.createJob; CopilotService.confirmDraft is the same       *)
(* without the text's source).                                             *)
(*                                                                         *)
(* A request registers the job in Core Record, writes its draft, and last  *)
(* the source: the row by which the same text finds the job it made.  Its  *)
(* calls carry keys derived from its own, so that a request repeated after *)
(* a failure goes on with the same job.  Two requests with the same text   *)
(* both register a job, and the unique index on the text decides.          *)
(***************************************************************************)
EXTENDS FiniteSets

CONSTANTS
    Requests,     \* by their idempotency key, also the jobs's that is made for it
    Texts,        \* JD texts up to whitespace
    TextOf,       \* Requests -> Texts
    NoRequest

IntakeAssumption == NoRequest \notin Requests /\ TextOf \in [Requests -> Texts]

VARIABLES
    jobs,        \* Requests -> the job in Core Record: none, live or deleted
    drafted,     \* requests whose job has its draft
    source,      \* Texts -> the request whose job the JdSource row names, or NoRequest
    stage, found,   \* Requests -> where it is, and the source it found
    told         \* Requests -> the job it was last answered with (history)

vars == <<jobs, drafted, source, stage, found, told>>

Init ==
    /\ jobs = [r \in Requests |-> "none"]
    /\ drafted = {}
    /\ source = [t \in Texts |-> NoRequest]
    /\ stage = [r \in Requests |-> "idle"]
    /\ found = [r \in Requests |-> NoRequest]
    /\ told = [r \in Requests |-> NoRequest]

At(r, step) == stage[r] = step
Goes(r, step) == stage' = [stage EXCEPT ![r] = step]
Forgets(r) == found' = [found EXCEPT ![r] = NoRequest]

\* findExisting, at the beginning and again for a loser of the index.
FindSource(r) ==
    /\ stage[r] \in {"idle", "lost"}
    /\ found' = [found EXCEPT ![r] = source[TextOf[r]]]
    /\ \/ source[TextOf[r]] # NoRequest /\ Goes(r, IF At(r, "idle") THEN "found" ELSE "winner")
       \/ source[TextOf[r]] = NoRequest /\ Goes(r, IF At(r, "idle") THEN "reading" ELSE "idle")
    /\ UNCHANGED <<jobs, drafted, source, told>>

AnswerDuplicate(r) ==
    /\ stage[r] \in {"found", "winner"} /\ jobs[found[r]] = "live"
    /\ told' = [told EXCEPT ![r] = found[r]]
    /\ Goes(r, "idle") /\ Forgets(r)
    /\ UNCHANGED <<jobs, drafted, source>>

\* Mutant: the stale source is forgotten by its text, whichever row that is now.
ForgetText(r) ==
    /\ stage[r] \in {"found", "winner"} /\ jobs[found[r]] = "deleted"
    /\ source' = [source EXCEPT ![TextOf[r]] = NoRequest]
    /\ Goes(r, IF At(r, "found") THEN "reading" ELSE "idle") /\ Forgets(r)
    /\ UNCHANGED <<jobs, drafted, told>>

\* The job was deleted since: its source row is deleted by its id.  A row that
\* is gone already fails the request.
ForgetSource(r) ==
    /\ stage[r] \in {"found", "winner"} /\ jobs[found[r]] = "deleted"
    /\ source[TextOf[r]] = found[r]
    /\ source' = [source EXCEPT ![TextOf[r]] = NoRequest]
    /\ Goes(r, IF At(r, "found") THEN "reading" ELSE "idle") /\ Forgets(r)
    /\ UNCHANGED <<jobs, drafted, told>>

\* The AI has read the text.  Core Record answers a key again with the job it
\* made for it, whatever has become of it.
CreateJob(r) ==
    /\ At(r, "reading")
    /\ jobs' = IF jobs[r] = "none" THEN [jobs EXCEPT ![r] = "live"] ELSE jobs
    /\ Goes(r, "registered")
    /\ UNCHANGED <<drafted, source, found, told>>

\* A draft needs its job in Core Record.
CreateDraft(r) ==
    /\ At(r, "registered") /\ jobs[r] = "live"
    /\ drafted' = drafted \cup {r}
    /\ Goes(r, "drafted")
    /\ UNCHANGED <<jobs, source, found, told>>

\* Mutant: the source is written over the one that won.
OverwriteSource(r) ==
    /\ At(r, "drafted")
    /\ source' = [source EXCEPT ![TextOf[r]] = r]
    /\ told' = [told EXCEPT ![r] = r]
    /\ Goes(r, "idle")
    /\ UNCHANGED <<jobs, drafted, found>>

CreateSource(r) ==
    /\ At(r, "drafted") /\ source[TextOf[r]] = NoRequest
    /\ source' = [source EXCEPT ![TextOf[r]] = r]
    /\ told' = [told EXCEPT ![r] = r]
    /\ Goes(r, "idle")
    /\ UNCHANGED <<jobs, drafted, found>>

\* The unique index on the text: the winner is looked up, and its job reported.
LoseSource(r) ==
    /\ At(r, "drafted") /\ source[TextOf[r]] # NoRequest
    /\ Goes(r, "lost")
    /\ UNCHANGED <<jobs, drafted, source, found, told>>

\* An error, the end of the process, a text without a job; the request may be repeated.
Fail(r) ==
    /\ ~At(r, "idle")
    /\ Goes(r, "idle") /\ Forgets(r)
    /\ UNCHANGED <<jobs, drafted, source, told>>

DeleteJob(r) ==
    /\ jobs[r] = "live"
    /\ jobs' = [jobs EXCEPT ![r] = "deleted"]
    /\ UNCHANGED <<drafted, source, stage, found, told>>

Next ==
    \E r \in Requests:
        \/ FindSource(r)
        \/ AnswerDuplicate(r)
        \/ ForgetSource(r)
        \/ CreateJob(r)
        \/ CreateDraft(r)
        \/ CreateSource(r)
        \/ LoseSource(r)
        \/ Fail(r)
        \/ DeleteJob(r)

Spec == Init /\ [][Next]_vars
-----------------------------------------------------------------------------
TypeOK ==
    /\ jobs \in [Requests -> {"none", "live", "deleted"}]
    /\ drafted \subseteq Requests
    /\ source \in [Texts -> Requests \cup {NoRequest}]
    /\ stage \in [Requests -> {"idle", "found", "reading", "registered", "drafted", "lost", "winner"}]
    /\ found \in [Requests -> Requests \cup {NoRequest}]
    /\ told \in [Requests -> Requests \cup {NoRequest}]

\* "The same JD text always resolves to the job it first created": whichever
\* requests race, repeat or find their job deleted, of the live jobs that a text
\* was answered with there is one, and it has its draft.
OneJobPerText ==
    \A r, s \in Requests:
        /\ told[r] # NoRequest => told[r] \in drafted
        /\ TextOf[r] = TextOf[s] /\ told[r] # NoRequest /\ told[s] # NoRequest
              /\ jobs[told[r]] = "live" /\ jobs[told[s]] = "live"
           => told[r] = told[s]
=============================================================================
