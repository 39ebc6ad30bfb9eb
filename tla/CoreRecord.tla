------------------------------ MODULE CoreRecord ------------------------------
(***************************************************************************)
(* The master data of Core Record: jobs, candidates and applications       *)
(* (JobsService, CandidatesService, ApplicationsService and records.ts).   *)
(*                                                                         *)
(* The other subsystems create, change and delete records by requests that *)
(* carry an idempotency key and may be sent again at any time, also while  *)
(* they are still being answered.  A handler reads the record, opens a     *)
(* transaction, looks its key up, and writes the row together with the     *)
(* status history, an audit and an outbox entry and its key.  Transactions *)
(* run at PostgreSQL's read committed level: what one reads before its     *)
(* first write may be stale, and conflicting writes are decided by the     *)
(* version in the update's condition, by unique indices and foreign keys.  *)
(***************************************************************************)
EXTENDS Naturals, Sequences

CONSTANTS
    Jobs, Candidates,
    Requests,      \* [op, rec, to, expected]: each with an idempotency key of its own
    Statuses,
    Sessions,      \* handlers running at a time
    NoRequest

Applications == Jobs \X Candidates
Records == Jobs \cup Candidates \cup Applications
RequestType == [op: {"create", "patch", "delete"}, rec: Records, to: Statuses, expected: Nat]

ASSUME RecordAssumption ==
    /\ Requests \subseteq RequestType /\ NoRequest \notin Requests
    /\ Jobs \cap Candidates = {} /\ (Jobs \cup Candidates) \cap Applications = {}
    \* Only jobs can be deleted (Candidate and Application have no such endpoint).
    /\ \A r \in Requests: r.op = "delete" => r.rec \in Jobs
    /\ {"none", "deleted"} \cap Statuses = {}

VARIABLES
    status,      \* Records -> status of the row, or none, or deleted
    version,     \* Records -> version
    history,     \* Records -> status history: <<from, to>> entries
    events,      \* Records -> aggregateVersions of its outbox entries
    answer,      \* Requests -> version in the response stored under the key, 0 if none
    effects,     \* Requests -> times it was carried out
    pc, req,     \* Sessions -> where the handler is, and its request
    saw          \* Sessions -> the version it read, and whether a write is due

rows == <<status, version, history, events>>
vars == <<rows, answer, effects, pc, req, saw>>

Live(x) == status[x] \notin {"none", "deleted"}
JobOf(a) == a[1]
CandidateOf(a) == a[2]
HasApplications(j) == \E c \in Candidates: status[<<j, c>>] # "none"

Init ==
    /\ status = [x \in Records |-> "none"]
    /\ version = [x \in Records |-> 0]
    /\ history = [x \in Records |-> <<>>]
    /\ events = [x \in Records |-> <<>>]
    /\ answer = [r \in Requests |-> 0]
    /\ effects = [r \in Requests |-> 0]
    /\ pc = [s \in Sessions |-> "idle"]
    /\ req = [s \in Sessions |-> NoRequest]
    /\ saw = [s \in Sessions |-> [status |-> "none", version |-> 0]]

Row(x) == [status |-> status[x], version |-> version[x]]

Goes(s, step, r, row) ==
    /\ pc' = [pc EXCEPT ![s] = step]
    /\ req' = [req EXCEPT ![s] = r]
    /\ saw' = [saw EXCEPT ![s] = row]
\* The handler answers, or fails; its transaction is over.
Answers(s) == Goes(s, "idle", NoRequest, [status |-> "none", version |-> 0])

-----------------------------------------------------------------------------
(* Before the transaction.                                                 *)

\* patch and delete read the row; a job with applications is not deleted, and
\* an application that has the status already is answered at once.
Look(s, r) ==
    /\ pc[s] = "idle"
    /\ r.op # "create" => Live(r.rec)
    /\ r.op = "delete" => ~HasApplications(r.rec)
    /\ r.op = "patch" /\ r.rec \in Applications => status[r.rec] # r.to
    /\ Goes(s, "looked", r, Row(r.rec))
    /\ UNCHANGED <<rows, answer, effects>>

-----------------------------------------------------------------------------
(* The first reads of the transaction.                                     *)

\* findIdempotent: the stored response is given again.
Repeat(s) ==
    /\ pc[s] = "looked" /\ answer[req[s]] > 0
    /\ Answers(s)
    /\ UNCHANGED <<rows, answer, effects>>

\* assertVersion compares with the row read before.
VersionAsserted(s) == req[s].expected \in {0, saw[s].version}

\* A new application needs its candidate and an open job, as they are read.
CanApply(a) ==
    /\ Live(CandidateOf(a))
    /\ Live(JobOf(a)) /\ status[JobOf(a)] \notin {"closed", "archived"}

Begin(s) ==
    LET r == req[s] IN
    /\ pc[s] = "looked" /\ answer[r] = 0
    /\ r.op = "patch" => VersionAsserted(s)
    /\ r.op = "create" /\ r.rec \in Applications => CanApply(r.rec)
    /\ Goes(s, "open", r, IF r.op = "create" THEN Row(r.rec) ELSE saw[s])
    /\ UNCHANGED <<rows, answer, effects>>

Refuse(s) ==
    LET r == req[s] IN
    /\ pc[s] = "looked" /\ answer[r] = 0
    /\ \/ r.op = "patch" /\ ~VersionAsserted(s)
       \/ r.op = "create" /\ r.rec \in Applications /\ ~CanApply(r.rec)
    /\ Answers(s)
    /\ UNCHANGED <<rows, answer, effects>>

-----------------------------------------------------------------------------
(* The writes, committed at once.                                          *)

\* Writing a row with its history and its outbox entry.
Write(x, to, v, entry) ==
    /\ status' = [status EXCEPT ![x] = to]
    /\ version' = [version EXCEPT ![x] = v]
    /\ history' = [history EXCEPT ![x] = history[x] \o entry]
    /\ events' = [events EXCEPT ![x] = Append(events[x], v)]

\* storeIdempotency
Stores(r, v) ==
    /\ answer' = [answer EXCEPT ![r] = v]
    /\ effects' = [effects EXCEPT ![r] = effects[r] + 1]

\* Mutant: nothing makes the key unique.
KeyUnlimited(r) == TRUE

\* The unique index on the key: a second transaction with it fails as a whole.
KeyIsFree(r) == answer[r] = 0

\* Mutant: versions begin at 0.
CreateUnversioned(s) ==
    LET r == req[s] IN
    /\ pc[s] = "open" /\ r.op = "create" /\ r.rec \notin Applications
    /\ KeyIsFree(r)
    /\ IF status[r.rec] = "none" THEN Write(r.rec, r.to, 0, <<>>) ELSE UNCHANGED rows
    /\ Stores(r, 1)
    /\ Answers(s)

\* Each attempt makes a row with a new id; an attempt that would repeat a
\* creation is told from the first by `effects`.
Create(s) ==
    LET r == req[s] IN
    /\ pc[s] = "open" /\ r.op = "create" /\ r.rec \notin Applications
    /\ KeyIsFree(r)
    /\ IF status[r.rec] = "none" THEN Write(r.rec, r.to, 1, <<>>) ELSE UNCHANGED rows
    /\ Stores(r, 1)
    /\ Answers(s)

\* The application there was is the answer ...
CreateFound(s) ==
    LET r == req[s] IN
    /\ pc[s] = "open" /\ r.op = "create" /\ r.rec \in Applications
    /\ saw[s].status # "none" /\ KeyIsFree(r)
    /\ answer' = [answer EXCEPT ![r] = saw[s].version]
    /\ Answers(s)
    /\ UNCHANGED <<rows, effects>>

\* ... or a new one is written: unique per candidate and job, which exist.
CreateApplication(s) ==
    LET r == req[s] IN
    /\ pc[s] = "open" /\ r.op = "create" /\ r.rec \in Applications
    /\ saw[s].status = "none" /\ KeyIsFree(r)
    /\ status[r.rec] = "none" /\ Live(JobOf(r.rec))
    /\ Write(r.rec, r.to, 1, <<<<"none", r.to>>>>)
    /\ Stores(r, 1)
    /\ Answers(s)

\* The row is updated if it still has the version read; a history entry says
\* from which status.
Patch(s) ==
    LET r == req[s]
        x == r.rec
    IN
    /\ pc[s] = "open" /\ r.op = "patch"
    /\ KeyIsFree(r) /\ Live(x) /\ version[x] = saw[s].version
    /\ Write(x, r.to, saw[s].version + 1,
             IF r.to = saw[s].status THEN <<>> ELSE <<<<saw[s].status, r.to>>>>)
    /\ Stores(r, saw[s].version + 1)
    /\ Answers(s)

\* Mutant: the applications counted before are relied on.
DeletableAsCounted(j) == Live(j)

\* An application's job is a foreign key that restricts deletion.
Deletable(j) == Live(j) /\ ~HasApplications(j)

\* The job is deleted whatever its version, its status history with it; the
\* outbox entry names the version read.
Delete(s) ==
    LET r == req[s]
        j == r.rec
    IN
    /\ pc[s] = "open" /\ r.op = "delete"
    /\ KeyIsFree(r) /\ Deletable(j)
    /\ status' = [status EXCEPT ![j] = "deleted"]
    /\ history' = [history EXCEPT ![j] = <<>>]
    /\ events' = [events EXCEPT ![j] = Append(events[j], saw[s].version)]
    /\ Stores(r, saw[s].version)
    /\ Answers(s)
    /\ UNCHANGED version

\* A condition, a unique index or a foreign key fails, the database does, or
\* the process ends: the transaction leaves nothing behind.
RollBack(s) ==
    /\ pc[s] # "idle"
    /\ Answers(s)
    /\ UNCHANGED <<rows, answer, effects>>

Next ==
    \E s \in Sessions:
        \/ \E r \in Requests: Look(s, r)
        \/ Repeat(s)
        \/ Begin(s)
        \/ Refuse(s)
        \/ Create(s)
        \/ CreateFound(s)
        \/ CreateApplication(s)
        \/ Patch(s)
        \/ Delete(s)
        \/ RollBack(s)

Spec == Init /\ [][Next]_vars
-----------------------------------------------------------------------------
TypeOK ==
    /\ status \in [Records -> Statuses \cup {"none", "deleted"}]
    /\ version \in [Records -> Nat]
    /\ \A x \in Records: status[x] = "none" <=> version[x] = 0
    /\ history \in [Records -> Seq((Statuses \cup {"none"}) \X Statuses)]
    /\ events \in [Records -> Seq(Nat)]
    /\ answer \in [Requests -> Nat]
    /\ effects \in [Requests -> Nat]
    /\ pc \in [Sessions -> {"idle", "looked", "open"}]
    /\ req \in [Sessions -> Requests \cup {NoRequest}]
    /\ \A s \in Sessions: pc[s] # "idle" => req[s] \in Requests
    /\ saw \in [Sessions -> [status: Statuses \cup {"none", "deleted"}, version: Nat]]

\* However often and however concurrently a request is sent, it is carried out
\* at most once, and what it was answered is stored (README.md: "required
\* Idempotency-Key for create and update mutations").
OneEffectPerKey == \A r \in Requests: effects[r] <= 1 /\ (effects[r] = 1 => answer[r] > 0)

\* Consumers can rebuild a record from the outbox: the entries of a record
\* that was not deleted are its versions, each once and in order.
OneEventPerVersion ==
    \A x \in Records:
        status[x] # "deleted" => events[x] = [k \in 1..version[x] |-> k]

\* The status history is a chain from one status to the next that ends at the
\* record's status: nobody's change is lost between two entries.
HistoryIsAChain ==
    \A x \in Records:
        /\ \A k \in 2..Len(history[x]): history[x][k][1] = history[x][k - 1][2]
        /\ Live(x) /\ history[x] # <<>> => history[x][Len(history[x])][2] = status[x]

\* An application's candidate and job are there, however a deletion and an
\* application overtake each other.
ApplicationsKeepTheirJob ==
    \A a \in Applications: status[a] # "none" => Live(JobOf(a)) /\ Live(CandidateOf(a))

\* The last entry of a deleted job is its last version.
DeletionComesLast ==
    \A j \in Jobs: status[j] = "deleted" => events[j][Len(events[j])] = version[j]

\* "JOB_NOT_OPEN": no application is made for a closed job.
ClosedJobsTakeNone ==
    [][\A a \in Applications: status[a] = "none" /\ status'[a] # "none" =>
          status[JobOf(a)] \notin {"closed", "archived"}]_vars
=============================================================================
