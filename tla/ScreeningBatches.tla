---------------------------- MODULE ScreeningBatches ----------------------------
(***************************************************************************)
(* Screening a job's applications in batches, and one by one               *)
(* (ScreeningBatchesService and ScreeningService.createEvaluation).        *)
(*                                                                         *)
(* A batch freezes the inputs of its applications and queues an item for   *)
(* each.  Every instance polls: it marks lapsed items unknown, claims      *)
(* queued ones up to a cap per workspace and evaluates them with the AI    *)
(* under a lease.  Meanwhile recruiters screen single applications from    *)
(* their live inputs, and the inputs change.  An evaluation is a numbered  *)
(* version of its application; one of them may be `current`.               *)
(*                                                                         *)
(* One workspace is modelled: the queues of two workspaces share nothing   *)
(* but the limit on active executions.  Inputs are numbered as they change.*)
(***************************************************************************)
EXTENDS Naturals, FiniteSets, FiniteSetsExt

CONSTANTS
    Batches,       \* batch requests, each with its idempotency key
    Applications,
    Members,       \* which applications each batch asks for
    Instances,     \* Screening backend instances
    MaxActive,     \* executions an instance has at most under way (8)
    Cap,           \* items of a workspace at most running or unknown (2)
    RetryKeys,     \* idempotency keys of retries
    NoItem,        \* what a free execution slot works on
    MaxRuns,       \* bound: single screenings of an application
    MaxInputs,     \* bound: states of an application's inputs
    MaxFaults      \* bound: crashes and database errors

Items == Members
Slots == Instances \X (1..MaxActive)
Desks == Instances \X Applications      \* singleFlight: one run per instance and application
\* Bound: versions of an application, one more for each batch and single screening.
MaxVersions == MaxRuns + Cardinality(Batches)
Evaluations == Applications \X (1..MaxVersions)
MaxTokens == 1 + Cardinality(RetryKeys)

ASSUME BatchAssumption ==
    /\ Members \subseteq Batches \X Applications
    /\ IsFiniteSet(Batches) /\ IsFiniteSet(RetryKeys)
    /\ MaxActive \in Nat /\ Cap \in Nat \ {0}
    /\ MaxRuns \in Nat /\ MaxInputs \in Nat \ {0} /\ MaxFaults \in Nat
    /\ NoItem \notin Items

VARIABLES
    live,        \* Applications -> current state of the inputs
    cancelled,   \* batches with cancelledAt
    status,      \* Items -> status of the row ("absent" before the batch starts)
    snapshot,    \* Items -> the frozen inputs
    token,       \* Items -> leaseToken: the number of the claim, 0 for null
    attempt,     \* Items -> attempt
    lapsed,      \* items whose leaseUntil has passed
    keys,        \* Items -> retryKeys
    result,      \* Items -> version of evaluationId, 0 for null
    input,       \* Evaluations -> the inputs evaluated, 0 if there is none
    madeBy,      \* Evaluations -> batchItemId of its manifest
    fresh,       \* evaluations that are `current`
    pc,          \* Slots -> where the execution is
    work,        \* Slots -> its item
    held,        \* Slots -> its lease token
    desk,        \* Desks -> where the single screening is
    seen,        \* Desks -> the inputs it loaded
    next,        \* Desks -> the version it will write
    runs,        \* Applications -> single screenings started
    faults       \* crashes and database errors so far

rows == <<cancelled, status, snapshot, token, attempt, lapsed, keys, result>>
store == <<input, madeBy, fresh>>
slots == <<pc, work, held>>
desks == <<desk, seen, next, runs>>
vars == <<live, rows, store, slots, desks, faults>>

Init ==
    /\ live = [a \in Applications |-> 1]
    /\ cancelled = {}
    /\ status = [i \in Items |-> "absent"]
    /\ snapshot = [i \in Items |-> 0]
    /\ token = [i \in Items |-> 0]
    /\ attempt = [i \in Items |-> 0]
    /\ lapsed = {}
    /\ keys = [i \in Items |-> {}]
    /\ result = [i \in Items |-> 0]
    /\ input = [e \in Evaluations |-> 0]
    /\ madeBy = [e \in Evaluations |-> NoItem]
    /\ fresh = {}
    /\ pc = [w \in Slots |-> "free"]
    /\ work = [w \in Slots |-> NoItem]
    /\ held = [w \in Slots |-> 0]
    /\ desk = [d \in Desks |-> "free"]
    /\ seen = [d \in Desks |-> 0]
    /\ next = [d \in Desks |-> 0]
    /\ runs = [a \in Applications |-> 0]
    /\ faults = 0

\* Profile, criteria, resume or job title change.
ChangeInputs(a) ==
    /\ live[a] < MaxInputs
    /\ live' = [live EXCEPT ![a] = @ + 1]
    /\ UNCHANGED <<rows, store, slots, desks, faults>>

-----------------------------------------------------------------------------
(* The batch operations, each a transaction under the workspace's lock.    *)

\* One snapshot of the database is frozen for every member; a repeated start
\* with the same key finds the batch.
Start(b) ==
    /\ \A i \in Items: i[1] = b => status[i] = "absent"
    /\ status' = [i \in Items |-> IF i[1] = b THEN "queued" ELSE status[i]]
    /\ snapshot' = [i \in Items |-> IF i[1] = b THEN live[i[2]] ELSE snapshot[i]]
    /\ UNCHANGED <<live, cancelled, token, attempt, lapsed, keys, result, store, slots, desks, faults>>

\* Mutant: the queued items of a cancelled batch stay as they are.
CancelBatchOnly(b) ==
    /\ \E i \in Items: i[1] = b /\ status[i] # "absent"
    /\ cancelled' = cancelled \cup {b}
    /\ UNCHANGED <<live, status, snapshot, token, attempt, lapsed, keys, result, store, slots, desks, faults>>

\* Only what is still queued is cancelled; running calls finish.
Cancel(b) ==
    /\ \E i \in Items: i[1] = b /\ status[i] # "absent"
    /\ cancelled' = cancelled \cup {b}
    /\ status' = [i \in Items |-> IF i[1] = b /\ status[i] = "queued" THEN "cancelled" ELSE status[i]]
    /\ UNCHANGED <<live, snapshot, token, attempt, lapsed, keys, result, store, slots, desks, faults>>

\* Mutants: a cancelled batch or a key already used is not looked at.
RetryableCancelled(i, k) == k \notin keys[i] /\ status[i] = "failed"
RetryableAgain(i, k) == status[i] = "failed" /\ i[1] \notin cancelled

Retryable(i, k) == k \notin keys[i] /\ status[i] = "failed" /\ i[1] \notin cancelled

Retry(i, k) ==
    /\ Retryable(i, k)
    /\ status' = [status EXCEPT ![i] = "queued"]
    /\ token' = [token EXCEPT ![i] = 0]
    /\ lapsed' = lapsed \ {i}
    /\ keys' = [keys EXCEPT ![i] = @ \cup {k}]
    /\ UNCHANGED <<live, cancelled, snapshot, attempt, result, store, slots, desks, faults>>

\* Mutant: unknown calls do not hold their place.
OccupyingRunning == {i \in Items: status[i] = "running"}

\* "Unknown calls retain capacity."
Occupying == {i \in Items: status[i] \in {"running", "unknown"}}

\* Items of a live batch whose application has no call under way, while the
\* workspace is below its cap (their order is left open).
Claimable(i) ==
    /\ status[i] = "queued" /\ i[1] \notin cancelled
    /\ Cardinality(Occupying) < Cap
    /\ \A j \in Occupying: j[2] # i[2]

\* tick claims while the instance has a free slot, and starts the execution.
Claim(w, i) ==
    /\ pc[w] = "free"
    /\ Claimable(i)
    /\ status' = [status EXCEPT ![i] = "running"]
    /\ attempt' = [attempt EXCEPT ![i] = @ + 1]
    /\ token' = [token EXCEPT ![i] = attempt[i] + 1]
    /\ lapsed' = lapsed \ {i}
    /\ pc' = [pc EXCEPT ![w] = "begun"]
    /\ work' = [work EXCEPT ![w] = i]
    /\ held' = [held EXCEPT ![w] = attempt[i] + 1]
    /\ UNCHANGED <<live, cancelled, snapshot, keys, result, store, desks, faults>>

\* Evaluations whose manifest names the item.
ResultsOf(i) == {v \in 1..MaxVersions: input[<<i[2], v>>] # 0 /\ madeBy[<<i[2], v>>] = i}

\* tick and reconcile: lapsed items become unknown, and unknown ones whose
\* result is stored are completed.
Recover ==
    LET unknown == {i \in Items: status[i] = "unknown" \/ (status[i] = "running" /\ i \in lapsed)}
        found == {i \in unknown: ResultsOf(i) # {}}
    IN
    /\ found # {} \/ \E i \in unknown: status[i] = "running"
    /\ status' = [i \in Items |-> IF i \in found THEN "completed"
                                  ELSE IF i \in unknown THEN "unknown" ELSE status[i]]
    /\ result' = [i \in Items |-> IF i \in found THEN CHOOSE v \in ResultsOf(i): TRUE ELSE result[i]]
    /\ lapsed' = lapsed \ found
    /\ UNCHANGED <<live, cancelled, snapshot, token, attempt, keys, store, slots, desks, faults>>

-----------------------------------------------------------------------------
(* Executing an item.                                                      *)

\* The rows an execution may still write: its own claim, running or unknown.
Mine(w) == token[work[w]] = held[w] /\ status[work[w]] \in {"running", "unknown"}

\* The execution of the slot is over.
Release(w) ==
    /\ pc' = [pc EXCEPT ![w] = "free"]
    /\ work' = [work EXCEPT ![w] = NoItem]
    /\ held' = [held EXCEPT ![w] = 0]

Completed(i, v) ==
    /\ status' = [status EXCEPT ![i] = "completed"]
    /\ result' = [result EXCEPT ![i] = v]
    /\ lapsed' = lapsed \ {i}

LatestVersion(a) == Max({0} \cup {v \in 1..MaxVersions: input[<<a, v>>] # 0})

\* canReuseEvaluation: the latest version is current and from identical inputs.
Reusable(a, x) ==
    LET e == <<a, LatestVersion(a)>> IN LatestVersion(a) > 0 /\ e \in fresh /\ input[e] = x

\* The item is completed with the latest evaluation, or the AI is asked; a
\* lost lease ends the execution without a trace.
Begin(w) ==
    LET i == work[w] IN
    /\ pc[w] = "begun"
    /\ IF Reusable(i[2], snapshot[i])
       THEN /\ IF Mine(w) THEN Completed(i, LatestVersion(i[2]))
               ELSE UNCHANGED <<status, result, lapsed>>
            /\ Release(w)
       ELSE /\ pc' = [pc EXCEPT ![w] = "calling"]
            /\ UNCHANGED <<status, result, lapsed, work, held>>
    /\ UNCHANGED <<live, cancelled, snapshot, token, attempt, keys, store, desks, faults>>

Heartbeat(w) ==
    /\ pc[w] # "free"
    /\ token[work[w]] = held[w] /\ status[work[w]] = "running" /\ work[w] \in lapsed
    /\ lapsed' = lapsed \ {work[w]}
    /\ UNCHANGED <<live, cancelled, status, snapshot, token, attempt, keys, result, store, slots, desks, faults>>

\* A definite failure of the provider, or an evaluator that changed since the
\* batch was frozen, fails the item; anything else leaves it unknown.
Fail(w, outcome) ==
    /\ pc[w] \in {"begun", "calling"}
    /\ IF Mine(w)
       THEN /\ status' = [status EXCEPT ![work[w]] = outcome]
            /\ lapsed' = lapsed \ {work[w]}
       ELSE UNCHANGED <<status, lapsed>>
    /\ Release(w)
    /\ UNCHANGED <<live, cancelled, snapshot, token, attempt, keys, result, store, desks, faults>>

\* Writing a new evaluation; a current one takes the place of the others.
Store(a, v, x, item, isCurrent) ==
    /\ input' = [input EXCEPT ![<<a, v>>] = x]
    /\ madeBy' = [madeBy EXCEPT ![<<a, v>>] = item]
    /\ fresh' = IF isCurrent THEN {e \in fresh: e[1] # a} \cup {<<a, v>>} ELSE fresh

\* Mutants: the frozen inputs count as live; the claim is not checked.
SaveAsCurrent(w) ==
    LET i == work[w]
        v == LatestVersion(i[2]) + 1
    IN
    /\ pc[w] = "calling"
    /\ IF Mine(w) THEN Completed(i, v) /\ Store(i[2], v, snapshot[i], i, TRUE)
       ELSE UNCHANGED <<status, result, lapsed, store>>
    /\ Release(w)
    /\ UNCHANGED <<live, cancelled, snapshot, token, attempt, keys, desks, faults>>
SaveUnfinished(w) ==
    LET i == work[w]
        v == LatestVersion(i[2]) + 1
    IN
    /\ pc[w] = "calling"
    /\ IF Mine(w) THEN Store(i[2], v, snapshot[i], i, snapshot[i] = live[i[2]])
       ELSE UNCHANGED store
    /\ Release(w)
    /\ UNCHANGED <<live, rows, desks, faults>>

\* One transaction on the locked item and application: the claim still holds,
\* the inputs are compared with the live ones, the next version is written and
\* the item completed.
Save(w) ==
    LET i == work[w]
        v == LatestVersion(i[2]) + 1
    IN
    /\ pc[w] = "calling" /\ v <= MaxVersions
    /\ IF Mine(w) THEN Completed(i, v) /\ Store(i[2], v, snapshot[i], i, snapshot[i] = live[i[2]])
       ELSE UNCHANGED <<status, result, lapsed, store>>
    /\ Release(w)
    /\ UNCHANGED <<live, cancelled, snapshot, token, attempt, keys, desks, faults>>

\* The outcome could not be recorded: the lease will lapse.
ExecutionError(w) ==
    /\ pc[w] # "free"
    /\ faults < MaxFaults
    /\ faults' = faults + 1
    /\ Release(w)
    /\ UNCHANGED <<live, rows, store, desks>>

LeaseLapses(i) ==
    /\ status[i] = "running" /\ i \notin lapsed
    /\ lapsed' = lapsed \cup {i}
    /\ UNCHANGED <<live, cancelled, status, snapshot, token, attempt, keys, result, store, slots, desks, faults>>

-----------------------------------------------------------------------------
(* Screening one application: run and refresh, one at a time on an instance.*)

Leave(d) ==
    /\ desk' = [desk EXCEPT ![d] = "free"]
    /\ seen' = [seen EXCEPT ![d] = 0]
    /\ next' = [next EXCEPT ![d] = 0]

\* run: the live inputs are loaded ...
RunLoad(d) ==
    /\ desk[d] = "free" /\ runs[d[2]] < MaxRuns
    /\ desk' = [desk EXCEPT ![d] = "loaded"]
    /\ seen' = [seen EXCEPT ![d] = live[d[2]]]
    /\ runs' = [runs EXCEPT ![d[2]] = @ + 1]
    /\ UNCHANGED <<live, rows, store, slots, next, faults>>

\* ... then the next version is computed.
RunVersion(d) ==
    /\ desk[d] = "loaded"
    /\ desk' = [desk EXCEPT ![d] = "ready"]
    /\ next' = [next EXCEPT ![d] = LatestVersion(d[2]) + 1]
    /\ UNCHANGED <<live, rows, store, slots, seen, runs, faults>>

\* refresh: the version after the one it was asked for, from the live inputs.
Refresh(d, v) ==
    /\ desk[d] = "free" /\ runs[d[2]] < MaxRuns
    /\ input[<<d[2], v>>] # 0
    /\ desk' = [desk EXCEPT ![d] = "ready"]
    /\ seen' = [seen EXCEPT ![d] = live[d[2]]]
    /\ next' = [next EXCEPT ![d] = v + 1]
    /\ runs' = [runs EXCEPT ![d[2]] = @ + 1]
    /\ UNCHANGED <<live, rows, store, slots, faults>>

\* Identical inputs give the evaluation there is; others go to the AI.
RunReuse(d) ==
    /\ desk[d] = "ready" /\ Reusable(d[2], seen[d])
    /\ Leave(d)
    /\ UNCHANGED <<live, rows, store, slots, runs, faults>>

RunAsk(d) ==
    /\ desk[d] = "ready" /\ ~Reusable(d[2], seen[d])
    /\ desk' = [desk EXCEPT ![d] = "calling"]
    /\ UNCHANGED <<live, rows, store, slots, seen, next, runs, faults>>

RunFails(d) ==
    /\ desk[d] = "calling"
    /\ Leave(d)
    /\ UNCHANGED <<live, rows, store, slots, runs, faults>>

\* The unique version number refuses the second of two concurrent results.
RunSave(d) ==
    /\ desk[d] = "calling" /\ next[d] <= MaxVersions
    /\ IF input[<<d[2], next[d]>>] = 0 THEN Store(d[2], next[d], seen[d], NoItem, TRUE)
       ELSE UNCHANGED store
    /\ Leave(d)
    /\ UNCHANGED <<live, rows, slots, runs, faults>>

\* The instance stops: its executions and runs are gone, the rows stay.
Crash(n) ==
    /\ faults < MaxFaults
    /\ faults' = faults + 1
    /\ \E w \in Slots: w[1] = n /\ pc[w] # "free"
    /\ pc' = [w \in Slots |-> IF w[1] = n THEN "free" ELSE pc[w]]
    /\ work' = [w \in Slots |-> IF w[1] = n THEN NoItem ELSE work[w]]
    /\ held' = [w \in Slots |-> IF w[1] = n THEN 0 ELSE held[w]]
    /\ desk' = [d \in Desks |-> IF d[1] = n THEN "free" ELSE desk[d]]
    /\ seen' = [d \in Desks |-> IF d[1] = n THEN 0 ELSE seen[d]]
    /\ next' = [d \in Desks |-> IF d[1] = n THEN 0 ELSE next[d]]
    /\ UNCHANGED <<live, rows, store, runs>>

\* What recruiters and instances do with batches and their items ...
QueueNext ==
    \/ \E b \in Batches: Start(b)
    \/ \E b \in Batches: Cancel(b)
    \/ \E i \in Items, k \in RetryKeys: Retry(i, k)
    \/ \E w \in Slots, i \in Items: Claim(w, i)
    \/ Recover
    \/ \E w \in Slots: Begin(w)
    \/ \E w \in Slots: Heartbeat(w)
    \/ \E w \in Slots, o \in {"failed", "unknown"}: Fail(w, o)
    \/ \E w \in Slots: Save(w)
    \/ \E w \in Slots: ExecutionError(w)
    \/ \E i \in Items: LeaseLapses(i)
    \/ \E n \in Instances: Crash(n)

\* ... and screenings of single applications, from inputs that change.
SingleNext ==
    \/ \E a \in Applications: ChangeInputs(a)
    \/ \E d \in Desks: RunLoad(d)
    \/ \E d \in Desks: RunVersion(d)
    \/ \E d \in Desks, v \in 1..MaxVersions: Refresh(d, v)
    \/ \E d \in Desks: RunReuse(d)
    \/ \E d \in Desks: RunAsk(d)
    \/ \E d \in Desks: RunFails(d)
    \/ \E d \in Desks: RunSave(d)

Next == QueueNext \/ SingleNext

\* Instances keep polling, executions end by the AI's deadline, and the lease
\* of an item nobody executes lapses.
Executed(i) == \E w \in Slots: work[w] = i /\ held[w] = token[i]
Fairness ==
    /\ WF_vars(Recover)
    /\ WF_vars(\E w \in Slots, i \in Items: Claim(w, i))
    /\ \A w \in Slots: WF_vars(Begin(w)) /\ WF_vars(Save(w) \/ \E o \in {"failed", "unknown"}: Fail(w, o))
    /\ \A i \in Items: WF_vars(~Executed(i) /\ LeaseLapses(i))

Spec == Init /\ [][Next]_vars

\* The queue alone: a single screening holds no place in it, and neither waits
\* for the other.
FairQueue == Init /\ [][QueueNext]_vars /\ Fairness
-----------------------------------------------------------------------------
TypeOK ==
    /\ live \in [Applications -> 1..MaxInputs]
    /\ cancelled \subseteq Batches
    /\ status \in [Items -> {"absent", "queued", "running", "completed", "failed", "cancelled", "unknown"}]
    /\ snapshot \in [Items -> 0..MaxInputs]
    /\ token \in [Items -> 0..MaxTokens]
    /\ attempt \in [Items -> 0..MaxTokens]
    /\ lapsed \subseteq Items
    /\ keys \in [Items -> SUBSET RetryKeys]
    /\ result \in [Items -> 0..MaxVersions]
    /\ input \in [Evaluations -> 0..MaxInputs]
    /\ madeBy \in [Evaluations -> Items \cup {NoItem}]
    /\ fresh \subseteq {e \in Evaluations: input[e] # 0}
    /\ pc \in [Slots -> {"free", "begun", "calling"}]
    /\ work \in [Slots -> Items \cup {NoItem}]
    /\ \A w \in Slots: pc[w] = "free" <=> work[w] = NoItem
    /\ held \in [Slots -> 0..MaxTokens]
    /\ desk \in [Desks -> {"free", "loaded", "ready", "calling"}]
    /\ seen \in [Desks -> 0..MaxInputs]
    /\ next \in [Desks -> 0..(MaxVersions + 1)]
    /\ runs \in [Applications -> 0..MaxRuns]
    /\ faults \in 0..MaxFaults

\* "Releasing it could exceed the cap while a provider still works": however
\* leases lapse, no more than Cap executions are under way, no two of them for
\* one application or for one item.
CapHolds ==
    LET executing == {w \in Slots: pc[w] # "free"} IN
    /\ Cardinality(executing) <= Cap
    /\ \A v, w \in executing: work[v][2] = work[w][2] => v = w

\* An item is evaluated at most once ("reconcile never repeats evaluation"):
\* it is completed exactly when its one result is stored, or with the
\* evaluation it could reuse, which is one of its application and inputs.
OneResultPerItem ==
    \A i \in Items:
        /\ Cardinality(ResultsOf(i)) <= 1
        /\ ResultsOf(i) # {} => status[i] = "completed" /\ result[i] \in ResultsOf(i)
        /\ status[i] = "completed" => result[i] > 0 /\ input[<<i[2], result[i]>>] = snapshot[i]

\* An application has at most one current evaluation, and one a batch made
\* current is from inputs at least as new as those of every version before it
\* ("old baseline must not become current").
CurrentIsSound ==
    \A e \in fresh:
        /\ \A f \in fresh: e[1] = f[1] => e = f
        /\ madeBy[e] # NoItem =>
             \A v \in 1..e[2]: input[<<e[1], v>>] <= input[e]

\* Nothing is evaluated unasked: each attempt beyond the first is a retry with
\* a key of its own, and a cancelled batch has nothing in the queue.
RunsWereAsked ==
    \A i \in Items:
        /\ attempt[i] <= 1 + Cardinality(keys[i])
        /\ i[1] \in cancelled => status[i] # "queued"

\* The queue waits for nothing but calls whose outcome is unknown.
QueueMoves ==
    \A i \in Items:
        status[i] = "queued" ~>
            \/ status[i] # "queued"
            \/ \E j \in Items: status[j] = "unknown"

\* "Identical inputs give the identical result -- reuse the latest snapshot
\* instead of asking the model again" (createEvaluation, #19): the AI is not
\* asked for what the current evaluation already answers.
AsksOnlyWhatIsNew ==
    [][\A d \in Desks: desk[d] = "ready" /\ desk'[d] = "calling" =>
          \A e \in fresh: e[1] = d[2] => input[e] # seen[d]]_vars
=============================================================================
