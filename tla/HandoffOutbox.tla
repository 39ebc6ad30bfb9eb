----------------------------- MODULE HandoffOutbox -----------------------------
(***************************************************************************)
(* Screening's recruiter decisions and the transactional outbox that hands *)
(* a candidate on to Interview or Written (DecisionsService and            *)
(* InterviewHandoffDispatcherService).                                     *)
(*                                                                         *)
(* A decision and the event announcing it are written in one transaction.  *)
(* Every backend instance polls the outbox with one queue per destination; *)
(* a queue claims an event under a lease, POSTs it and settles the claim.  *)
(* A recruiter may withdraw a decision meanwhile, which cancels the event. *)
(*                                                                         *)
(* A decision is named <<application, number>>; the event written with it  *)
(* has the same name, so "the handoffs created since the decision" are the *)
(* events of that application with that number or a later one.             *)
(***************************************************************************)
EXTENDS Naturals, FiniteSets

CONSTANTS
    Applications,      \* applications of one workspace
    Instances,         \* Screening backend instances
    Users,             \* recruiters that withdraw decisions
    NoClaim,           \* what a queue works on when it works on nothing
    NoWorker,          \* the holder of an event nobody has claimed
    NoDecision,        \* what a withdrawal concerns when there is none
    MaxDecisions,      \* bound: decisions per application
    MaxAttempts,       \* MAX_ATTEMPTS
    MaxFaults,         \* bound: instance crashes and database errors while settling
    LeaseOutlivesSend, \* LEASE_MS exceeds the delivery deadline, clocks agree
    Requeues           \* an operator resets failed events, as the code suggests

Destinations == {"interview", "written"}
Decisions == Applications \X (1..MaxDecisions)
Workers == Instances \X Destinations     \* a queue of an instance's dispatcher
Attempts == [event: Decisions, attempt: 0..MaxAttempts]

ASSUME HandoffAssumption ==
    /\ MaxDecisions \in Nat
    /\ MaxAttempts \in Nat \ {0}
    /\ MaxFaults \in Nat
    /\ LeaseOutlivesSend \in BOOLEAN
    /\ Requeues \in BOOLEAN
    /\ NoClaim \notin Attempts
    /\ NoWorker \notin Workers
    /\ NoDecision \notin Decisions

VARIABLES
    decision,   \* Decisions -> status of the ScreeningDecision row
    goesTo,     \* Decisions -> destination of its event ("nobody": record_only)
    status,     \* Decisions -> status of the ScreeningOutboxEvent row
    attempt,    \* Decisions -> its attempt counter
    due,        \* Decisions -> nextAttemptAt is null or has passed
    holder,     \* Decisions -> the worker whose leaseToken the row carries
    lapsed,     \* the `sending` events whose leaseUntil has passed
    pc,         \* Workers -> where the queue is in its round
    batch,      \* Workers -> events read and not yet tried, with the attempt read
    cur,        \* Workers -> the element of the batch being dispatched
    request,    \* Workers -> its POST: none, sent, accepted or refused
    late,       \* events with an abandoned request still on the way
    received,   \* events the destination has processed (idempotent upserts)
    withdrawal, \* Users -> progress of a withdraw call
    posted,     \* history: events POSTed at least once
    faults      \* crashes and settle errors so far

events == <<decision, goesTo, status, attempt, due, holder, lapsed>>
queues == <<pc, batch, cur, request>>
world == <<late, received>>
vars == <<events, queues, world, withdrawal, posted, faults>>

Idle == [pc |-> "idle", decision |-> NoDecision, handoffs |-> {}]

Init ==
    /\ decision = [d \in Decisions |-> "none"]
    /\ goesTo = [d \in Decisions |-> "nobody"]
    /\ status = [d \in Decisions |-> "none"]
    /\ attempt = [d \in Decisions |-> 0]
    /\ due = [d \in Decisions |-> TRUE]
    /\ holder = [d \in Decisions |-> NoWorker]
    /\ lapsed = {}
    /\ pc = [w \in Workers |-> "idle"]
    /\ batch = [w \in Workers |-> {}]
    /\ cur = [w \in Workers |-> NoClaim]
    /\ request = [w \in Workers |-> "none"]
    /\ late = {}
    /\ received = {}
    /\ withdrawal = [u \in Users |-> Idle]
    /\ posted = {}
    /\ faults = 0

-----------------------------------------------------------------------------
(* Recording and withdrawing decisions.                                    *)

\* The decision d is the next one of its application: every earlier one exists
\* and none of them is in effect (recordInTransaction's replay and conflict
\* checks; the preconditions on the evaluation are ScreeningReview's).
IsNextDecision(d) ==
    /\ decision[d] = "none"
    /\ \A n \in 1..(d[2] - 1): decision[<<d[1], n>>] = "withdrawn"

\* One serializable transaction writes the decision and, unless it is
\* record_only, its event.
Record(d, destination) ==
    /\ IsNextDecision(d)
    /\ decision' = [decision EXCEPT ![d] = "approved"]
    /\ goesTo' = [goesTo EXCEPT ![d] = destination]
    /\ status' = [status EXCEPT ![d] = IF destination = "nobody" THEN "none" ELSE "pending"]
    /\ UNCHANGED <<attempt, due, holder, lapsed, queues, world, withdrawal, posted, faults>>

\* Events of d's application created since d was recorded.
HandoffsSince(d) ==
    {e \in Decisions: e[1] = d[1] /\ e[2] >= d[2] /\ status[e] # "none"}

\* withdraw reads the decision before its transaction ...
WithdrawReadDecision(u, d) ==
    /\ withdrawal[u].pc = "idle"
    /\ decision[d] = "approved"
    /\ withdrawal' = [withdrawal EXCEPT ![u] = [pc |-> "decision", decision |-> d, handoffs |-> {}]]
    /\ UNCHANGED <<events, queues, world, posted, faults>>

\* ... and the handoffs written since, refusing when one was dispatched.
WithdrawReadHandoffs(u) ==
    /\ withdrawal[u].pc = "decision"
    /\ LET d == withdrawal[u].decision
       IN  withdrawal' = [withdrawal EXCEPT ![u] =
             IF \E e \in HandoffsSince(d): status[e] = "dispatched" THEN Idle
             ELSE [pc |-> "handoffs", decision |-> d, handoffs |-> HandoffsSince(d)]]
    /\ UNCHANGED <<events, queues, world, posted, faults>>

\* Mutant: the state of the decision is not checked again.
CanWithdrawTwice(u) == \A e \in withdrawal[u].handoffs: status[e] \in {"pending", "failed"}

\* The transaction: conditional on the decision still being in effect and on
\* every handoff read still being pending or failed; otherwise all of it rolls back.
CanWithdraw(u) ==
    /\ decision[withdrawal[u].decision] = "approved"
    /\ \A e \in withdrawal[u].handoffs: status[e] \in {"pending", "failed"}

WithdrawCommit(u) ==
    /\ withdrawal[u].pc = "handoffs"
    /\ IF CanWithdraw(u)
       THEN /\ decision' = [decision EXCEPT ![withdrawal[u].decision] = "withdrawn"]
            /\ status' = [e \in Decisions |->
                 IF e \in withdrawal[u].handoffs THEN "cancelled" ELSE status[e]]
       ELSE UNCHANGED <<decision, status>>
    /\ withdrawal' = [withdrawal EXCEPT ![u] = Idle]
    /\ UNCHANGED <<goesTo, attempt, due, holder, lapsed, queues, world, posted, faults>>

-----------------------------------------------------------------------------
(* The dispatcher.                                                         *)

\* Mutants: cancelled events count as undelivered; expired claims are not taken over.
ClaimableCancelled(e) == status[e] \in {"pending", "cancelled"} /\ due[e]
ClaimablePending(e) == status[e] = "pending" /\ due[e]

Claimable(e) ==
    \/ status[e] = "pending" /\ due[e]
    \/ status[e] = "sending" /\ e \in lapsed

\* Mutant: the attempt limit is forgotten.
PollableUnlimited(w) == {e \in Decisions: goesTo[e] = w[2] /\ Claimable(e)}

\* What a queue's findMany returns (BATCH_SIZE exceeds the number of events).
Pollable(w) == {e \in Decisions: goesTo[e] = w[2] /\ attempt[e] < MaxAttempts /\ Claimable(e)}

\* A round of the instance starts when none is running (`running`): each queue
\* reads its events, which no other queue of the instance handles.
StartRound(i) ==
    /\ \A t \in Destinations: pc[<<i, t>>] = "idle"
    /\ \E t \in Destinations: Pollable(<<i, t>>) # {}
    /\ pc' = [w \in Workers |-> IF w[1] = i THEN "batch" ELSE pc[w]]
    /\ batch' = [w \in Workers |-> IF w[1] # i THEN batch[w]
          ELSE {[event |-> e, attempt |-> attempt[e]]: e \in Pollable(w)}]
    /\ UNCHANGED <<events, cur, request, world, withdrawal, posted, faults>>

\* The conditional update pending/lapsed -> sending under a fresh lease token.
Claim(w, b) ==
    /\ pc[w] = "batch" /\ b \in batch[w]
    /\ Claimable(b.event)
    /\ status' = [status EXCEPT ![b.event] = "sending"]
    /\ holder' = [holder EXCEPT ![b.event] = w]
    /\ lapsed' = lapsed \ {b.event}
    /\ batch' = [batch EXCEPT ![w] = @ \ {b}]
    /\ cur' = [cur EXCEPT ![w] = b]
    /\ pc' = [pc EXCEPT ![w] = "claimed"]
    /\ UNCHANGED <<decision, goesTo, attempt, due, request, world, withdrawal, posted, faults>>

\* The conditional update changed no row: somebody else has the event.
Skip(w, b) ==
    /\ pc[w] = "batch" /\ b \in batch[w]
    /\ ~Claimable(b.event)
    /\ batch' = [batch EXCEPT ![w] = @ \ {b}]
    /\ UNCHANGED <<events, pc, cur, request, world, withdrawal, posted, faults>>

Post(w) ==
    /\ pc[w] = "claimed"
    /\ pc' = [pc EXCEPT ![w] = "posted"]
    /\ request' = [request EXCEPT ![w] = "sent"]
    /\ posted' = posted \cup {cur[w].event}
    /\ UNCHANGED <<events, batch, cur, world, withdrawal, faults>>

\* The queue goes on to the next event of its batch.
NextInBatch(w) ==
    /\ pc' = [pc EXCEPT ![w] = "batch"]
    /\ cur' = [cur EXCEPT ![w] = NoClaim]
    /\ request' = [request EXCEPT ![w] = "none"]
    /\ UNCHANGED batch

\* A request still under way when its sender gives up may yet arrive.
Abandon(ws) == late' = late \cup {cur[w].event: w \in {v \in ws: request[v] = "sent"}}

\* Mutant: the answer's status is not looked at.
SettleDispatchedUnchecked(w) ==
    /\ pc[w] = "posted" /\ request[w] \in {"accepted", "refused"}
    /\ holder[cur[w].event] = w
    /\ status' = [status EXCEPT ![cur[w].event] = "dispatched"]
    /\ NextInBatch(w)
    /\ UNCHANGED <<decision, goesTo, attempt, due, holder, lapsed, world, withdrawal, posted, faults>>

\* settle({status: 'dispatched'}): only while the row carries this claim's token.
SettleDispatched(w) ==
    LET e == cur[w].event IN
    /\ pc[w] = "posted" /\ request[w] = "accepted"
    /\ IF holder[e] = w
       THEN /\ status' = [status EXCEPT ![e] = "dispatched"]
            /\ holder' = [holder EXCEPT ![e] = NoWorker]
            /\ lapsed' = lapsed \ {e}
       ELSE UNCHANGED <<status, holder, lapsed>>
    /\ NextInBatch(w)
    /\ UNCHANGED <<decision, goesTo, attempt, due, world, withdrawal, posted, faults>>

\* A refusal, the delivery deadline or a lost answer: the attempt is counted
\* from the value the batch read, and the event waits out its backoff.
SettleFailed(w) ==
    LET e == cur[w].event
        counted == cur[w].attempt + 1
    IN
    /\ pc[w] = "posted"
    /\ IF holder[e] = w
       THEN /\ status' = [status EXCEPT ![e] = IF counted >= MaxAttempts THEN "failed" ELSE "pending"]
            /\ attempt' = [attempt EXCEPT ![e] = counted]
            /\ due' = [due EXCEPT ![e] = FALSE]
            /\ holder' = [holder EXCEPT ![e] = NoWorker]
            /\ lapsed' = lapsed \ {e}
       ELSE UNCHANGED <<status, attempt, due, holder, lapsed>>
    /\ Abandon({w})
    /\ NextInBatch(w)
    /\ UNCHANGED <<decision, goesTo, received, withdrawal, posted, faults>>

\* Recording the outcome failed: logged, and the queue goes on (#116).
SettleError(w) ==
    /\ pc[w] = "posted"
    /\ faults < MaxFaults
    /\ faults' = faults + 1
    /\ Abandon({w})
    /\ NextInBatch(w)
    /\ UNCHANGED <<events, received, withdrawal, posted>>

\* Promise.all over the queues, then running = false.
FinishRound(i) ==
    /\ \A t \in Destinations: pc[<<i, t>>] = "batch" /\ batch[<<i, t>>] = {}
    /\ pc' = [w \in Workers |-> IF w[1] = i THEN "idle" ELSE pc[w]]
    /\ UNCHANGED <<events, batch, cur, request, world, withdrawal, posted, faults>>

-----------------------------------------------------------------------------
(* Time, the network, the destinations, crashes and the operator.          *)

Sending(w, e) == pc[w] \in {"claimed", "posted"} /\ cur[w].event = e

BackoffElapses(e) ==
    /\ ~due[e]
    /\ due' = [due EXCEPT ![e] = TRUE]
    /\ UNCHANGED <<decision, goesTo, status, attempt, holder, lapsed, queues, world, withdrawal, posted, faults>>

\* leaseUntil passes.  A lease longer than a delivery lapses only when its
\* holder is no longer at it.
LeaseLapses(e) ==
    /\ status[e] = "sending" /\ e \notin lapsed
    /\ LeaseOutlivesSend => \A w \in Workers: ~Sending(w, e)
    /\ lapsed' = lapsed \cup {e}
    /\ UNCHANGED <<decision, goesTo, status, attempt, due, holder, queues, world, withdrawal, posted, faults>>

\* The destination processes the request: its answer may still be lost.
Accept(w) ==
    /\ pc[w] = "posted" /\ request[w] = "sent"
    /\ request' = [request EXCEPT ![w] = "accepted"]
    /\ received' = received \cup {cur[w].event}
    /\ UNCHANGED <<events, pc, batch, cur, late, withdrawal, posted, faults>>

Refuse(w) ==
    /\ pc[w] = "posted" /\ request[w] = "sent"
    /\ request' = [request EXCEPT ![w] = "refused"]
    /\ UNCHANGED <<events, pc, batch, cur, world, withdrawal, posted, faults>>

\* An abandoned request arrives after all, or is lost; another one of the same
\* event may still be on the way.
LateArrival(e) ==
    /\ e \in late
    /\ late' \in {late, late \ {e}}
    /\ received' \in {received, received \cup {e}}
    /\ UNCHANGED <<events, queues, withdrawal, posted, faults>>

\* The process ends; its claims stay on the rows, its memory is lost.
Crash(i) ==
    /\ faults < MaxFaults
    /\ faults' = faults + 1
    /\ \E t \in Destinations: pc[<<i, t>>] # "idle"
    /\ Abandon({w \in Workers: w[1] = i})
    /\ pc' = [w \in Workers |-> IF w[1] = i THEN "idle" ELSE pc[w]]
    /\ batch' = [w \in Workers |-> IF w[1] = i THEN {} ELSE batch[w]]
    /\ cur' = [w \in Workers |-> IF w[1] = i THEN NoClaim ELSE cur[w]]
    /\ request' = [w \in Workers |-> IF w[1] = i THEN "none" ELSE request[w]]
    /\ UNCHANGED <<events, received, withdrawal, posted>>

\* "a human can requeue (reset status to 'pending')"
Requeue(e) ==
    /\ Requeues
    /\ status[e] = "failed"
    /\ status' = [status EXCEPT ![e] = "pending"]
    /\ UNCHANGED <<decision, goesTo, attempt, due, holder, lapsed, queues, world, withdrawal, posted, faults>>

-----------------------------------------------------------------------------
Deciding ==
    \/ \E d \in Decisions, t \in Destinations \cup {"nobody"}: Record(d, t)
    \/ \E u \in Users, d \in Decisions: WithdrawReadDecision(u, d)
    \/ \E u \in Users: WithdrawReadHandoffs(u)
    \/ \E u \in Users: WithdrawCommit(u)

Dispatching ==
    \/ \E i \in Instances: StartRound(i)
    \/ \E w \in Workers: \E b \in batch[w]: Claim(w, b)
    \/ \E w \in Workers: \E b \in batch[w]: Skip(w, b)
    \/ \E w \in Workers: Post(w)
    \/ \E w \in Workers: SettleDispatched(w)
    \/ \E w \in Workers: SettleFailed(w)
    \/ \E w \in Workers: SettleError(w)
    \/ \E i \in Instances: FinishRound(i)

Surroundings ==
    \/ \E e \in Decisions: BackoffElapses(e)
    \/ \E e \in Decisions: LeaseLapses(e)
    \/ \E w \in Workers: Accept(w)
    \/ \E w \in Workers: Refuse(w)
    \/ \E e \in Decisions: LateArrival(e)
    \/ \E i \in Instances: Crash(i)
    \/ \E e \in Decisions: Requeue(e)

Next == Deciding \/ Dispatching \/ Surroundings

Spec == Init /\ [][Next]_vars
-----------------------------------------------------------------------------
(* Scheduling.  setInterval keeps every instance polling and each delivery *)
(* has a deadline, so every step of a dispatcher is eventually taken, and  *)
(* time passes.  Users, destinations, faults and the operator are not fair.*)

Fairness ==
    /\ \A i \in Instances: WF_vars(StartRound(i)) /\ WF_vars(FinishRound(i))
    /\ \A w \in Workers:
         /\ WF_vars(\E b \in batch[w]: Claim(w, b) \/ Skip(w, b))
         /\ WF_vars(Post(w))
         /\ WF_vars(SettleDispatched(w) \/ SettleFailed(w))
    /\ \A e \in Decisions: WF_vars(LeaseLapses(e)) /\ WF_vars(BackoffElapses(e))

FairSpec == Spec /\ Fairness

-----------------------------------------------------------------------------
(* Properties.                                                             *)

TypeOK ==
    /\ decision \in [Decisions -> {"none", "approved", "withdrawn"}]
    /\ goesTo \in [Decisions -> Destinations \cup {"nobody"}]
    /\ status \in [Decisions -> {"none", "pending", "sending", "dispatched", "failed", "cancelled"}]
    /\ attempt \in [Decisions -> 0..MaxAttempts]
    /\ due \in [Decisions -> BOOLEAN]
    /\ holder \in [Decisions -> Workers \cup {NoWorker}]
    /\ lapsed \in SUBSET Decisions
    /\ pc \in [Workers -> {"idle", "batch", "claimed", "posted"}]
    /\ batch \in [Workers -> SUBSET [event: Decisions, attempt: 0..(MaxAttempts - 1)]]
    /\ cur \in [Workers -> [event: Decisions, attempt: 0..(MaxAttempts - 1)] \cup {NoClaim}]
    /\ \A w \in Workers: pc[w] \in {"claimed", "posted"} <=> cur[w] # NoClaim
    /\ request \in [Workers -> {"none", "sent", "accepted", "refused"}]
    /\ \A w \in Workers: pc[w] = "posted" <=> request[w] # "none"
    /\ late \in SUBSET Decisions
    /\ received \in SUBSET Decisions
    /\ withdrawal \in [Users -> [pc: {"idle", "decision", "handoffs"},
                                  decision: Decisions \cup {NoDecision},
                                  handoffs: SUBSET Decisions]]
    /\ \A u \in Users: withdrawal[u].pc # "idle" => withdrawal[u].decision \in Decisions
    /\ posted \in SUBSET Decisions
    /\ faults \in 0..MaxFaults

\* Two dispatchers never both send an event (the comment on the class), as
\* long as a lease outlives a delivery.
SingleSender ==
    \A e \in Decisions: \A v, w \in Workers: Sending(v, e) /\ Sending(w, e) => v = w

\* Once a withdrawal went through, the decision's event is cancelled and no
\* dispatcher is about to send it: the check-then-cancel of withdraw races
\* with the read-claim-send of every queue.
WithdrawnIsSilent ==
    \A d \in Decisions: decision[d] = "withdrawn" =>
        /\ status[d] \in {"none", "cancelled"}
        /\ \A w \in Workers: ~Sending(w, d)

\* An application has at most one handoff in force: deciding anew is possible
\* only after every earlier handoff was cancelled.
OneHandoffInForce ==
    \A d, e \in Decisions:
        d[1] = e[1] /\ {status[d], status[e]} \cap {"none", "cancelled"} = {} => d = e

\* A decision in effect keeps its handoff: no withdrawal that started against
\* an earlier decision cancels it.
ActiveHandoffKept ==
    \A d \in Decisions:
        decision[d] = "approved" /\ goesTo[d] # "nobody" => status[d] \notin {"none", "cancelled"}

\* "sent" is never shown for a candidate the destination has not taken.
DispatchedWasReceived ==
    \A e \in Decisions: status[e] = "dispatched" => e \in received

\* An event that was dispatched or cancelled keeps that state: no late settle
\* or stale claim reopens it, no withdrawal racing a delivery revokes it.
FinalStateStays ==
    [][\A e \in Decisions: status[e] \in {"dispatched", "cancelled"} => status'[e] = status[e]]_vars

\* Every announced handoff is eventually delivered, given up or withdrawn,
\* through crashes, lost answers and lost leases.
HandoffSettles ==
    \A e \in Decisions:
        status[e] = "pending" ~> status[e] \in {"dispatched", "failed", "cancelled"}

\* The promise made to the rest of the system, and the detailed system as an
\* implementation of it.
Promise(d) ==
    CASE status[d] = "none" -> "none"
      [] status[d] \in {"pending", "sending"} -> "owed"
      [] status[d] = "dispatched" -> "handed_over"
      [] status[d] = "failed" -> "given_up"
      [] status[d] = "cancelled" -> "revoked"

Delivery == INSTANCE HandoffDelivery WITH
    promise <- [d \in Decisions |-> Promise(d)], attempted <- posted

ImplementsDelivery == Delivery!Spec

-----------------------------------------------------------------------------
(* What comments say of the program, and the code does not do.             *)

\* A withdrawal is "only possible while its handoff hasn't reached Interview /
\* Written yet".
WithdrawnBeforeReceipt ==
    [][\A d \in Decisions: decision[d] = "approved" /\ decision'[d] = "withdrawn" => d \notin received]_vars

\* "After this many failed attempts, stop retrying automatically": every failure
\* recorded brings the event one attempt nearer to that end.
EveryFailureCounts ==
    [][\A e \in Decisions: due[e] /\ ~due'[e] => attempt'[e] = attempt[e] + 1]_vars

\* "a slow one holds up only its own events": a queue that is through with its
\* batch does not sit out another destination's deliveries while an event of
\* its own may be claimed.
HeldUpOnlyByOwnEvents ==
    \A i \in Instances, t \in Destinations:
        pc[<<i, t>>] = "batch" /\ batch[<<i, t>>] = {} /\ Pollable(<<i, t>>) # {} =>
            \A other \in Destinations: pc[<<i, other>>] \notin {"claimed", "posted"}

\* "a human can requeue (reset status to 'pending')": a requeued event is
\* taken up again by some dispatcher, unless it is withdrawn.
RequeuedIsTakenUp ==
    \A e \in Decisions: status[e] = "pending" ~> status[e] # "pending"
=============================================================================
