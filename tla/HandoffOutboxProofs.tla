-------------------------- MODULE HandoffOutboxProofs --------------------------
(***************************************************************************)
(* Proofs about HandoffOutbox, and about HandoffIntake as what implements  *)
(* it, for any number of applications, instances, recruiters, decisions,   *)
(* attempts and faults.                                                    *)
(***************************************************************************)
EXTENDS HandoffIntake, TLAPS

Claims == [event: Decisions, attempt: 0..(MaxAttempts - 1)]

LEMMA ClaimsAreNotNoClaim == \A c \in Claims: c # NoClaim
<1> SUFFICES ASSUME NEW c \in Claims PROVE c \in Attempts
    BY HandoffAssumption
<1>1. 0..(MaxAttempts - 1) \subseteq 0..MaxAttempts
    BY HandoffAssumption
<1> QED BY <1>1 DEF Claims, Attempts

LEMMA TypeInit == Init => TypeOK
BY HandoffAssumption DEF Init, TypeOK, Idle

LEMMA TypeStep == TypeOK /\ [Next]_vars => TypeOK'
<1> SUFFICES ASSUME TypeOK, [Next]_vars PROVE TypeOK'
    OBVIOUS
<1> USE HandoffAssumption, ClaimsAreNotNoClaim DEF Claims
<1> USE DEF TypeOK, events, queues, world
<1>1. ASSUME NEW d \in Decisions, NEW t \in Destinations \cup {"nobody"}, Record(d, t)
      PROVE  TypeOK'
    BY <1>1 DEF Record
<1>2. ASSUME NEW u \in Users, NEW d \in Decisions, WithdrawReadDecision(u, d)
      PROVE  TypeOK'
    BY <1>2 DEF WithdrawReadDecision
<1>3. ASSUME NEW u \in Users, WithdrawReadHandoffs(u)
      PROVE  TypeOK'
  <2>1. HandoffsSince(withdrawal[u].decision) \subseteq Decisions
      BY DEF HandoffsSince
  <2> DEFINE new == IF \E e \in HandoffsSince(withdrawal[u].decision): status[e] = "dispatched" THEN Idle
                    ELSE [pc |-> "handoffs", decision |-> withdrawal[u].decision,
                          handoffs |-> HandoffsSince(withdrawal[u].decision)]
  <2>2. withdrawal' = [withdrawal EXCEPT ![u] = new]
      BY <1>3 DEF WithdrawReadHandoffs
  <2>3. new \in [pc: {"idle", "decision", "handoffs"}, decision: Decisions \cup {NoDecision}, handoffs: SUBSET Decisions]
      BY <2>1 DEF Idle
  <2>4. new.pc # "idle" => new.decision \in Decisions
      BY <1>3 DEF WithdrawReadHandoffs, Idle
  <2> HIDE DEF new
  <2>5. \A v \in Users: withdrawal'[v].pc # "idle" => withdrawal'[v].decision \in Decisions
      BY <2>2, <2>4
  <2>6. withdrawal' \in [Users -> [pc: {"idle", "decision", "handoffs"}, decision: Decisions \cup {NoDecision},
                                   handoffs: SUBSET Decisions]]
      BY <2>2, <2>3
  <2> QED BY <1>3, <2>5, <2>6 DEF WithdrawReadHandoffs
<1>4. ASSUME NEW u \in Users, WithdrawCommit(u)
      PROVE  TypeOK'
    BY <1>4 DEF WithdrawCommit, Idle
<1>5. ASSUME NEW i \in Instances, StartRound(i)
      PROVE  TypeOK'
  <2>1. \A w \in Workers: {[event |-> e, attempt |-> attempt[e]]: e \in Pollable(w)} \in SUBSET Claims
      BY DEF Pollable
  <2>2. batch' \in [Workers -> SUBSET Claims]
      BY <1>5, <2>1 DEF StartRound
  <2>3. \A w \in Workers: w[1] = i => pc[w] = "idle"
      BY <1>5 DEF StartRound, Workers
  <2> QED BY <1>5, <2>2, <2>3 DEF StartRound
<1>6. ASSUME NEW w \in Workers, NEW b \in batch[w], Claim(w, b)
      PROVE  TypeOK'
    BY <1>6 DEF Claim
<1>7. ASSUME NEW w \in Workers, NEW b \in batch[w], Skip(w, b)
      PROVE  TypeOK'
    BY <1>7 DEF Skip
<1>8. ASSUME NEW w \in Workers, Post(w)
      PROVE  TypeOK'
  <2>1. cur[w].event \in Decisions
      BY <1>8 DEF Post
  <2> QED BY <1>8, <2>1 DEF Post
<1>9. ASSUME NEW w \in Workers, SettleDispatched(w)
      PROVE  TypeOK'
  <2>1. status' \in [Decisions -> {"none", "pending", "sending", "dispatched", "failed", "cancelled"}]
      BY <1>9 DEF SettleDispatched
  <2>2. holder' \in [Decisions -> Workers \cup {NoWorker}] /\ lapsed' \in SUBSET Decisions
      BY <1>9 DEF SettleDispatched
  <2> QED BY <1>9, <2>1, <2>2 DEF SettleDispatched, NextInBatch
<1>10. ASSUME NEW w \in Workers, SettleFailed(w)
       PROVE  TypeOK'
  <2>1. late' \in SUBSET Decisions
      BY <1>10 DEF SettleFailed, Abandon
  <2>2. cur[w].attempt + 1 \in 0..MaxAttempts /\ cur[w].event \in Decisions
      BY <1>10 DEF SettleFailed
  <2>3. status' \in [Decisions -> {"none", "pending", "sending", "dispatched", "failed", "cancelled"}]
      BY <1>10 DEF SettleFailed
  <2>4. attempt' \in [Decisions -> 0..MaxAttempts] /\ due' \in [Decisions -> BOOLEAN]
    <3>1. CASE holder[cur[w].event] = w
      <4>1. attempt' = [attempt EXCEPT ![cur[w].event] = cur[w].attempt + 1]
            /\ due' = [due EXCEPT ![cur[w].event] = FALSE]
          BY <1>10, <3>1 DEF SettleFailed
      <4>2. attempt' \in [Decisions -> 0..MaxAttempts]
          BY <4>1, <2>2
      <4> QED BY <4>1, <4>2, Zenon
    <3>2. CASE holder[cur[w].event] # w
        BY <1>10, <3>2 DEF SettleFailed
    <3> QED BY <3>1, <3>2
  <2>5. holder' \in [Decisions -> Workers \cup {NoWorker}] /\ lapsed' \in SUBSET Decisions
      BY <1>10, <2>2 DEF SettleFailed
  <2> QED BY <1>10, <2>1, <2>3, <2>4, <2>5 DEF SettleFailed, NextInBatch
<1>11. ASSUME NEW w \in Workers, SettleError(w)
       PROVE  TypeOK'
  <2>1. late' \in SUBSET Decisions
      BY <1>11 DEF SettleError, Abandon
  <2> QED BY <1>11, <2>1 DEF SettleError, NextInBatch
<1>12. ASSUME NEW i \in Instances, FinishRound(i)
       PROVE  TypeOK'
  <2>1. \A w \in Workers: w[1] = i => pc[w] = "batch"
      BY <1>12 DEF FinishRound, Workers
  <2> QED BY <1>12, <2>1 DEF FinishRound
<1>13. ASSUME NEW e \in Decisions, BackoffElapses(e)
       PROVE  TypeOK'
    BY <1>13 DEF BackoffElapses
<1>14. ASSUME NEW e \in Decisions, LeaseLapses(e)
       PROVE  TypeOK'
    BY <1>14 DEF LeaseLapses
<1>15. ASSUME NEW w \in Workers, Accept(w) \/ Refuse(w)
       PROVE  TypeOK'
    BY <1>15 DEF Accept, Refuse
<1>16. ASSUME NEW e \in Decisions, LateArrival(e)
       PROVE  TypeOK'
    BY <1>16 DEF LateArrival
<1>17. ASSUME NEW i \in Instances, Crash(i)
       PROVE  TypeOK'
  <2>1. late' \in SUBSET Decisions
    <3> DEFINE sent == {w \in {v \in Workers: v[1] = i}: request[w] = "sent"}
    <3>1. late' = late \cup {cur[w].event: w \in sent}
        BY <1>17, Zenon DEF Crash, Abandon
    <3>2. \A w \in sent: cur[w].event \in Decisions
        OBVIOUS
    <3> QED BY <3>1, <3>2
  <2> QED BY <1>17, <2>1 DEF Crash
<1>18. ASSUME NEW e \in Decisions, Requeue(e)
       PROVE  TypeOK'
    BY <1>18 DEF Requeue
<1>19. CASE UNCHANGED vars
    BY <1>19 DEF vars
<1> QED BY <1>1, <1>2, <1>3, <1>4, <1>5, <1>6, <1>7, <1>8, <1>9, <1>10, <1>11, <1>12,
           <1>13, <1>14, <1>15, <1>16, <1>17, <1>18, <1>19
        DEF Next, Deciding, Dispatching, Surroundings

\* The variables always hold values of their types; a queue has something at
\* hand exactly while it is claiming, sending or settling it.
THEOREM TypeCorrect == Spec => []TypeOK
BY TypeInit, TypeStep, PTL DEF Spec

-----------------------------------------------------------------------------
(***************************************************************************)
(* The inductive invariant behind the safety properties.  Decisions of an  *)
(* application follow one another, each withdrawn before the next; only a  *)
(* decision in effect has a live event; a withdrawal about to commit read  *)
(* the very event of its decision; leases and `sending` go together.       *)
(***************************************************************************)
Chain ==
    /\ \A d \in Decisions: decision[d] = "none" => status[d] = "none"
    /\ \A d \in Decisions: decision[d] = "withdrawn" => status[d] \in {"none", "cancelled"}
    /\ \A d, e \in Decisions:
          d[1] = e[1] /\ d[2] < e[2] /\ decision[e] # "none" => decision[d] = "withdrawn"

WithdrawalRead ==
    \A u \in Users:
        LET d == withdrawal[u].decision IN
        /\ withdrawal[u].pc # "idle" => decision[d] # "none"
        /\ withdrawal[u].pc = "handoffs" /\ decision[d] = "approved" =>
              withdrawal[u].handoffs = {e \in {d}: status[e] # "none"}

Leases ==
    \A e \in Decisions: status[e] = "sending" <=> holder[e] # NoWorker

Taken ==
    /\ \A w \in Workers: request[w] = "accepted" => cur[w].event \in received
    /\ \A e \in Decisions: status[e] = "dispatched" => e \in received

SafeInv == TypeOK /\ Chain /\ WithdrawalRead /\ Leases /\ Taken

LEMMA SafeInit == Init => SafeInv
<1> SUFFICES ASSUME Init PROVE SafeInv
    OBVIOUS
<1>1. TypeOK
    BY TypeInit
<1>2. Chain /\ Leases
    BY DEF Init, Chain, Leases
<1>3. WithdrawalRead /\ Taken
    BY DEF Init, WithdrawalRead, Taken, Idle
<1> QED BY <1>1, <1>2, <1>3 DEF SafeInv

LEMMA ChainStep == SafeInv /\ [Next]_vars => Chain'
<1> SUFFICES ASSUME SafeInv, [Next]_vars PROVE Chain'
    OBVIOUS
<1> USE HandoffAssumption, ClaimsAreNotNoClaim DEF SafeInv, TypeOK, Chain, Claims
<1>1. CASE UNCHANGED <<decision, status>>
    BY <1>1
<1>2. ASSUME NEW d \in Decisions, NEW t \in Destinations \cup {"nobody"}, Record(d, t)
      PROVE  Chain'
  <2>1. \A e \in Decisions: e[1] = d[1] /\ e[2] < d[2] => decision[e] = "withdrawn"
    <3> SUFFICES ASSUME NEW e \in Decisions, e[1] = d[1], e[2] < d[2]
                 PROVE  decision[e] = "withdrawn"
        OBVIOUS
    <3>1. e = <<d[1], e[2]>> /\ e[2] \in 1..(d[2] - 1)
        BY DEF Decisions
    <3> QED BY <1>2, <3>1 DEF Record, IsNextDecision
  <2>2. \A e \in Decisions: e[1] = d[1] /\ d[2] < e[2] => decision[e] = "none"
      BY <1>2 DEF Record, IsNextDecision
  <2>3. decision' = [decision EXCEPT ![d] = "approved"] /\ decision[d] = "none"
      BY <1>2 DEF Record, IsNextDecision
  <2>4. \A e \in Decisions: e # d => status'[e] = status[e]
      BY <1>2 DEF Record
  <2>5. \A e, f \in Decisions:
          e[1] = f[1] /\ e[2] < f[2] /\ decision'[f] # "none" => decision'[e] = "withdrawn"
    <3> SUFFICES ASSUME NEW e \in Decisions, NEW f \in Decisions, e[1] = f[1], e[2] < f[2], decision'[f] # "none"
                 PROVE  decision'[e] = "withdrawn"
        OBVIOUS
    <3>1. CASE f = d
        BY <3>1, <2>1, <2>3 DEF Decisions
    <3>2. CASE f # d /\ e = d
        BY <3>2, <2>2, <2>3
    <3>3. CASE f # d /\ e # d
        BY <3>3, <2>3
    <3> QED BY <3>1, <3>2, <3>3
  <2> QED BY <2>3, <2>4, <2>5
<1>3. ASSUME NEW u \in Users, WithdrawCommit(u)
      PROVE  Chain'
  <2> DEFINE d == withdrawal[u].decision
  <2>1. CASE ~CanWithdraw(u)
      BY <1>3, <2>1 DEF WithdrawCommit
  <2>2. CASE CanWithdraw(u)
    <3>1. /\ d \in Decisions
          /\ decision[d] = "approved"
          /\ withdrawal[u].handoffs = {e \in {d}: status[e] # "none"}
        BY <1>3, <2>2 DEF WithdrawCommit, CanWithdraw, WithdrawalRead
    <3>2. decision' = [decision EXCEPT ![d] = "withdrawn"]
        BY <1>3, <2>2 DEF WithdrawCommit
    <3>3. \A e \in Decisions: status'[e] = IF e = d /\ status[d] # "none" THEN "cancelled" ELSE status[e]
      <4>1. status' = [e \in Decisions |-> IF e \in withdrawal[u].handoffs THEN "cancelled" ELSE status[e]]
          BY <1>3, <2>2, Zenon DEF WithdrawCommit
      <4> QED BY <4>1, <3>1
    <3> HIDE DEF d
    <3> QED BY <3>1, <3>2, <3>3
  <2> QED BY <2>1, <2>2
<1>4. ASSUME decision' = decision, NEW e \in Decisions, NEW to \in {"pending", "sending", "dispatched", "failed"},
             status[e] \in {"pending", "sending", "failed"}, status' = [status EXCEPT ![e] = to]
      PROVE  Chain'
    BY <1>4
<1>5. ASSUME NEW w \in Workers, NEW b \in batch[w], Claim(w, b)
      PROVE  Chain'
    BY <1>4, <1>5 DEF Claim, Claimable
<1>6. ASSUME NEW w \in Workers, SettleDispatched(w)
      PROVE  Chain'
  <2>1. CASE holder[cur[w].event] # w
      BY <1>1, <1>6, <2>1 DEF SettleDispatched
  <2>2. CASE holder[cur[w].event] = w
    <3>1. cur[w].event \in Decisions /\ status[cur[w].event] = "sending"
        BY <1>6, <2>2 DEF SettleDispatched, Leases
    <3> QED BY <1>4, <1>6, <2>2, <3>1 DEF SettleDispatched
  <2> QED BY <2>1, <2>2
<1>7. ASSUME NEW w \in Workers, SettleFailed(w)
      PROVE  Chain'
  <2>1. CASE holder[cur[w].event] # w
      BY <1>1, <1>7, <2>1 DEF SettleFailed
  <2>2. CASE holder[cur[w].event] = w
    <3>1. cur[w].event \in Decisions /\ status[cur[w].event] = "sending"
        BY <1>7, <2>2 DEF SettleFailed, Leases
    <3> QED BY <1>4, <1>7, <2>2, <3>1 DEF SettleFailed
  <2> QED BY <2>1, <2>2
<1>8. ASSUME NEW e \in Decisions, Requeue(e)
      PROVE  Chain'
    BY <1>4, <1>8 DEF Requeue
<1> QED BY <1>1, <1>2, <1>3, <1>5, <1>6, <1>7, <1>8
        DEF Next, vars, events, Deciding, Dispatching, Surroundings, WithdrawReadDecision, WithdrawReadHandoffs,
            StartRound, Skip, Post, SettleError, FinishRound, BackoffElapses, LeaseLapses, Accept, Refuse,
            LateArrival, Crash

LEMMA LeasesStep == SafeInv /\ [Next]_vars => Leases'
<1> SUFFICES ASSUME SafeInv, [Next]_vars PROVE Leases'
    OBVIOUS
<1> USE HandoffAssumption, ClaimsAreNotNoClaim DEF SafeInv, TypeOK, Leases, Claims
<1>1. CASE UNCHANGED <<status, holder>>
    BY <1>1
<1>2. ASSUME NEW d \in Decisions, NEW t \in Destinations \cup {"nobody"}, Record(d, t)
      PROVE  Leases'
    BY <1>2 DEF Record, IsNextDecision, Chain
<1>3. ASSUME NEW u \in Users, WithdrawCommit(u)
      PROVE  Leases'
  <2>1. CASE ~CanWithdraw(u)
      BY <1>3, <2>1 DEF WithdrawCommit
  <2>2. CASE CanWithdraw(u)
    <3>1. status' = [e \in Decisions |-> IF e \in withdrawal[u].handoffs THEN "cancelled" ELSE status[e]]
        BY <1>3, <2>2, Zenon DEF WithdrawCommit
    <3>2. holder' = holder /\ \A e \in withdrawal[u].handoffs: status[e] # "sending"
        BY <1>3, <2>2 DEF WithdrawCommit, CanWithdraw
    <3> QED BY <3>1, <3>2
  <2> QED BY <2>1, <2>2
<1>4. ASSUME NEW w \in Workers, NEW b \in batch[w], Claim(w, b)
      PROVE  Leases'
    BY <1>4 DEF Claim
<1>5. ASSUME NEW w \in Workers, SettleDispatched(w)
      PROVE  Leases'
    BY <1>5 DEF SettleDispatched
<1>6. ASSUME NEW w \in Workers, SettleFailed(w)
      PROVE  Leases'
  <2>1. CASE holder[cur[w].event] # w
      BY <1>6, <2>1 DEF SettleFailed
  <2>2. CASE holder[cur[w].event] = w
    <3> DEFINE e == cur[w].event
               to == IF cur[w].attempt + 1 >= MaxAttempts THEN "failed" ELSE "pending"
    <3>1. status' = [status EXCEPT ![e] = to] /\ holder' = [holder EXCEPT ![e] = NoWorker]
        BY <1>6, <2>2 DEF SettleFailed
    <3>2. to # "sending"
        OBVIOUS
    <3> HIDE DEF to
    <3> QED BY <3>1, <3>2
  <2> QED BY <2>1, <2>2
<1>7. ASSUME NEW e \in Decisions, Requeue(e)
      PROVE  Leases'
    BY <1>7 DEF Requeue
<1> QED BY <1>1, <1>2, <1>3, <1>4, <1>5, <1>6, <1>7
        DEF Next, vars, events, Deciding, Dispatching, Surroundings, WithdrawReadDecision, WithdrawReadHandoffs,
            StartRound, Skip, Post, SettleError, FinishRound, BackoffElapses, LeaseLapses, Accept, Refuse,
            LateArrival, Crash

LEMMA WithdrawalReadStep == SafeInv /\ [Next]_vars => WithdrawalRead'
<1> SUFFICES ASSUME SafeInv, [Next]_vars, NEW v \in Users
             PROVE  LET d == withdrawal'[v].decision IN
                    /\ withdrawal'[v].pc # "idle" => decision'[d] # "none"
                    /\ withdrawal'[v].pc = "handoffs" /\ decision'[d] = "approved" =>
                          withdrawal'[v].handoffs = {e \in {d}: status'[e] # "none"}
    BY DEF WithdrawalRead
<1> DEFINE Goal == LET d == withdrawal'[v].decision IN
                    /\ withdrawal'[v].pc # "idle" => decision'[d] # "none"
                    /\ withdrawal'[v].pc = "handoffs" /\ decision'[d] = "approved" =>
                          withdrawal'[v].handoffs = {e \in {d}: status'[e] # "none"}
<1> USE HandoffAssumption, ClaimsAreNotNoClaim DEF SafeInv, TypeOK, WithdrawalRead, Claims
<1>1. CASE UNCHANGED <<decision, status, withdrawal>>
    BY <1>1
<1>2. ASSUME NEW d \in Decisions, NEW t \in Destinations \cup {"nobody"}, Record(d, t)
      PROVE  Goal
  <2>1. decision[d] = "none" /\ withdrawal' = withdrawal
      BY <1>2 DEF Record, IsNextDecision
  <2>2. \A e \in Decisions: e # d => decision'[e] = decision[e] /\ status'[e] = status[e]
      BY <1>2 DEF Record
  <2>3. withdrawal[v].pc # "idle" => withdrawal[v].decision \in Decisions /\ withdrawal[v].decision # d
      BY <2>1
  <2> QED BY <2>1, <2>2, <2>3
<1>3. ASSUME NEW u \in Users, NEW d \in Decisions, WithdrawReadDecision(u, d)
      PROVE  Goal
  <2>1. withdrawal' = [withdrawal EXCEPT ![u] = [pc |-> "decision", decision |-> d, handoffs |-> {}]]
      BY <1>3 DEF WithdrawReadDecision
  <2>2. decision[d] = "approved" /\ UNCHANGED <<decision, status>>
      BY <1>3 DEF WithdrawReadDecision, events
  <2>3. CASE v = u
      BY <2>1, <2>2, <2>3
  <2>4. CASE v # u
      BY <2>1, <2>2, <2>4
  <2> QED BY <2>3, <2>4
<1>4. ASSUME NEW u \in Users, WithdrawReadHandoffs(u)
      PROVE  Goal
  <2> DEFINE d == withdrawal[u].decision
  <2>1. d \in Decisions /\ decision[d] # "none" /\ UNCHANGED <<decision, status>>
      BY <1>4 DEF WithdrawReadHandoffs, events
  <2>2. decision[d] = "approved" => HandoffsSince(d) = {e \in {d}: status[e] # "none"}
    <3> SUFFICES ASSUME decision[d] = "approved", NEW e \in Decisions,
                        e[1] = d[1], e[2] >= d[2], status[e] # "none"
                 PROVE  e = d
        BY <2>1 DEF HandoffsSince, Decisions
    <3>1. ~ d[2] < e[2]
        BY <2>1 DEF Chain
    <3>2. e[2] \in Nat /\ d[2] \in Nat
        BY <2>1 DEF Decisions
    <3>3. e = <<e[1], e[2]>> /\ d = <<d[1], d[2]>>
        BY <2>1 DEF Decisions
    <3>4. e[2] = d[2]
      <4>1. \A m, n \in Nat: m >= n /\ ~(n < m) => m = n
          OBVIOUS
      <4> HIDE DEF d
      <4> QED BY <3>1, <3>2, <4>1
    <3> QED BY <3>3, <3>4
  <2>3. \/ withdrawal' = [withdrawal EXCEPT ![u] = Idle]
        \/ withdrawal' = [withdrawal EXCEPT ![u] =
               [pc |-> "handoffs", decision |-> d, handoffs |-> HandoffsSince(d)]]
      BY <1>4 DEF WithdrawReadHandoffs
  <2> HIDE DEF d
  <2>4. CASE withdrawal' = [withdrawal EXCEPT ![u] = Idle]
      BY <2>1, <2>4 DEF Idle
  <2>5. CASE withdrawal' = [withdrawal EXCEPT ![u] =
               [pc |-> "handoffs", decision |-> d, handoffs |-> HandoffsSince(d)]]
      BY <2>1, <2>2, <2>5
  <2> QED BY <2>3, <2>4, <2>5
<1>5. ASSUME NEW u \in Users, WithdrawCommit(u)
      PROVE  Goal
  <2>1. withdrawal' = [withdrawal EXCEPT ![u] = Idle]
      BY <1>5 DEF WithdrawCommit
  <2>2. CASE ~CanWithdraw(u)
      BY <1>5, <2>1, <2>2 DEF WithdrawCommit, Idle
  <2>3. CASE CanWithdraw(u)
    <3> DEFINE d == withdrawal[u].decision
    <3>1. d \in Decisions /\ decision[d] = "approved" /\ withdrawal[u].handoffs \subseteq {d}
        BY <1>5, <2>3 DEF WithdrawCommit, CanWithdraw
    <3>2. decision' = [decision EXCEPT ![d] = "withdrawn"]
        BY <1>5, <2>3 DEF WithdrawCommit
    <3>3. status' = [e \in Decisions |-> IF e \in withdrawal[u].handoffs THEN "cancelled" ELSE status[e]]
        BY <1>5, <2>3, Zenon DEF WithdrawCommit
    <3> HIDE DEF d
    <3>4. \A e \in Decisions: e # d => decision'[e] = decision[e] /\ status'[e] = status[e]
        BY <3>1, <3>2, <3>3
    <3>5. decision'[d] = "withdrawn"
        BY <3>1, <3>2
    <3> QED BY <2>1, <3>4, <3>5 DEF Idle
  <2> QED BY <2>2, <2>3
<1>6. ASSUME decision' = decision, withdrawal' = withdrawal, NEW e \in Decisions,
             NEW to \in {"pending", "sending", "dispatched", "failed"},
             status[e] # "none", status' = [status EXCEPT ![e] = to]
      PROVE  Goal
    BY <1>6
<1>7. ASSUME NEW w \in Workers, NEW b \in batch[w], Claim(w, b)
      PROVE  Goal
    BY <1>6, <1>7 DEF Claim, Claimable
<1>8. ASSUME NEW w \in Workers, SettleDispatched(w) \/ SettleFailed(w)
      PROVE  Goal
  <2>1. CASE holder[cur[w].event] # w
      BY <1>1, <1>8, <2>1 DEF SettleDispatched, SettleFailed
  <2>2. CASE holder[cur[w].event] = w
    <3>1. cur[w].event \in Decisions /\ status[cur[w].event] = "sending"
        BY <1>8, <2>2 DEF SettleDispatched, SettleFailed, Leases
    <3>2. CASE SettleDispatched(w)
        BY <1>6, <2>2, <3>1, <3>2 DEF SettleDispatched
    <3>3. CASE SettleFailed(w)
        BY <1>6, <2>2, <3>1, <3>3 DEF SettleFailed
    <3> QED BY <1>8, <3>2, <3>3
  <2> QED BY <2>1, <2>2
<1>9. ASSUME NEW e \in Decisions, Requeue(e)
      PROVE  Goal
    BY <1>6, <1>9 DEF Requeue
<1> QED BY <1>1, <1>2, <1>3, <1>4, <1>5, <1>7, <1>8, <1>9
        DEF Next, vars, events, Deciding, Dispatching, Surroundings, StartRound, Skip, Post, SettleError,
            FinishRound, BackoffElapses, LeaseLapses, Accept, Refuse, LateArrival, Crash

LEMMA TakenStep == SafeInv /\ [Next]_vars => Taken'
<1> SUFFICES ASSUME SafeInv, [Next]_vars PROVE Taken'
    OBVIOUS
<1> USE HandoffAssumption, ClaimsAreNotNoClaim DEF SafeInv, TypeOK, Taken, Claims, Leases
<1>1. received \subseteq received'
    BY ZenonT(60) DEF Next, vars, events, queues, world, Deciding, Dispatching, Surroundings, Record, WithdrawReadDecision,
           WithdrawReadHandoffs, WithdrawCommit, StartRound, Claim, Skip, Post, SettleDispatched, SettleFailed,
           SettleError, FinishRound, BackoffElapses, LeaseLapses, Accept, Refuse, LateArrival, Crash, Requeue
<1>2. ASSUME NEW v \in Workers, request'[v] = "accepted"
      PROVE  cur'[v].event \in received'
  <2>1. CASE UNCHANGED <<request, cur>>
      BY <1>1, <1>2, <2>1
  <2>2. ASSUME NEW w \in Workers, NEW b \in batch[w], Claim(w, b)
        PROVE  cur'[v].event \in received'
      BY <1>1, <1>2, <2>2 DEF Claim
  <2>3. ASSUME NEW w \in Workers, Post(w) \/ Accept(w) \/ Refuse(w)
        PROVE  cur'[v].event \in received'
      BY <1>1, <1>2, <2>3 DEF Post, Accept, Refuse
  <2>4. ASSUME NEW w \in Workers, NextInBatch(w)
        PROVE  cur'[v].event \in received'
      BY <1>1, <1>2, <2>4 DEF NextInBatch
  <2>5. ASSUME NEW i \in Instances, Crash(i)
        PROVE  cur'[v].event \in received'
      BY <1>1, <1>2, <2>5 DEF Crash
  <2> QED BY <2>1, <2>2, <2>3, <2>4, <2>5
          DEF Next, vars, events, queues, Deciding, Dispatching, Surroundings, Record, WithdrawReadDecision,
              WithdrawReadHandoffs, WithdrawCommit, StartRound, Skip, SettleDispatched, SettleFailed, SettleError,
              FinishRound, BackoffElapses, LeaseLapses, LateArrival, Requeue
<1>3. ASSUME NEW e \in Decisions, status'[e] = "dispatched"
      PROVE  e \in received'
  <2>1. CASE status[e] = "dispatched"
      BY <1>1, <2>1
  <2>2. CASE status[e] # "dispatched"
    <3>1. ASSUME NEW w \in Workers, SettleDispatched(w)
          PROVE  e \in received'
        BY <1>1, <1>3, <2>2, <3>1 DEF SettleDispatched
    <3>2. ASSUME NEW w \in Workers, SettleFailed(w)
          PROVE  e \in received'
        BY <1>1, <1>3, <2>2, <3>2 DEF SettleFailed
    <3>3. ASSUME NEW u \in Users, WithdrawCommit(u)
          PROVE  e \in received'
        BY <1>3, <2>2, <3>3 DEF WithdrawCommit
    <3>4. ASSUME NEW w \in Workers, NEW b \in batch[w], Claim(w, b)
          PROVE  e \in received'
        BY <1>3, <2>2, <3>4 DEF Claim
    <3>5. ASSUME NEW d \in Decisions, NEW t \in Destinations \cup {"nobody"}, Record(d, t)
          PROVE  e \in received'
        BY <1>3, <2>2, <3>5 DEF Record
    <3>6. ASSUME NEW d \in Decisions, Requeue(d)
          PROVE  e \in received'
        BY <1>3, <2>2, <3>6 DEF Requeue
    <3>7. CASE UNCHANGED status
        BY <1>3, <2>2, <3>7
    <3> QED BY <3>1, <3>2, <3>3, <3>4, <3>5, <3>6, <3>7
            DEF Next, vars, events, Deciding, Dispatching, Surroundings, WithdrawReadDecision,
                WithdrawReadHandoffs, StartRound, Skip, Post, SettleError, FinishRound, BackoffElapses,
                LeaseLapses, Accept, Refuse, LateArrival, Crash
  <2> QED BY <2>1, <2>2
<1> QED BY <1>2, <1>3

LEMMA SafeAlways == Spec => []SafeInv
<1>1. SafeInv /\ [Next]_vars => SafeInv'
    BY TypeStep, ChainStep, WithdrawalReadStep, LeasesStep, TakenStep DEF SafeInv
<1> QED BY SafeInit, <1>1, PTL DEF Spec

\* At most one handoff of an application is in force, whatever leases do.
THEOREM OneHandoff == Spec => []OneHandoffInForce
<1>1. SafeInv => OneHandoffInForce
  <2> SUFFICES ASSUME SafeInv, NEW d \in Decisions, NEW e \in Decisions, d[1] = e[1],
                      status[d] \notin {"none", "cancelled"}, status[e] \notin {"none", "cancelled"}
               PROVE  d = e
      BY DEF OneHandoffInForce
  <2>1. decision[d] = "approved" /\ decision[e] = "approved"
      BY DEF SafeInv, TypeOK, Chain
  <2>2. ~(d[2] < e[2]) /\ ~(e[2] < d[2])
      BY <2>1 DEF SafeInv, Chain
  <2>3. d[2] \in Nat /\ e[2] \in Nat /\ d = <<d[1], d[2]>> /\ e = <<e[1], e[2]>>
      BY DEF Decisions
  <2>4. d[2] = e[2]
      BY <2>2, <2>3
  <2> QED BY <2>3, <2>4
<1> QED BY SafeAlways, <1>1, PTL

\* A handoff is reported as sent only when its destination has taken it.
THEOREM DispatchedReceived == Spec => []DispatchedWasReceived
<1>1. SafeInv => DispatchedWasReceived
    BY DEF SafeInv, Taken, DispatchedWasReceived
<1> QED BY SafeAlways, <1>1, PTL

\* A dispatched or cancelled event keeps that state, whatever leases do: only
\* the holder of the current token settles, and an event with a holder is
\* `sending`.
THEOREM FinalStatesStay == Spec => FinalStateStays
<1>1. SafeInv /\ [Next]_vars =>
        [\A e \in Decisions: status[e] \in {"dispatched", "cancelled"} => status'[e] = status[e]]_vars
  <2> SUFFICES ASSUME SafeInv, [Next]_vars, NEW e \in Decisions, status[e] \in {"dispatched", "cancelled"}
               PROVE  status'[e] = status[e]
      OBVIOUS
  <2> USE HandoffAssumption, ClaimsAreNotNoClaim DEF SafeInv, TypeOK, Leases, Claims
  <2>1. holder[e] = NoWorker /\ NoWorker \notin Workers
      OBVIOUS
  <2>2. CASE UNCHANGED status
      BY <2>2
  <2>3. ASSUME NEW d \in Decisions, NEW t \in Destinations \cup {"nobody"}, Record(d, t)
        PROVE  status'[e] = status[e]
    <3>1. status[d] = "none"
        BY <2>3 DEF Record, IsNextDecision, Chain
    <3> QED BY <2>3, <3>1 DEF Record
  <2>4. ASSUME NEW u \in Users, WithdrawCommit(u)
        PROVE  status'[e] = status[e]
    <3>1. CASE CanWithdraw(u)
        BY <2>4, <3>1 DEF WithdrawCommit, CanWithdraw
    <3>2. CASE ~CanWithdraw(u)
        BY <2>4, <3>2 DEF WithdrawCommit
    <3> QED BY <3>1, <3>2
  <2>5. ASSUME NEW w \in Workers, NEW b \in batch[w], Claim(w, b)
        PROVE  status'[e] = status[e]
      BY <2>5 DEF Claim, Claimable
  <2>6. ASSUME NEW w \in Workers, SettleDispatched(w)
        PROVE  status'[e] = status[e]
    <3>1. CASE holder[cur[w].event] = w
        BY <2>1, <2>6, <3>1 DEF SettleDispatched
    <3>2. CASE holder[cur[w].event] # w
        BY <2>6, <3>2 DEF SettleDispatched
    <3> QED BY <3>1, <3>2
  <2>7. ASSUME NEW w \in Workers, SettleFailed(w)
        PROVE  status'[e] = status[e]
    <3>1. CASE holder[cur[w].event] = w
        BY <2>1, <2>7, <3>1 DEF SettleFailed
    <3>2. CASE holder[cur[w].event] # w
        BY <2>7, <3>2 DEF SettleFailed
    <3> QED BY <3>1, <3>2
  <2>8. ASSUME NEW f \in Decisions, Requeue(f)
        PROVE  status'[e] = status[e]
      BY <2>8 DEF Requeue
  <2> QED BY <2>2, <2>3, <2>4, <2>5, <2>6, <2>7, <2>8
          DEF Next, vars, events, Deciding, Dispatching, Surroundings, WithdrawReadDecision,
              WithdrawReadHandoffs, StartRound, Skip, Post, SettleError, FinishRound, BackoffElapses,
              LeaseLapses, Accept, Refuse, LateArrival, Crash
<1> QED BY SafeAlways, <1>1, PTL DEF Spec, FinalStateStays

-----------------------------------------------------------------------------
\* A withdrawal cancels the event of the decision it withdraws and no other: the
\* handoffs it read were those of that decision, or it no longer is in effect.
LEMMA KeptStep == SafeInv /\ ActiveHandoffKept /\ [Next]_vars => ActiveHandoffKept'
<1> SUFFICES ASSUME SafeInv, ActiveHandoffKept, [Next]_vars,
                    NEW d \in Decisions, decision'[d] = "approved", goesTo'[d] # "nobody"
             PROVE  status'[d] \notin {"none", "cancelled"}
    BY DEF ActiveHandoffKept
<1> DEFINE Kept == status'[d] \notin {"none", "cancelled"}
<1> USE HandoffAssumption, ClaimsAreNotNoClaim DEF SafeInv, TypeOK, ActiveHandoffKept, Claims
<1>1. CASE UNCHANGED <<decision, goesTo, status>>
    BY <1>1
<1>2. ASSUME NEW e \in Decisions, NEW t \in Destinations \cup {"nobody"}, Record(e, t)
      PROVE  Kept
    BY <1>2 DEF Record
<1>3. ASSUME NEW u \in Users, WithdrawCommit(u)
      PROVE  Kept
  <2> DEFINE w == withdrawal[u].decision
  <2>1. CASE ~CanWithdraw(u)
      BY <1>3, <2>1 DEF WithdrawCommit
  <2>2. CASE CanWithdraw(u)
    <3>1. /\ w \in Decisions /\ decision[w] = "approved"
          /\ withdrawal[u].handoffs = {e \in {w}: status[e] # "none"}
        BY <1>3, <2>2 DEF WithdrawCommit, CanWithdraw, WithdrawalRead
    <3>2. decision' = [decision EXCEPT ![w] = "withdrawn"] /\ goesTo' = goesTo
        BY <1>3, <2>2 DEF WithdrawCommit
    <3>3. d # w
        BY <3>1, <3>2
    <3>4. status'[d] = status[d]
      <4>1. status' = [e \in Decisions |-> IF e \in withdrawal[u].handoffs THEN "cancelled" ELSE status[e]]
          BY <1>3, <2>2, Zenon DEF WithdrawCommit
      <4> QED BY <3>1, <3>3, <4>1
    <3> QED BY <3>2, <3>3, <3>4
  <2> QED BY <2>1, <2>2
<1>4. ASSUME NEW w \in Workers, NEW b \in batch[w], Claim(w, b)
      PROVE  Kept
    BY <1>4 DEF Claim
<1>5. ASSUME NEW w \in Workers, SettleDispatched(w)
      PROVE  Kept
    BY <1>5 DEF SettleDispatched
<1>6. ASSUME NEW w \in Workers, SettleFailed(w)
      PROVE  Kept
    BY <1>6 DEF SettleFailed
<1>7. ASSUME NEW e \in Decisions, Requeue(e)
      PROVE  Kept
    BY <1>7 DEF Requeue
<1> QED BY <1>1, <1>2, <1>3, <1>4, <1>5, <1>6, <1>7
        DEF Next, vars, events, Deciding, Dispatching, Surroundings, WithdrawReadDecision, WithdrawReadHandoffs,
            StartRound, Skip, Post, SettleError, FinishRound, BackoffElapses, LeaseLapses, Accept, Refuse,
            LateArrival, Crash

\* A decision in effect keeps its handoff: no withdrawal that began against an
\* earlier decision of the application, and no settlement, takes it away.
THEOREM HandoffsAreKept == Spec => []ActiveHandoffKept
<1>1. Init => ActiveHandoffKept
    BY DEF Init, ActiveHandoffKept
<1> QED BY SafeAlways, KeptStep, <1>1, PTL DEF Spec

-----------------------------------------------------------------------------
(***************************************************************************)
(* With leases that outlive a delivery: whoever is sending an event holds  *)
(* it, under a lease that has not passed.                                  *)
(***************************************************************************)
Sole ==
    \A w \in Workers, e \in Decisions:
        Sending(w, e) => status[e] = "sending" /\ holder[e] = w /\ e \notin lapsed

LEMMA SoleStep ==
    ASSUME LeaseOutlivesSend, SafeInv, Sole, [Next]_vars
    PROVE  Sole'
<1> SUFFICES ASSUME NEW v \in Workers, NEW f \in Decisions, Sending(v, f)'
             PROVE  status'[f] = "sending" /\ holder'[f] = v /\ f \notin lapsed'
    BY DEF Sole
<1> DEFINE Held == status'[f] = "sending" /\ holder'[f] = v /\ f \notin lapsed'
<1> USE HandoffAssumption, ClaimsAreNotNoClaim DEF SafeInv, TypeOK, Sole, Sending, Claims
<1>1. CASE UNCHANGED <<pc, cur, status, holder, lapsed>>
    BY <1>1
<1>2. ASSUME NEW d \in Decisions, NEW t \in Destinations \cup {"nobody"}, Record(d, t)
      PROVE  Held
  <2>1. status[d] = "none"
      BY <1>2 DEF Record, IsNextDecision, Chain
  <2> QED BY <1>2, <2>1 DEF Record, queues
<1>3. ASSUME NEW u \in Users, WithdrawCommit(u)
      PROVE  Held
  <2>1. UNCHANGED <<pc, cur, holder, lapsed>>
      BY <1>3 DEF WithdrawCommit, queues
  <2>2. status[f] = "sending" => status'[f] = "sending"
      BY <1>3 DEF WithdrawCommit, CanWithdraw
  <2> QED BY <2>1, <2>2
<1>4. ASSUME NEW i \in Instances, StartRound(i)
      PROVE  Held
    BY <1>4 DEF StartRound, events
<1>5. ASSUME NEW w \in Workers, NEW b \in batch[w], Claim(w, b)
      PROVE  Held
  <2>1. b.event \in Decisions
      OBVIOUS
  <2>2. CASE v = w
    <3>1. f = b.event
        BY <1>5, <2>2 DEF Claim
    <3> QED BY <1>5, <2>1, <2>2, <3>1 DEF Claim
  <2>3. CASE v # w
    <3>1. Sending(v, f)
        BY <1>5, <2>3 DEF Claim
    <3>2. f # b.event
        BY <1>5, <3>1 DEF Claim, Claimable
    <3> QED BY <1>5, <2>1, <3>1, <3>2 DEF Claim
  <2> QED BY <2>2, <2>3
<1>6. ASSUME NEW w \in Workers, Post(w)
      PROVE  Held
    BY <1>6 DEF Post, events
<1>7. ASSUME NEW w \in Workers, SettleDispatched(w)
      PROVE  Held
  <2>1. v # w /\ Sending(v, f)
      BY <1>7 DEF SettleDispatched, NextInBatch
  <2>2. CASE holder[cur[w].event] = w
      BY <1>7, <2>1, <2>2 DEF SettleDispatched
  <2>3. CASE holder[cur[w].event] # w
      BY <1>7, <2>1, <2>3 DEF SettleDispatched
  <2> QED BY <2>2, <2>3
<1>8. ASSUME NEW w \in Workers, SettleFailed(w)
      PROVE  Held
  <2>1. v # w /\ Sending(v, f)
      BY <1>8 DEF SettleFailed, NextInBatch
  <2>2. f # cur[w].event \/ holder[cur[w].event] # w
      BY <2>1
  <2>3. status'[f] = status[f] /\ holder'[f] = holder[f] /\ (f \in lapsed' => f \in lapsed)
    <3>1. CASE holder[cur[w].event] # w
        BY <1>8, <3>1 DEF SettleFailed
    <3>2. CASE holder[cur[w].event] = w
        BY <1>8, <2>2, <3>2 DEF SettleFailed
    <3> QED BY <3>1, <3>2
  <2> QED BY <2>1, <2>3
<1>9. ASSUME NEW w \in Workers, SettleError(w)
      PROVE  Held
    BY <1>9 DEF SettleError, NextInBatch, events
<1>10. ASSUME NEW i \in Instances, FinishRound(i)
       PROVE  Held
    BY <1>10 DEF FinishRound, events
<1>11. ASSUME NEW e \in Decisions, LeaseLapses(e)
       PROVE  Held
    BY <1>11 DEF LeaseLapses, queues
<1>12. ASSUME NEW i \in Instances, Crash(i)
       PROVE  Held
    BY <1>12, SMTT(30) DEF Crash, events
<1>13. ASSUME NEW e \in Decisions, Requeue(e)
       PROVE  Held
    BY <1>13 DEF Requeue, queues
<1> QED BY <1>1, <1>2, <1>3, <1>4, <1>5, <1>6, <1>7, <1>8, <1>9, <1>10, <1>11, <1>12, <1>13
        DEF Next, vars, events, queues, Deciding, Dispatching, Surroundings, WithdrawReadDecision,
            WithdrawReadHandoffs, Skip, BackoffElapses, Accept, Refuse, LateArrival

LEMMA SoleAlways == LeaseOutlivesSend => (Spec => [](SafeInv /\ Sole))
<1> SUFFICES ASSUME LeaseOutlivesSend PROVE Spec => [](SafeInv /\ Sole)
    OBVIOUS
<1>1. Init => Sole
    BY DEF Init, Sole, Sending
<1>2. SafeInv /\ Sole /\ [Next]_vars => Sole'
    BY SoleStep
<1> QED BY SafeAlways, <1>1, <1>2, PTL DEF Spec

\* Two dispatchers never both send an event, as long as leases outlive deliveries.
THEOREM NeverTwoSenders == LeaseOutlivesSend => (Spec => []SingleSender)
<1> SUFFICES ASSUME LeaseOutlivesSend PROVE Spec => []SingleSender
    OBVIOUS
<1>1. Sole => SingleSender
    BY DEF Sole, SingleSender
<1> QED BY SoleAlways, <1>1, PTL

\* Once withdrawn, a decision is never announced: its event is cancelled and no
\* dispatcher has it in hand.
THEOREM WithdrawnStaysSilent == LeaseOutlivesSend => (Spec => []WithdrawnIsSilent)
<1> SUFFICES ASSUME LeaseOutlivesSend PROVE Spec => []WithdrawnIsSilent
    OBVIOUS
<1>1. SafeInv /\ Sole => WithdrawnIsSilent
  <2> SUFFICES ASSUME SafeInv, Sole, NEW d \in Decisions, decision[d] = "withdrawn"
               PROVE  status[d] \in {"none", "cancelled"} /\ \A w \in Workers: ~Sending(w, d)
      BY DEF WithdrawnIsSilent
  <2>1. status[d] \in {"none", "cancelled"}
      BY DEF SafeInv, Chain
  <2> QED BY <2>1 DEF Sole
<1> QED BY SoleAlways, <1>1, PTL

-----------------------------------------------------------------------------
(***************************************************************************)
(* The outbox implements the promise of HandoffDelivery.                   *)
(***************************************************************************)
Offered ==
    /\ \A w \in Workers: pc[w] = "posted" => cur[w].event \in posted
    /\ late \subseteq posted

LEMMA OfferedStep == SafeInv /\ Offered /\ [Next]_vars => Offered'
<1> SUFFICES ASSUME SafeInv, Offered, [Next]_vars PROVE Offered'
    OBVIOUS
<1> USE HandoffAssumption, ClaimsAreNotNoClaim DEF SafeInv, TypeOK, Claims
<1>1. posted \subseteq posted'
    BY ZenonT(60) DEF Next, vars, events, queues, world, Deciding, Dispatching, Surroundings, Record, WithdrawReadDecision,
           WithdrawReadHandoffs, WithdrawCommit, StartRound, Claim, Skip, Post, SettleDispatched, SettleFailed,
           SettleError, FinishRound, BackoffElapses, LeaseLapses, Accept, Refuse, LateArrival, Crash, Requeue
<1>2. ASSUME NEW v \in Workers, pc'[v] = "posted"
      PROVE  cur'[v].event \in posted'
  <2>1. CASE UNCHANGED <<pc, cur>>
      BY <1>1, <1>2, <2>1 DEF Offered
  <2>2. ASSUME NEW i \in Instances, StartRound(i) \/ FinishRound(i) \/ Crash(i)
        PROVE  cur'[v].event \in posted'
      BY <1>1, <1>2, <2>2 DEF Offered, StartRound, FinishRound, Crash
  <2>3. ASSUME NEW w \in Workers, NEW b \in batch[w], Claim(w, b)
        PROVE  cur'[v].event \in posted'
      BY <1>1, <1>2, <2>3 DEF Offered, Claim
  <2>4. ASSUME NEW w \in Workers, Post(w)
        PROVE  cur'[v].event \in posted'
      BY <1>1, <1>2, <2>4 DEF Offered, Post
  <2>5. ASSUME NEW w \in Workers, NextInBatch(w)
        PROVE  cur'[v].event \in posted'
      BY <1>1, <1>2, <2>5 DEF Offered, NextInBatch
  <2> QED BY <2>1, <2>2, <2>3, <2>4, <2>5
          DEF Next, vars, events, queues, Deciding, Dispatching, Surroundings, Record, WithdrawReadDecision,
              WithdrawReadHandoffs, WithdrawCommit, Skip, SettleDispatched, SettleFailed, SettleError,
              BackoffElapses, LeaseLapses, Accept, Refuse, LateArrival, Requeue
<1>3. late' \subseteq posted'
  <2>1. ASSUME NEW ws \in SUBSET Workers, Abandon(ws)
        PROVE  late' \subseteq posted'
      BY <1>1, <2>1 DEF Offered, Abandon
  <2>2. ASSUME NEW w \in Workers, SettleFailed(w) \/ SettleError(w)
        PROVE  late' \subseteq posted'
      BY <2>1, <2>2 DEF SettleFailed, SettleError
  <2>3. ASSUME NEW i \in Instances, Crash(i)
        PROVE  late' \subseteq posted'
      BY <2>1, <2>3 DEF Crash
  <2>4. CASE late' \subseteq late
      BY <1>1, <2>4 DEF Offered
  <2> QED BY <2>2, <2>3, <2>4
          DEF Next, vars, events, queues, world, Deciding, Dispatching, Surroundings, Record, WithdrawReadDecision,
              WithdrawReadHandoffs, WithdrawCommit, StartRound, Claim, Skip, Post, SettleDispatched, FinishRound,
              BackoffElapses, LeaseLapses, Accept, Refuse, LateArrival, Requeue
<1> QED BY <1>2, <1>3 DEF Offered

\* A step that takes one event to another state, seen through Promise.
LEMMA PromiseOfOne ==
    ASSUME TypeOK, NEW e \in Decisions, NEW to \in {"pending", "sending", "dispatched", "failed", "cancelled"},
           status' = [status EXCEPT ![e] = to]
    PROVE  /\ \A d \in Decisions: d # e => Promise(d)' = Promise(d)
           /\ to \in {"pending", "sending"} => Promise(e)' = "owed"
           /\ to = "dispatched" => Promise(e)' = "handed_over"
           /\ to = "failed" => Promise(e)' = "given_up"
           /\ to = "cancelled" => Promise(e)' = "revoked"
BY DEF TypeOK, Promise

LEMMA PromiseNow ==
    ASSUME TypeOK, NEW e \in Decisions
    PROVE  /\ Promise(e) = "none" <=> status[e] = "none"
           /\ Promise(e) = "owed" <=> status[e] \in {"pending", "sending"}
           /\ Promise(e) = "handed_over" <=> status[e] = "dispatched"
           /\ Promise(e) = "given_up" <=> status[e] = "failed"
           /\ Promise(e) = "revoked" <=> status[e] = "cancelled"
BY DEF TypeOK, Promise

LEMMA DeliveryInit == Init => Delivery!Init
<1> SUFFICES ASSUME Init PROVE Delivery!Init
    OBVIOUS
<1>1. TypeOK
    BY TypeInit
<1>2. \A d \in Decisions: Promise(d) = "none"
    BY <1>1, PromiseNow DEF Init
<1> QED BY <1>2 DEF Init, Delivery!Init, Delivery!Decisions, Decisions

LEMMA DeliveryStep ==
    ASSUME SafeInv, Sole, Offered, [Next]_vars
    PROVE  [Delivery!Next]_Delivery!vars
<1> DEFINE was == [d \in Decisions |-> Promise(d)]
           is == [d \in Decisions |-> Promise(d)']
<1> USE DEF SafeInv
<1>0. Delivery!Decisions = Decisions
    BY DEF Delivery!Decisions, Decisions
<1>1. ASSUME status' = status, received' = received, posted' = posted
      PROVE  UNCHANGED Delivery!vars
    BY <1>1 DEF Delivery!vars, Promise
<1>2. ASSUME NEW e \in Decisions, NEW to \in {"pending", "sending", "dispatched", "failed", "cancelled"},
             status' = [status EXCEPT ![e] = to]
      PROVE  is = [was EXCEPT ![e] = Promise(e)']
    BY <1>2, PromiseOfOne
<1>3. ASSUME NEW d \in Decisions, NEW t \in Destinations \cup {"nobody"}, Record(d, t)
      PROVE  [Delivery!Next]_Delivery!vars
  <2>1. status[d] = "none" /\ received' = received /\ posted' = posted
      BY <1>3 DEF Record, IsNextDecision, Chain, world
  <2>2. CASE t = "nobody"
      BY <1>1, <1>3, <2>1, <2>2 DEF Record, TypeOK
  <2>3. CASE t # "nobody"
    <3>1. status' = [status EXCEPT ![d] = "pending"]
        BY <1>3, <2>3 DEF Record
    <3>2. \A e \in Decisions: e[1] = d[1] /\ e # d => was[e] \in {"none", "revoked"}
      <4> SUFFICES ASSUME NEW e \in Decisions, e[1] = d[1], e # d PROVE status[e] \in {"none", "cancelled"}
          BY PromiseNow
      <4>1. decision[d] = "none" /\ \A n \in 1..(d[2] - 1): decision[<<d[1], n>>] = "withdrawn"
          BY <1>3 DEF Record, IsNextDecision
      <4>2. e = <<d[1], e[2]>> /\ d = <<d[1], d[2]>> /\ e[2] \in 1..MaxDecisions /\ d[2] \in 1..MaxDecisions
          BY DEF Decisions
      <4>3. CASE e[2] < d[2]
        <5>1. e[2] \in 1..(d[2] - 1)
            BY <4>2, <4>3, HandoffAssumption
        <5>2. decision[e] = "withdrawn"
            BY <4>1, <4>2, <5>1
        <5> QED BY <5>2 DEF Chain
      <4>4. CASE d[2] < e[2]
        <5>1. decision[e] = "none"
            BY <4>1, <4>4 DEF Chain, TypeOK
        <5> QED BY <5>1 DEF Chain
      <4> QED BY <4>2, <4>3, <4>4, HandoffAssumption
    <3>3. was[d] = "none" /\ is = [was EXCEPT ![d] = "owed"]
        BY <1>2, <2>1, <3>1, PromiseOfOne, PromiseNow
    <3> HIDE DEF was, is
    <3>4. Delivery!Announce(d)
        BY <1>0, <2>1, <3>2, <3>3 DEF Delivery!Announce, Delivery!Become, was, is
    <3> QED BY <1>0, <3>4 DEF Delivery!Next
  <2> QED BY <2>2, <2>3
<1>4. ASSUME NEW u \in Users, WithdrawCommit(u)
      PROVE  [Delivery!Next]_Delivery!vars
  <2> DEFINE d == withdrawal[u].decision
  <2>1. received' = received /\ posted' = posted
      BY <1>4 DEF WithdrawCommit, world
  <2>2. CASE ~CanWithdraw(u) \/ withdrawal[u].handoffs = {}
    <3>1. status' = status
        BY <1>4, <2>2 DEF WithdrawCommit, TypeOK
    <3> QED BY <1>1, <2>1, <3>1
  <2>3. CASE CanWithdraw(u) /\ withdrawal[u].handoffs # {}
    <3>1. d \in Decisions /\ withdrawal[u].handoffs = {d} /\ status[d] \in {"pending", "failed"}
        BY <1>4, <2>3 DEF WithdrawCommit, CanWithdraw, WithdrawalRead, TypeOK
    <3>2. status' = [e \in Decisions |-> IF e \in withdrawal[u].handoffs THEN "cancelled" ELSE status[e]]
        BY <1>4, <2>3, Zenon DEF WithdrawCommit
    <3> HIDE DEF d
    <3>3. status' = [status EXCEPT ![d] = "cancelled"]
        BY <3>1, <3>2 DEF TypeOK
    <3>4. was[d] \in {"owed", "given_up"} /\ is = [was EXCEPT ![d] = "revoked"]
        BY <1>2, <3>1, <3>3, PromiseOfOne, PromiseNow
    <3> HIDE DEF was, is
    <3>5. Delivery!Revoke(d)
        BY <2>1, <3>4 DEF Delivery!Revoke, Delivery!Become, was, is
    <3> QED BY <1>0, <3>1, <3>5 DEF Delivery!Next
  <2> QED BY <2>2, <2>3
<1>5. ASSUME NEW w \in Workers, NEW b \in batch[w], Claim(w, b)
      PROVE  UNCHANGED Delivery!vars
  <2>1. b.event \in Decisions /\ status[b.event] \in {"pending", "sending"}
      BY <1>5 DEF Claim, Claimable, TypeOK
  <2>2. status' = [status EXCEPT ![b.event] = "sending"] /\ received' = received /\ posted' = posted
      BY <1>5 DEF Claim, world
  <2>3. is = was
      BY <1>2, <2>1, <2>2, PromiseOfOne, PromiseNow
  <2> QED BY <2>2, <2>3 DEF Delivery!vars
<1>6. ASSUME NEW w \in Workers, Post(w)
      PROVE  [Delivery!Next]_Delivery!vars
  <2>1. cur[w].event \in Decisions /\ status[cur[w].event] = "sending"
    <3>1. cur[w].event \in Decisions
        BY <1>6, ClaimsAreNotNoClaim DEF Post, TypeOK, Claims
    <3> QED BY <1>6, <3>1 DEF Post, Sole, Sending
  <2>2. was[cur[w].event] = "owed"
      BY <2>1, PromiseNow
  <2>3. is = was /\ received' = received /\ posted' = posted \cup {cur[w].event}
      BY <1>6 DEF Post, events, world, Promise
  <2>4. Delivery!Offer(cur[w].event)
      BY <2>2, <2>3 DEF Delivery!Offer
  <2> QED BY <1>0, <2>1, <2>4 DEF Delivery!Next
<1>7. ASSUME NEW w \in Workers, SettleDispatched(w)
      PROVE  [Delivery!Next]_Delivery!vars
  <2> DEFINE e == cur[w].event
  <2>1. received' = received /\ posted' = posted
      BY <1>7 DEF SettleDispatched, world
  <2>2. CASE holder[e] # w
      BY <1>1, <1>7, <2>1, <2>2 DEF SettleDispatched
  <2>3. CASE holder[e] = w
    <3>1. e \in Decisions
        BY <1>7, ClaimsAreNotNoClaim DEF SettleDispatched, TypeOK, Claims
    <3>2. status[e] = "sending" /\ e \in received
        BY <1>7, <3>1 DEF SettleDispatched, Sole, Sending, Taken
    <3>3. status' = [status EXCEPT ![e] = "dispatched"]
        BY <1>7, <2>3 DEF SettleDispatched
    <3> HIDE DEF e
    <3>4. was[e] = "owed" /\ is = [was EXCEPT ![e] = "handed_over"]
        BY <1>2, <3>1, <3>2, <3>3, PromiseOfOne, PromiseNow
    <3> HIDE DEF was, is
    <3>5. Delivery!HandOver(e)
        BY <2>1, <3>2, <3>4 DEF Delivery!HandOver, Delivery!Become, was, is
    <3> QED BY <1>0, <3>1, <3>5 DEF Delivery!Next
  <2> QED BY <2>2, <2>3
<1>8. ASSUME NEW w \in Workers, SettleFailed(w)
      PROVE  [Delivery!Next]_Delivery!vars
  <2> DEFINE e == cur[w].event
  <2>1. received' = received /\ posted' = posted
      BY <1>8 DEF SettleFailed
  <2>2. CASE holder[e] # w
      BY <1>1, <1>8, <2>1, <2>2 DEF SettleFailed
  <2>3. CASE holder[e] = w
    <3>1. e \in Decisions
        BY <1>8, ClaimsAreNotNoClaim DEF SettleFailed, TypeOK, Claims
    <3>2. status[e] = "sending" /\ e \in posted
        BY <1>8, <3>1 DEF SettleFailed, Sole, Sending, Offered
    <3>3. status' = [status EXCEPT ![e] = "failed"] \/ status' = [status EXCEPT ![e] = "pending"]
        BY <1>8, <2>3 DEF SettleFailed
    <3> HIDE DEF e
    <3>4. CASE status' = [status EXCEPT ![e] = "pending"]
      <4>1. is = was
          BY <1>2, <3>1, <3>2, <3>4, PromiseOfOne, PromiseNow
      <4> QED BY <2>1, <4>1 DEF Delivery!vars
    <3>5. CASE status' = [status EXCEPT ![e] = "failed"]
      <4>1. was[e] = "owed" /\ is = [was EXCEPT ![e] = "given_up"]
          BY <1>2, <3>1, <3>2, <3>5, PromiseOfOne, PromiseNow
      <4> HIDE DEF was, is
      <4>2. Delivery!GiveUp(e)
          BY <2>1, <3>2, <4>1 DEF Delivery!GiveUp, Delivery!Become, was, is
      <4> QED BY <1>0, <3>1, <4>2 DEF Delivery!Next
    <3> QED BY <3>3, <3>4, <3>5
  <2> QED BY <2>2, <2>3
<1>9. ASSUME NEW e \in Decisions, e \in posted, status' = status, posted' = posted,
             received' = received \cup {e}
      PROVE  [Delivery!Next]_Delivery!vars
  <2>1. is = was
      BY <1>9 DEF Promise
  <2>2. Delivery!Take(e)
      BY <1>9, <2>1 DEF Delivery!Take
  <2> QED BY <1>0, <2>2 DEF Delivery!Next
<1>10. ASSUME NEW w \in Workers, Accept(w)
       PROVE  [Delivery!Next]_Delivery!vars
  <2>1. cur[w].event \in Decisions
      BY <1>10, ClaimsAreNotNoClaim DEF Accept, TypeOK, Claims
  <2> QED BY <1>9, <1>10, <2>1 DEF Accept, Offered, events
<1>11. ASSUME NEW e \in Decisions, LateArrival(e)
       PROVE  [Delivery!Next]_Delivery!vars
    BY <1>1, <1>9, <1>11 DEF LateArrival, Offered, events
<1>12. ASSUME NEW e \in Decisions, Requeue(e)
       PROVE  [Delivery!Next]_Delivery!vars
  <2>1. status[e] = "failed" /\ status' = [status EXCEPT ![e] = "pending"] /\ received' = received /\ posted' = posted
      BY <1>12 DEF Requeue, world
  <2>2. was[e] = "given_up" /\ is = [was EXCEPT ![e] = "owed"]
      BY <1>2, <2>1, PromiseOfOne, PromiseNow
  <2> HIDE DEF was, is
  <2>3. Delivery!Reopen(e)
      BY <2>1, <2>2 DEF Delivery!Reopen, Delivery!Become, was, is
  <2> QED BY <1>0, <2>3 DEF Delivery!Next
<1> HIDE DEF was, is
<1> QED BY <1>1, <1>3, <1>4, <1>5, <1>6, <1>7, <1>8, <1>10, <1>11, <1>12
        DEF Next, vars, events, world, Deciding, Dispatching, Surroundings, WithdrawReadDecision,
            WithdrawReadHandoffs, StartRound, Skip, SettleError, FinishRound, BackoffElapses, LeaseLapses,
            Refuse, Crash

\* The queues, leases and retries implement the promise, as long as leases
\* outlive deliveries: nothing revoked is offered, nothing is handed over twice
\* over or before its destination has it.
THEOREM OutboxImplementsDelivery == LeaseOutlivesSend => (Spec => ImplementsDelivery)
<1> SUFFICES ASSUME LeaseOutlivesSend PROVE Spec => ImplementsDelivery
    OBVIOUS
<1>1. Init => Offered
    BY DEF Init, Offered
<1>2. SafeInv /\ Offered /\ [Next]_vars => Offered'
    BY OfferedStep
<1>3. SafeInv /\ Sole /\ Offered /\ [Next]_vars => [Delivery!Next]_Delivery!vars
    BY DeliveryStep
<1> QED BY SoleAlways, DeliveryInit, <1>1, <1>2, <1>3, PTL DEF Spec, ImplementsDelivery, Delivery!Spec

-----------------------------------------------------------------------------
(***************************************************************************)
(* The receivers of HandoffIntake.  A queue that waits for an answer has   *)
(* one request under way, that of the event it is sending, and no other    *)
(* request has anybody waiting; a request is of a decision that was made,  *)
(* so that where its event goes is settled; and one that is past its first *)
(* statement is Interview's.                                               *)
(***************************************************************************)
Waiting ==
    /\ \A h \in requests:
        /\ h.for # NoWorker => request[h.for] = "sent" /\ h.event = cur[h.for].event
        /\ decision[h.event] # "none"
        /\ h.step # "sent" => goesTo[h.event] = "interview"
    /\ \A g, h \in requests: g.for = h.for /\ g.for # NoWorker => g = h
    /\ \A w \in Workers: cur[w] # NoClaim => decision[cur[w].event] # "none"

IntakeInv == SafeInv /\ IntakeTypeOK /\ Waiting

LEMMA IntakeInitOK == IntakeInit => IntakeInv
<1> SUFFICES ASSUME IntakeInit PROVE IntakeInv
    OBVIOUS
<1>1. Init /\ SafeInv /\ TypeOK
    BY SafeInit DEF IntakeInit, SafeInv
<1>2. late = Stray(requests)
    BY DEF IntakeInit, Init, Stray
<1>3. IntakeTypeOK
    BY <1>1, <1>2, IntakeAssumption DEF IntakeInit, Init, IntakeTypeOK
<1>4. Waiting
    BY DEF IntakeInit, Init, Waiting
<1> QED BY <1>1, <1>3, <1>4 DEF IntakeInv

\* What is under way loses a request h: what nobody waits for loses its event
\* if it was one of those, and at most that.
LEMMA StrayWithout ==
    ASSUME NEW of, NEW h \in of
    PROVE  /\ h.for # NoWorker => Stray(of \ {h}) = Stray(of)
           /\ h.for = NoWorker =>
                /\ h.event \in Stray(of)
                /\ Stray(of \ {h}) \in {Stray(of), Stray(of) \ {h.event}}
BY DEF Stray

\* A request that goes on changes neither its event nor who waits for it.
LEMMA StrayGoesOn ==
    ASSUME NEW of, NEW h \in of, NEW g, g.event = h.event, g.for = h.for
    PROVE  Stray((of \ {h}) \cup {g}) = Stray(of)
BY DEF Stray

LEMMA StrayLeft ==
    ASSUME NEW ws \in SUBSET Workers, requests \in SUBSET Requests, Leave(ws)
    PROVE  /\ requests' \in SUBSET Requests
           /\ Stray(requests') = Stray(requests) \cup {h.event: h \in {g \in requests: g.for \in ws}}
<1> DEFINE left(h) == [h EXCEPT !.for = IF @ \in ws THEN NoWorker ELSE @]
<1>1. requests' = {left(h): h \in requests}
    BY DEF Leave
<1>2. \A h \in requests: /\ left(h) \in Requests /\ left(h).event = h.event
                         /\ left(h).for = IF h.for \in ws THEN NoWorker ELSE h.for
    BY DEF Requests
<1> HIDE DEF left
<1>3. NoWorker \notin ws
    BY HandoffAssumption
<1> QED BY <1>1, <1>2, <1>3 DEF Stray

\* Every step of the outbox and the receivers is one of the outbox, or none of
\* its concern.
LEMMA IntakeSteps == IntakeInv /\ [IntakeNext]_composed => [Next]_vars
<1> SUFFICES ASSUME IntakeInv, [IntakeNext]_composed PROVE [Next]_vars
    OBVIOUS
<1> USE DEF IntakeInv
<1>1. ASSUME NEW w \in Workers, PostOut(w)
      PROVE  Next
    BY <1>1 DEF PostOut, Next, Dispatching
<1>2. ASSUME NEW w \in Workers, GiveUp(w)
      PROVE  Next
    BY <1>2 DEF GiveUp, Next, Dispatching
<1>3. ASSUME NEW i \in Instances, CrashAway(i)
      PROVE  Next
    BY <1>3 DEF CrashAway, Next, Surroundings
<1>4. ASSUME Elsewhere
      PROVE  Next
    BY <1>4 DEF Elsewhere, Next, Deciding, Dispatching, Surroundings
<1>5. ASSUME NEW h \in requests,
             \/ ReadJob(h) \/ UpsertJob(h) \/ FindMaterial(h) \/ StoreMaterial(h) \/ MissMaterial(h) \/ LinkResume(h)
      PROVE  UNCHANGED vars
    BY <1>5 DEF ReadJob, UpsertJob, FindMaterial, StoreMaterial, MissMaterial, LinkResume, Goes
<1>6. ASSUME NEW h \in requests
      PROVE  /\ h.event \in Decisions
             /\ h.for \in Workers \cup {NoWorker} /\ NoWorker \notin Workers
             /\ h.for \in Workers =>
                   pc[h.for] = "posted" /\ request[h.for] = "sent" /\ cur[h.for].event = h.event
    BY <1>6, HandoffAssumption DEF IntakeTypeOK, TypeOK, Requests, Waiting
<1>7. ASSUME NEW h \in requests, requests' = requests \ {h}, late' = Stray(requests')
      PROVE  /\ h.for \in Workers => late' = late
             /\ h.for = NoWorker => h.event \in late /\ late' \in {late, late \ {h.event}}
    BY <1>6, <1>7, StrayWithout, ZenonT(60) DEF IntakeTypeOK
<1>8. ASSUME NEW h \in requests, Finish(h)
      PROVE  Next
  <2>1. UNCHANGED <<events, pc, batch, cur, withdrawal, posted, faults>>
      BY <1>8 DEF Finish
  <2>2. received' = received \cup {h.event}
    <3>1. CASE h.step = "task" /\ UpsertTask(h)
      <4>1. goesTo'[h.event] = "interview"
          BY <2>1, <3>1 DEF Waiting, events
      <4>2. h.event[1] \in Applications
          BY <1>6 DEF Decisions
      <4>3. task'[h.event[1]] # "none"
          BY <3>1, <4>2 DEF UpsertTask, Of, IntakeTypeOK
      <4>4. IsThere(h.event)'
          BY <4>1, <4>3 DEF IsThere
      <4> QED BY <1>8, <4>4 DEF Finish
    <3>2. CASE UpsertCase(h)
      <4>1. IsThere(h.event)'
          BY <2>1, <3>2 DEF UpsertCase, Of, IsThere, events
      <4> QED BY <1>8, <4>1 DEF Finish
    <3> QED BY <1>8, <3>1, <3>2 DEF Finish, Takes, UpsertTask
  <2>3. CASE h.for \in Workers
    <3>1. late' = late /\ request' = [request EXCEPT ![h.for] = "accepted"]
        BY <1>6, <1>7, <1>8, <2>3 DEF Finish
    <3>2. Accept(h.for)
        BY <1>6, <2>1, <2>2, <2>3, <3>1 DEF Accept
    <3> QED BY <2>3, <3>2 DEF Next, Surroundings
  <2>4. CASE h.for = NoWorker
    <3>1. LateArrival(h.event)
        BY <1>7, <1>8, <2>1, <2>2, <2>4 DEF LateArrival, Finish, queues
    <3> QED BY <1>6, <3>1 DEF Next, Surroundings
  <2> QED BY <1>6, <2>3, <2>4
<1>9. ASSUME NEW h \in requests, Fail(h)
      PROVE  Next
  <2>1. CASE h.for \in Workers
    <3>1. late' = late /\ request' = [request EXCEPT ![h.for] = "refused"]
        BY <1>6, <1>7, <1>9, <2>1 DEF Fail
    <3>2. Refuse(h.for)
        BY <1>6, <1>9, <2>1, <3>1 DEF Refuse, Fail, world
    <3> QED BY <2>1, <3>2 DEF Next, Surroundings
  <2>2. CASE h.for = NoWorker
    <3>1. LateArrival(h.event)
        BY <1>7, <1>9, <2>2 DEF LateArrival, Fail, queues
    <3> QED BY <1>6, <3>1 DEF Next, Surroundings
  <2> QED BY <1>6, <2>1, <2>2
<1>10. CASE UNCHANGED composed
    BY <1>10 DEF composed
<1> QED BY <1>1, <1>2, <1>3, <1>4, <1>5, <1>8, <1>9, <1>10 DEF IntakeNext

LEMMA RowsStep ==
    ASSUME IntakeInv, [IntakeNext]_composed
    PROVE  /\ job' \in [Applications -> [version: Nat, text: Texts \cup {NoText}]]
           /\ resume' \in [Applications -> {"none", "material", "linked"}]
           /\ task' \in [Applications -> {"none", "bare", "with_resume"}]
           /\ cases' \in SUBSET Applications
<1> DEFINE RowsOK == /\ job' \in [Applications -> [version: Nat, text: Texts \cup {NoText}]]
                     /\ resume' \in [Applications -> {"none", "material", "linked"}]
                     /\ task' \in [Applications -> {"none", "bare", "with_resume"}]
                     /\ cases' \in SUBSET Applications
<1> USE DEF IntakeInv, IntakeTypeOK
<1>1. CASE UNCHANGED rows
    BY <1>1 DEF rows
<1>2. ASSUME NEW h \in requests
      PROVE  Of(h) \in Applications /\ h.event \in Decisions
    BY <1>2 DEF Of, Requests, Decisions
<1>3. ASSUME NEW h \in requests, UpsertJob(h)
      PROVE  RowsOK
  <2>1. jdText[h.event] \in Texts
      BY <1>2, IntakeAssumption
  <2> QED BY <1>2, <1>3, <2>1 DEF UpsertJob
<1>4. ASSUME NEW h \in requests, StoreMaterial(h) \/ LinkResume(h)
      PROVE  RowsOK
    BY <1>2, <1>4 DEF StoreMaterial, LinkResume
<1>5. ASSUME NEW h \in requests, Takes(h)
      PROVE  RowsOK
    BY <1>2, <1>5 DEF Takes, UpsertTask, UpsertCase
<1> QED BY <1>1, <1>3, <1>4, <1>5
        DEF IntakeNext, composed, intake, PostOut, GiveUp, CrashAway, Leave, Elsewhere, ReadJob, FindMaterial,
            MissMaterial, Finish, Fail

\* What the requests have to do with the queues, as one statement about the
\* variables they share.
Matched ==
    /\ requests \in SUBSET Requests
    /\ late = Stray(requests)
    /\ \A w \in Workers: request[w] = "sent" <=> \E h \in requests: h.for = w
    /\ Waiting

\* A request goes on: the same one, one statement further.
LEMMA MatchedGoesOn ==
    ASSUME IntakeInv, NEW h \in requests, NEW g \in Requests, Goes(h, g),
           g.event = h.event, g.for = h.for, g.step # "sent" => goesTo[g.event] = "interview"
    PROVE  Matched'
<1> USE DEF IntakeInv, IntakeTypeOK
<1>1. requests' = (requests \ {h}) \cup {g} /\ UNCHANGED vars
    BY DEF Goes
<1>2. requests' \in SUBSET Requests /\ late' = Stray(requests')
    BY <1>1, StrayGoesOn DEF vars, world
<1>3. \A w \in Workers: request'[w] = "sent" <=> \E r \in requests': r.for = w
    BY <1>1 DEF vars, queues
<1>4. Waiting'
    BY <1>1 DEF vars, queues, events, Waiting
<1> QED BY <1>2, <1>3, <1>4 DEF Matched

\* A request ends, with an answer if a queue waits for it.
LEMMA MatchedEnds ==
    ASSUME IntakeInv, NEW h \in requests, NEW answer \in {"accepted", "refused"},
           requests' = requests \ {h}, late' = Stray(requests'),
           request' = IF h.for = NoWorker THEN request ELSE [request EXCEPT ![h.for] = answer],
           UNCHANGED <<decision, goesTo, cur>>
    PROVE  Matched'
<1> USE HandoffAssumption DEF IntakeInv, IntakeTypeOK
<1>1. request \in [Workers -> {"none", "sent", "accepted", "refused"}] /\ h.for \in Workers \cup {NoWorker}
    BY DEF TypeOK, Requests
<1>2. \A w \in Workers: request'[w] = "sent" <=> \E r \in requests': r.for = w
  <2> SUFFICES ASSUME NEW w \in Workers PROVE request'[w] = "sent" <=> \E r \in requests': r.for = w
      OBVIOUS
  <2>1. CASE h.for = w
      BY <1>1, <2>1 DEF Waiting
  <2>2. CASE h.for # w
      BY <1>1, <2>2
  <2> QED BY <2>1, <2>2
<1>3. Waiting'
    BY <1>1 DEF Waiting
<1> QED BY <1>2, <1>3 DEF Matched

\* Queues wait no longer: what they waited for becomes late.
LEMMA MatchedLeft ==
    ASSUME IntakeInv, NEW ws \in SUBSET Workers, Leave(ws), Abandon(ws),
           request' = [w \in Workers |-> IF w \in ws THEN "none" ELSE request[w]],
           cur' = [w \in Workers |-> IF w \in ws THEN NoClaim ELSE cur[w]],
           UNCHANGED <<decision, goesTo>>
    PROVE  Matched'
<1> USE HandoffAssumption DEF IntakeInv, IntakeTypeOK
<1> DEFINE left(h) == [h EXCEPT !.for = IF @ \in ws THEN NoWorker ELSE @]
<1>1. requests' = {left(h): h \in requests}
    BY DEF Leave
<1>2. \A h \in requests: /\ left(h).event = h.event /\ left(h).step = h.step
                         /\ left(h).for = IF h.for \in ws THEN NoWorker ELSE h.for
                         /\ h.for \in Workers \cup {NoWorker}
    BY DEF Requests
<1>3. \A g, h \in requests: g.for = h.for /\ g.for # NoWorker => g = h
    BY DEF Waiting
<1> HIDE DEF left
<1>4. /\ requests' \in SUBSET Requests
      /\ Stray(requests') = Stray(requests) \cup {h.event: h \in {g \in requests: g.for \in ws}}
    BY StrayLeft
<1>5. {cur[w].event: w \in {v \in ws: request[v] = "sent"}} = {h.event: h \in {g \in requests: g.for \in ws}}
    BY DEF Waiting
<1>6. late' = Stray(requests')
    BY <1>4, <1>5 DEF Abandon
<1>7. \A w \in Workers: request'[w] = "sent" <=> \E h \in requests': h.for = w
  <2> SUFFICES ASSUME NEW w \in Workers PROVE request'[w] = "sent" <=> \E h \in requests': h.for = w
      OBVIOUS
  <2>1. CASE w \in ws
    <3>1. request'[w] # "sent"
        BY <2>1
    <3>2. \A h \in requests: left(h).for # w
        BY <1>2, <2>1
    <3> QED BY <1>1, <3>1, <3>2
  <2>2. CASE w \notin ws
    <3>1. request'[w] = "sent" <=> \E h \in requests: h.for = w
        BY <2>2
    <3>2. \A h \in requests: left(h).for = w <=> h.for = w
        BY <1>2, <2>2
    <3> QED BY <1>1, <3>1, <3>2
  <2> QED BY <2>1, <2>2
<1>8. Waiting'
  <2>1. \A h \in requests: left(h).for # NoWorker =>
            left(h).for = h.for /\ h.for \in Workers /\ h.for \notin ws
      BY <1>2
  <2>2. ASSUME NEW h \in requests
        PROVE  /\ left(h).for # NoWorker =>
                    request'[left(h).for] = "sent" /\ left(h).event = cur'[left(h).for].event
               /\ decision'[left(h).event] # "none"
               /\ left(h).step # "sent" => goesTo'[left(h).event] = "interview"
    <3>1. CASE left(h).for # NoWorker
        BY <1>2, <2>1, <3>1 DEF Waiting
    <3> QED BY <1>2, <3>1 DEF Waiting
  <2>3. \A g, h \in requests: left(g).for = left(h).for /\ left(g).for # NoWorker => left(g) = left(h)
      BY <1>3, <2>1
  <2>4. \A w \in Workers: cur'[w] # NoClaim => decision'[cur'[w].event] # "none"
      BY DEF Waiting
  <2> QED BY <1>1, <2>2, <2>3, <2>4 DEF Waiting
<1> QED BY <1>4, <1>6, <1>7, <1>8 DEF Matched

\* A queue sends the event it has claimed: nothing was under way for it.
LEMMA MatchedPosts ==
    ASSUME IntakeInv, NEW w \in Workers, PostOut(w)
    PROVE  Matched'
<1> USE HandoffAssumption DEF IntakeInv, IntakeTypeOK
<1> DEFINE new == [event |-> cur[w].event, for |-> w, step |-> "sent", saw |-> NoText, found |-> FALSE]
<1>1. requests' = requests \cup {new}
    BY DEF PostOut
<1>2. /\ UNCHANGED <<decision, goesTo, cur, late>>
      /\ request' = [request EXCEPT ![w] = "sent"]
      /\ pc[w] = "claimed"
    BY DEF PostOut, Post, events, world
<1>3. cur[w] # NoClaim /\ cur[w].event \in Decisions /\ request[w] = "none"
    BY <1>2 DEF TypeOK
<1>4. new \in Requests /\ new.for # NoWorker
    BY <1>3 DEF Requests, Steps
<1>5. \A h \in requests: h.for # w
    BY <1>3 DEF Waiting
<1>6. new.for = w /\ new.event = cur[w].event /\ new.step = "sent"
    OBVIOUS
<1> HIDE DEF new
<1>7. late' = Stray(requests')
    BY <1>1, <1>2, <1>4 DEF Stray
<1>8. request \in [Workers -> {"none", "sent", "accepted", "refused"}]
    BY DEF TypeOK
<1>9. \A v \in Workers: request'[v] = "sent" <=> \E h \in requests': h.for = v
    BY <1>1, <1>2, <1>6, <1>8
<1>10. Waiting'
  <2>1. decision[new.event] # "none"
      BY <1>3, <1>6 DEF Waiting
  <2>2. \A h \in requests: h.for \in Workers \cup {NoWorker}
      BY DEF Requests
  <2> QED BY <1>1, <1>2, <1>5, <1>6, <1>8, <2>1, <2>2 DEF Waiting
<1> QED BY <1>1, <1>4, <1>7, <1>9, <1>10 DEF Matched

\* The steps that do not concern a request: what is decided stays decided, and
\* what is claimed was decided.
LEMMA MatchedElsewhere ==
    ASSUME IntakeInv, Elsewhere
    PROVE  Matched'
<1> USE HandoffAssumption DEF IntakeInv, IntakeTypeOK, SafeInv
<1>1. requests' = requests /\ late' = late
    BY DEF Elsewhere, intake, Record, WithdrawReadDecision, WithdrawReadHandoffs, WithdrawCommit, StartRound,
           FinishRound, Claim, Skip, SettleDispatched, BackoffElapses, LeaseLapses, world
<1>2. \A d \in Decisions: decision[d] # "none" => decision'[d] # "none" /\ goesTo'[d] = goesTo[d]
  <2>1. ASSUME NEW e \in Decisions, NEW t \in Destinations \cup {"nobody"}, Record(e, t)
        PROVE  \A d \in Decisions: decision[d] # "none" => decision'[d] # "none" /\ goesTo'[d] = goesTo[d]
      BY <2>1 DEF Record, IsNextDecision, TypeOK
  <2>2. ASSUME NEW u \in Users, WithdrawCommit(u)
        PROVE  \A d \in Decisions: decision[d] # "none" => decision'[d] # "none" /\ goesTo'[d] = goesTo[d]
    <3>1. decision' = [decision EXCEPT ![withdrawal[u].decision] = "withdrawn"] \/ decision' = decision
        BY <2>2 DEF WithdrawCommit
    <3>2. goesTo' = goesTo
        BY <2>2 DEF WithdrawCommit
    <3> QED BY <3>1, <3>2 DEF TypeOK
  <2>3. CASE UNCHANGED <<decision, goesTo>>
      BY <2>3
  <2> QED BY <2>1, <2>2, <2>3
          DEF Elsewhere, WithdrawReadDecision, WithdrawReadHandoffs, StartRound, FinishRound, Claim, Skip,
              SettleDispatched, BackoffElapses, LeaseLapses, events
<1>3. \A w \in Workers: \/ cur'[w] = cur[w] /\ request'[w] = request[w]
                        \/ cur'[w] = NoClaim /\ request[w] # "sent" /\ request'[w] = "none"
                        \/ /\ cur'[w] # NoClaim /\ decision[cur'[w].event] # "none"
                           /\ cur'[w].event \in Decisions
                           /\ request'[w] = request[w] /\ request[w] # "sent"
  <2> DEFINE Goal == \A w \in Workers:
                        \/ cur'[w] = cur[w] /\ request'[w] = request[w]
                        \/ cur'[w] = NoClaim /\ request[w] # "sent" /\ request'[w] = "none"
                        \/ /\ cur'[w] # NoClaim /\ decision[cur'[w].event] # "none"
                           /\ cur'[w].event \in Decisions
                           /\ request'[w] = request[w] /\ request[w] # "sent"
  <2>1. ASSUME NEW w \in Workers, NEW b \in batch[w], Claim(w, b)
        PROVE  Goal
    <3>1. b \in [event: Decisions, attempt: 0..(MaxAttempts - 1)]
        BY DEF TypeOK
    <3>2. b # NoClaim
        BY <3>1, ClaimsAreNotNoClaim DEF Claims
    <3>3. decision[b.event] # "none"
        BY <2>1, <3>1 DEF Claim, Claimable, Chain
    <3>4. request[w] = "none"
        BY <2>1 DEF Claim, TypeOK
    <3>5. cur' = [cur EXCEPT ![w] = b] /\ request' = request
        BY <2>1 DEF Claim
    <3> QED BY <3>1, <3>2, <3>3, <3>4, <3>5 DEF TypeOK
  <2>2. ASSUME NEW w \in Workers, SettleDispatched(w)
        PROVE  Goal
      BY <2>2 DEF SettleDispatched, NextInBatch, TypeOK
  <2>3. CASE UNCHANGED <<cur, request>>
      BY <2>3
  <2> QED BY <2>1, <2>2, <2>3
          DEF Elsewhere, Record, WithdrawReadDecision, WithdrawReadHandoffs, WithdrawCommit, StartRound, FinishRound,
              Skip, BackoffElapses, LeaseLapses, queues
<1>4. requests' \in SUBSET Requests /\ late' = Stray(requests')
    BY <1>1 DEF Stray
<1>5. \A w \in Workers: request'[w] = "sent" <=> \E h \in requests': h.for = w
    BY <1>1, <1>3
<1>6. \A h \in requests: h.event \in Decisions /\ h.for \in Workers \cup {NoWorker}
    BY DEF Requests
<1>7. \A w \in Workers: cur[w] # NoClaim => cur[w].event \in Decisions
    BY DEF TypeOK
<1>8. Waiting'
    BY <1>1, <1>2, <1>3, <1>6, <1>7 DEF Waiting
<1> QED BY <1>4, <1>5, <1>8 DEF Matched

LEMMA MatchedStep == IntakeInv /\ [IntakeNext]_composed => Matched'
<1> SUFFICES ASSUME IntakeInv, [IntakeNext]_composed PROVE Matched'
    OBVIOUS
<1> USE HandoffAssumption DEF IntakeInv, IntakeTypeOK
<1>1. ASSUME NEW h \in requests
      PROVE  h \in Requests /\ h.event \in Decisions /\ h.event[1] \in Applications
    BY <1>1 DEF Requests, Decisions
<1>2. ASSUME NEW w \in Workers, PostOut(w)
      PROVE  Matched'
    BY <1>2, MatchedPosts
<1>3. ASSUME NEW w \in Workers, GiveUp(w)
      PROVE  Matched'
  <2>1. /\ Leave({w}) /\ Abandon({w})
        /\ cur' = [cur EXCEPT ![w] = NoClaim] /\ request' = [request EXCEPT ![w] = "none"]
        /\ UNCHANGED <<decision, goesTo>>
      BY <1>3 DEF GiveUp, SettleFailed, SettleError, NextInBatch, events
  <2> DEFINE ws == {w}
  <2>2. /\ cur' = [v \in Workers |-> IF v \in ws THEN NoClaim ELSE cur[v]]
        /\ request' = [v \in Workers |-> IF v \in ws THEN "none" ELSE request[v]]
    <3>1. DOMAIN cur = Workers /\ DOMAIN request = Workers
        BY DEF TypeOK
    <3> QED BY <2>1, <3>1
  <2>3. ws \in SUBSET Workers /\ Leave(ws) /\ Abandon(ws)
      BY <2>1
  <2> HIDE DEF ws
  <2> QED BY <2>1, <2>2, <2>3, MatchedLeft
<1>4. ASSUME NEW i \in Instances, CrashAway(i)
      PROVE  Matched'
  <2> DEFINE ws == {w \in Workers: w[1] = i}
  <2>1. /\ Leave(ws) /\ Abandon(ws) /\ UNCHANGED <<decision, goesTo>>
        /\ cur' = [v \in Workers |-> IF v \in ws THEN NoClaim ELSE cur[v]]
        /\ request' = [v \in Workers |-> IF v \in ws THEN "none" ELSE request[v]]
      BY <1>4 DEF CrashAway, Crash, events
  <2> HIDE DEF ws
  <2>2. ws \in SUBSET Workers
      BY DEF ws
  <2> QED BY <2>1, <2>2, MatchedLeft
<1>5. CASE Elsewhere
    BY <1>5, MatchedElsewhere
<1>6. ASSUME NEW h \in requests, ReadJob(h)
      PROVE  Matched'
  <2>1. [h EXCEPT !.step = "read", !.saw = job[Of(h)].text] \in Requests
      BY <1>1, <1>6, ZenonT(60) DEF Of, Requests, Steps
  <2> QED BY <1>1, <1>6, <2>1, MatchedGoesOn DEF ReadJob, Requests
<1>7. ASSUME NEW h \in requests, UpsertJob(h) \/ FindMaterial(h) \/ StoreMaterial(h) \/ MissMaterial(h) \/ LinkResume(h)
      PROVE  Matched'
  <2>1. PICK step \in {"resume", "download", "link", "task"}, found \in BOOLEAN:
            Goes(h, [h EXCEPT !.step = step, !.found = found])
    <3>1. h.found \in BOOLEAN /\ \A step \in Steps: [h EXCEPT !.step = step] = [h EXCEPT !.step = step, !.found = h.found]
        BY <1>1 DEF Requests
    <3> QED BY <1>7, <3>1 DEF UpsertJob, FindMaterial, StoreMaterial, MissMaterial, LinkResume, Steps
  <2>2. h.step # "sent"
      BY <1>7 DEF UpsertJob, FindMaterial, StoreMaterial, MissMaterial, LinkResume
  <2> DEFINE g == [h EXCEPT !.step = step, !.found = found]
  <2>3. Goes(h, g)
      BY <2>1
  <2>4. g \in Requests /\ g.event = h.event /\ g.for = h.for
    <3>1. h \in Requests /\ step \in Steps /\ found \in BOOLEAN
        BY <1>1, <2>1 DEF Steps
    <3> HIDE DEF IntakeTypeOK, IntakeInv, SafeInv
    <3> QED BY <3>1 DEF Requests
  <2>5. goesTo[g.event] = "interview"
      BY <2>2, <2>4 DEF Waiting
  <2> HIDE DEF g
  <2> QED BY <2>3, <2>4, <2>5, MatchedGoesOn
<1>8. ASSUME NEW h \in requests, Finish(h)
      PROVE  Matched'
  <2>1. /\ requests' = requests \ {h} /\ late' = Stray(requests') /\ UNCHANGED <<decision, goesTo, cur>>
        /\ request' = IF h.for = NoWorker THEN request ELSE [request EXCEPT ![h.for] = "accepted"]
      BY <1>8 DEF Finish, events
  <2> QED BY <2>1, MatchedEnds
<1>9. ASSUME NEW h \in requests, Fail(h)
      PROVE  Matched'
  <2>1. /\ requests' = requests \ {h} /\ late' = Stray(requests') /\ UNCHANGED <<decision, goesTo, cur>>
        /\ request' = IF h.for = NoWorker THEN request ELSE [request EXCEPT ![h.for] = "refused"]
      BY <1>9 DEF Fail, events
  <2> QED BY <2>1, MatchedEnds
<1>10. CASE UNCHANGED composed
    BY <1>10 DEF composed, vars, intake, queues, world, events, Matched, Waiting, Stray
<1> QED BY <1>2, <1>3, <1>4, <1>5, <1>6, <1>7, <1>8, <1>9, <1>10 DEF IntakeNext

\* The receivers implement the step "the destination takes the handoff" of the
\* outbox by their statements, faults, repetitions and overlaps included; and
\* what their rows and requests are stays well-formed.
THEOREM IntakeImplementsOutbox == IntakeSpec => ImplementsOutbox /\ []IntakeTypeOK
<1>1. IntakeInit => IntakeInv
    BY IntakeInitOK
<1>2. IntakeInv /\ [IntakeNext]_composed => IntakeInv'
  <2> SUFFICES ASSUME IntakeInv, [IntakeNext]_composed PROVE IntakeInv'
      OBVIOUS
  <2>1. SafeInv /\ [Next]_vars
      BY IntakeSteps DEF IntakeInv
  <2>2. SafeInv'
      BY <2>1, TypeStep, ChainStep, WithdrawalReadStep, LeasesStep, TakenStep DEF SafeInv
  <2>3. Matched'
      BY MatchedStep
  <2>4. IntakeTypeOK'
      BY <2>2, <2>3, RowsStep DEF SafeInv, Matched, IntakeTypeOK
  <2> QED BY <2>2, <2>3, <2>4 DEF IntakeInv, Matched
<1>3. IntakeInit => Init
    BY DEF IntakeInit
<1>4. IntakeInv => IntakeTypeOK
    BY DEF IntakeInv
<1> QED BY <1>1, <1>2, <1>3, <1>4, IntakeSteps, PTL DEF IntakeSpec, ImplementsOutbox, Spec
=============================================================================
