---------------------------- MODULE ScreeningProofs ----------------------------
(***************************************************************************)
(* Proofs about ScreeningBatches for any batches, applications, instances  *)
(* and limits, and about what Screening does around them.                  *)
(***************************************************************************)
EXTENDS Screening, Sequences, FiniteSetTheorems, TLAPS

(***************************************************************************)
(* The strengthening.  An execution always holds the claim of its item,    *)
(* which is running or unknown, and no other execution has that item.      *)
(* Every item that takes part was frozen from inputs its application had,  *)
(* and every evaluation, and every screening under way, is of such inputs. *)
(***************************************************************************)
Typed ==
    /\ live \in [Applications -> 1..MaxInputs]
    /\ status \in [Items -> {"absent", "queued", "running", "completed", "failed", "cancelled", "unknown"}]
    /\ snapshot \in [Items -> 0..MaxInputs]
    /\ token \in [Items -> Nat]
    /\ attempt \in [Items -> Nat]
    /\ result \in [Items -> 0..MaxVersions]
    /\ input \in [Evaluations -> 0..MaxInputs]
    /\ madeBy \in [Evaluations -> Items \cup {NoItem}]
    /\ fresh \subseteq {e \in Evaluations: input[e] # 0}
    /\ pc \in [Slots -> {"free", "begun", "calling"}]
    /\ work \in [Slots -> Items \cup {NoItem}]
    /\ \A w \in Slots: pc[w] = "free" <=> work[w] = NoItem
    /\ held \in [Slots -> Nat]
    /\ desk \in [Desks -> {"free", "loaded", "ready", "calling"}]
    /\ seen \in [Desks -> 0..MaxInputs]
    /\ next \in [Desks -> 0..(MaxVersions + 1)]

Executing == {w \in Slots: pc[w] # "free"}
Busy == \A w \in Executing: Mine(w)
Alone == \A v, w \in Executing: work[v] = work[w] => v = w
Places ==
    /\ IsFiniteSet(Occupying) /\ Cardinality(Occupying) <= Cap
    /\ \A i, j \in Occupying: i[2] = j[2] => i = j
Frozen == \A i \in Items: status[i] # "absent" => snapshot[i] > 0 /\ snapshot[i] <= live[i[2]]
Inputs == \A e \in Evaluations: input[e] <= live[e[1]]
DeskOK == \A d \in Desks:
    /\ seen[d] <= live[d[2]]
    /\ desk[d] # "free" => seen[d] > 0
    /\ desk[d] \in {"ready", "calling"} => next[d] > 0
Results == \A i \in Items:
    /\ \A v \in ResultsOf(i): status[i] = "completed" /\ result[i] = v
    /\ status[i] = "completed" => result[i] > 0 /\ input[<<i[2], result[i]>>] = snapshot[i]

\* m is the greatest version stored for a, 0 if there is none.
NewestOf(a, m) ==
    /\ m > 0 => input[<<a, m>>] # 0
    /\ \A v \in 1..MaxVersions: input[<<a, v>>] # 0 => v <= m
Numbered == \A a \in Applications: \E m \in 0..MaxVersions: NewestOf(a, m)

Queue == Typed /\ Busy /\ Alone /\ Places
BatchInv == Queue /\ Frozen /\ Inputs /\ DeskOK /\ Numbered /\ Results /\ CurrentIsSound

-----------------------------------------------------------------------------
(* Numbers and pairs.                                                      *)

LEMMA VersionsAreNumbers == MaxVersions \in Nat
<1>1. Cardinality(Batches) \in Nat
    BY BatchAssumption, FS_CardinalityType
<1> QED BY <1>1, BatchAssumption DEF MaxVersions

LEMMA ItemsArePairs == \A i \in Items: i \in Batches \X Applications /\ i[1] \in Batches /\ i[2] \in Applications
BY BatchAssumption DEF Items

LEMMA EvaluationsArePairs ==
    /\ \A a \in Applications, v \in 1..MaxVersions: <<a, v>> \in Evaluations
    /\ \A e \in Evaluations: e[1] \in Applications /\ e[2] \in 1..MaxVersions /\ e = <<e[1], e[2]>>
BY DEF Evaluations

\* The latest version is there, and none after it.
LEMMA LatestFacts ==
    ASSUME Numbered, NEW a \in Applications
    PROVE  /\ LatestVersion(a) \in 0..MaxVersions
           /\ LatestVersion(a) > 0 => input[<<a, LatestVersion(a)>>] # 0
           /\ \A v \in 1..MaxVersions: input[<<a, v>>] # 0 => v <= LatestVersion(a)
<1> DEFINE S == {0} \cup {v \in 1..MaxVersions: input[<<a, v>>] # 0}
<1>1. PICK m \in 0..MaxVersions: m \in S /\ \A v \in 1..MaxVersions: input[<<a, v>>] # 0 => v <= m
    BY DEF Numbered, NewestOf
<1>2. \A y \in S: m >= y
    BY <1>1
<1>3. Max(S) \in S /\ \A y \in S: Max(S) >= y
    BY <1>1, <1>2 DEF Max
<1>4. LatestVersion(a) = Max(S)
    BY DEF LatestVersion
<1>5. \A v \in 1..MaxVersions: input[<<a, v>>] # 0 => v \in S
    OBVIOUS
<1>6. S \subseteq 0..MaxVersions
    BY VersionsAreNumbers
<1>7. Max(S) > 0 => Max(S) \in 1..MaxVersions /\ input[<<a, Max(S)>>] # 0
    BY <1>3
<1> HIDE DEF S
<1> QED BY <1>3, <1>4, <1>5, <1>6, <1>7, VersionsAreNumbers

LEMMA LatestIsNumber ==
    ASSUME Numbered
    PROVE  \A a \in Applications: LatestVersion(a) \in 0..MaxVersions
BY LatestFacts

\* What a new evaluation does to the store, version by version.
LEMMA StoreFacts ==
    ASSUME Typed, NEW a \in Applications, NEW v \in 1..MaxVersions, NEW x \in 1..MaxInputs,
           NEW item \in Items \cup {NoItem}, NEW c \in BOOLEAN, Store(a, v, x, item, c)
    PROVE  /\ input' \in [Evaluations -> 0..MaxInputs]
           /\ madeBy' \in [Evaluations -> Items \cup {NoItem}]
           /\ fresh' \subseteq {e \in Evaluations: input'[e] # 0}
           /\ input'[<<a, v>>] = x /\ madeBy'[<<a, v>>] = item
           /\ \A e \in Evaluations: e # <<a, v>> => input'[e] = input[e] /\ madeBy'[e] = madeBy[e]
<1>1. <<a, v>> \in Evaluations
    BY EvaluationsArePairs
<1>2. input' = [input EXCEPT ![<<a, v>>] = x] /\ madeBy' = [madeBy EXCEPT ![<<a, v>>] = item]
    BY DEF Store
<1>3. fresh' \subseteq fresh \cup {<<a, v>>}
    BY DEF Store
<1>4. x \in 0..MaxInputs /\ x # 0
    BY BatchAssumption
<1> QED BY <1>1, <1>2, <1>3, <1>4 DEF Typed

\* What an execution works on is an item, and its claim stands.
LEMMA WorkIsItem ==
    ASSUME Typed, Busy, NEW w \in Slots, pc[w] # "free"
    PROVE  /\ work[w] \in Items /\ work[w][2] \in Applications
           /\ token[work[w]] = held[w] /\ status[work[w]] \in {"running", "unknown"} /\ Mine(w)
<1>1. work[w] \in Items
    BY DEF Typed
<1>2. Mine(w)
    BY DEF Busy, Executing
<1> QED BY <1>1, <1>2, ItemsArePairs DEF Mine

\* No stored result belongs to an item that is not completed.
LEMMA NothingToFind ==
    ASSUME Results
    PROVE  \A i \in Items: status[i] # "completed" => ResultsOf(i) = {}
BY DEF Results

-----------------------------------------------------------------------------
(* Every action, from the invariant: types first.                          *)

LEMMA StoppedTyped ==
    ASSUME Typed, NEW w \in Slots, Release(w)
    PROVE  /\ pc' \in [Slots -> {"free", "begun", "calling"}]
           /\ work' \in [Slots -> Items \cup {NoItem}]
           /\ \A u \in Slots: pc'[u] = "free" <=> work'[u] = NoItem
           /\ held' \in [Slots -> Nat]
BY DEF Typed, Release

LEMMA TypesKept ==
    ASSUME BatchInv, Next
    PROVE  Typed'
<1> USE DEF BatchInv, Queue
<1>0. NoItem \notin Items /\ MaxInputs \in Nat \ {0} /\ MaxVersions \in Nat
    BY BatchAssumption, VersionsAreNumbers
<1>1. ASSUME NEW a \in Applications, ChangeInputs(a) PROVE Typed'
    BY <1>0, <1>1 DEF Typed, ChangeInputs, rows, store, slots, desks
<1>2. ASSUME NEW b \in Batches, Start(b) PROVE Typed'
  <2>1. \A i \in Items: live[i[2]] \in 0..MaxInputs
      BY ItemsArePairs, <1>0 DEF Typed
  <2> QED BY <2>1, <1>2 DEF Typed, Start, store, slots, desks
<1>3. ASSUME NEW b \in Batches, Cancel(b) PROVE Typed'
    BY <1>3 DEF Typed, Cancel, store, slots, desks
<1>4. ASSUME NEW i \in Items, NEW k \in RetryKeys, Retry(i, k) PROVE Typed'
    BY <1>4 DEF Typed, Retry, store, slots, desks
<1>5. ASSUME NEW w \in Slots, NEW i \in Items, Claim(w, i) PROVE Typed'
  <2>1. status' \in [Items -> {"absent", "queued", "running", "completed", "failed", "cancelled", "unknown"}]
        /\ attempt' \in [Items -> Nat] /\ token' \in [Items -> Nat]
      BY <1>5 DEF Typed, Claim
  <2>2. pc' \in [Slots -> {"free", "begun", "calling"}] /\ work' \in [Slots -> Items \cup {NoItem}]
        /\ held' \in [Slots -> Nat]
      BY <1>5 DEF Typed, Claim
  <2>3. \A u \in Slots: pc'[u] = "free" <=> work'[u] = NoItem
      BY <1>5, <1>0 DEF Typed, Claim
  <2> QED BY <2>1, <2>2, <2>3, <1>5 DEF Typed, Claim, store, desks
<1>6. ASSUME Recover PROVE Typed'
  <2>1. \A i \in Items: ResultsOf(i) \subseteq 0..MaxVersions
      BY <1>0 DEF ResultsOf
  <2>2. PICK f \in SUBSET Items, u \in SUBSET Items:
          /\ f = {i \in u: ResultsOf(i) # {}}
          /\ status' = [i \in Items |-> IF i \in f THEN "completed" ELSE IF i \in u THEN "unknown" ELSE status[i]]
          /\ result' = [i \in Items |-> IF i \in f THEN CHOOSE v \in ResultsOf(i): TRUE ELSE result[i]]
      BY <1>6, ZenonT(60) DEF Recover
  <2>3. result' \in [Items -> 0..MaxVersions]
      BY <2>1, <2>2 DEF Typed
  <2>4. status' \in [Items -> {"absent", "queued", "running", "completed", "failed", "cancelled", "unknown"}]
      BY <2>2 DEF Typed
  <2> QED BY <2>3, <2>4, <1>6 DEF Typed, Recover, store, slots, desks
<1>7. ASSUME NEW w \in Slots, Begin(w) PROVE Typed'
  <2>1. work[w] \in Items /\ work[w][2] \in Applications
      BY <1>7, WorkIsItem DEF Begin
  <2>2. LatestVersion(work[w][2]) \in 0..MaxVersions
      BY <2>1, LatestIsNumber
  <2>3. status' \in [Items -> {"absent", "queued", "running", "completed", "failed", "cancelled", "unknown"}]
        /\ result' \in [Items -> 0..MaxVersions]
      BY <1>7, <2>1, <2>2 DEF Typed, Begin, Completed
  <2>4. \/ Release(w)
        \/ pc' = [pc EXCEPT ![w] = "calling"] /\ UNCHANGED <<work, held>>
      BY <1>7 DEF Begin
  <2>5. pc' \in [Slots -> {"free", "begun", "calling"}] /\ work' \in [Slots -> Items \cup {NoItem}]
        /\ (\A u \in Slots: pc'[u] = "free" <=> work'[u] = NoItem) /\ held' \in [Slots -> Nat]
    <3>1. CASE Release(w)
        BY <3>1, StoppedTyped
    <3>2. CASE pc' = [pc EXCEPT ![w] = "calling"] /\ UNCHANGED <<work, held>>
      <4>1. pc[w] # "free"
          BY <1>7 DEF Begin
      <4> QED BY <3>2, <4>1 DEF Typed
    <3> QED BY <2>4, <3>1, <3>2
  <2> QED BY <2>3, <2>5, <1>7 DEF Typed, Begin, store, desks
<1>8. ASSUME NEW w \in Slots, Heartbeat(w) PROVE Typed'
    BY <1>8 DEF Typed, Heartbeat, store, slots, desks
<1>9. ASSUME NEW w \in Slots, NEW o \in {"failed", "unknown"}, Fail(w, o) PROVE Typed'
  <2>1. status' \in [Items -> {"absent", "queued", "running", "completed", "failed", "cancelled", "unknown"}]
      BY <1>9 DEF Typed, Fail
  <2> QED BY <2>1, <1>9, StoppedTyped DEF Typed, Fail, store, desks
<1>10. ASSUME NEW w \in Slots, Save(w) PROVE Typed'
  <2>1. work[w] \in Items /\ work[w][2] \in Applications /\ Mine(w) /\ status[work[w]] # "absent"
      BY <1>10, WorkIsItem DEF Save
  <2> DEFINE i == work[w]
             v == LatestVersion(i[2]) + 1
  <2>2. v \in 1..MaxVersions
    <3>1. LatestVersion(i[2]) \in 0..MaxVersions
        BY <2>1, LatestIsNumber
    <3>2. v <= MaxVersions
        BY <1>10 DEF Save
    <3> QED BY <3>1, <3>2, <1>0
  <2>3. Completed(i, v) /\ Store(i[2], v, snapshot[i], i, snapshot[i] = live[i[2]]) /\ Release(w)
      BY <1>10, <2>1 DEF Save
  <2>4. snapshot[i] \in 1..MaxInputs
      BY <2>1, <1>0 DEF Frozen, Typed
  <2> HIDE DEF v
  <2>5. status' \in [Items -> {"absent", "queued", "running", "completed", "failed", "cancelled", "unknown"}]
        /\ result' \in [Items -> 0..MaxVersions]
      BY <2>1, <2>2, <2>3 DEF Typed, Completed
  <2>6. /\ input' \in [Evaluations -> 0..MaxInputs]
        /\ madeBy' \in [Evaluations -> Items \cup {NoItem}]
        /\ fresh' \subseteq {e \in Evaluations: input'[e] # 0}
      BY <2>1, <2>2, <2>3, <2>4, StoreFacts
  <2>7. UNCHANGED <<live, snapshot, token, attempt, desks>>
      BY <1>10 DEF Save
  <2> QED BY <2>3, <2>5, <2>6, <2>7, StoppedTyped DEF Typed, desks
<1>11. ASSUME NEW w \in Slots, ExecutionError(w) PROVE Typed'
    BY <1>11, StoppedTyped DEF Typed, ExecutionError, rows, store, desks
<1>12. ASSUME NEW i \in Items, LeaseLapses(i) PROVE Typed'
    BY <1>12 DEF Typed, LeaseLapses, store, slots, desks
<1>13. ASSUME NEW n \in Instances, Crash(n) PROVE Typed'
    BY <1>13, <1>0 DEF Typed, Crash, rows, store
<1>14. ASSUME NEW d \in Desks, RunLoad(d) PROVE Typed'
  <2>1. live[d[2]] \in 0..MaxInputs
      BY <1>0 DEF Typed, Desks
  <2> QED BY <2>1, <1>14 DEF Typed, RunLoad, rows, store, slots
<1>15. ASSUME NEW d \in Desks, RunVersion(d) PROVE Typed'
  <2>1. LatestVersion(d[2]) + 1 \in 0..(MaxVersions + 1)
      BY <1>0, LatestIsNumber DEF Desks
  <2> QED BY <2>1, <1>15 DEF Typed, RunVersion, rows, store, slots
<1>16. ASSUME NEW d \in Desks, NEW v \in 1..MaxVersions, Refresh(d, v) PROVE Typed'
  <2>1. live[d[2]] \in 0..MaxInputs /\ v + 1 \in 0..(MaxVersions + 1)
      BY <1>0 DEF Typed, Desks
  <2> QED BY <2>1, <1>16 DEF Typed, Refresh, rows, store, slots
<1>17. ASSUME NEW d \in Desks, Leave(d), UNCHANGED <<live, rows, slots>>,
              input' \in [Evaluations -> 0..MaxInputs],
              madeBy' \in [Evaluations -> Items \cup {NoItem}],
              fresh' \subseteq {e \in Evaluations: input'[e] # 0}
       PROVE  Typed'
    BY <1>17, <1>0 DEF Typed, Leave, rows, slots
<1>18. ASSUME NEW d \in Desks, RunReuse(d) PROVE Typed'
    BY <1>18, <1>17 DEF RunReuse, store, Typed
<1>19. ASSUME NEW d \in Desks, RunAsk(d) PROVE Typed'
    BY <1>19 DEF Typed, RunAsk, rows, store, slots
<1>20. ASSUME NEW d \in Desks, RunFails(d) PROVE Typed'
    BY <1>20, <1>17 DEF RunFails, store, Typed
<1>21. ASSUME NEW d \in Desks, RunSave(d) PROVE Typed'
  <2>1. CASE UNCHANGED store
      BY <2>1, <1>21, <1>17 DEF RunSave, store, Typed
  <2>2. CASE Store(d[2], next[d], seen[d], NoItem, TRUE)
    <3>1. d[2] \in Applications /\ next[d] \in 1..MaxVersions /\ seen[d] \in 1..MaxInputs
        BY <1>21, <1>0 DEF RunSave, Typed, DeskOK, Desks
    <3> QED BY <2>2, <3>1, StoreFacts, <1>21, <1>17 DEF RunSave
  <2> QED BY <2>1, <2>2, <1>21 DEF RunSave
<1> HIDE DEF BatchInv, Queue
<1> QED BY <1>1, <1>2, <1>3, <1>4, <1>5, <1>6, <1>7, <1>8, <1>9, <1>10, <1>11, <1>12, <1>13, <1>14, <1>15,
           <1>16, <1>18, <1>19, <1>20, <1>21 DEF Next, QueueNext, SingleNext

-----------------------------------------------------------------------------
(* The queue: executions hold their claims, and places are not exceeded.   *)

\* Executions that end, and rows that leave their places, disturb no one else.
LEMMA QueueShrinks ==
    ASSUME Queue,
           \A i \in Items: status'[i] \in {"running", "unknown"} => status[i] \in {"running", "unknown"},
           \A u \in Slots: pc'[u] # "free" =>
               /\ pc[u] # "free" /\ work'[u] = work[u] /\ held'[u] = held[u]
               /\ token'[work[u]] = token[work[u]] /\ status'[work[u]] \in {"running", "unknown"}
    PROVE  Busy' /\ Alone' /\ Places'
<1> USE DEF Queue
<1>1. ASSUME NEW u \in Slots, pc'[u] # "free" PROVE Mine(u)'
    BY <1>1 DEF Mine, Busy, Executing
<1>2. Busy'
    BY <1>1 DEF Busy, Executing
<1>3. Alone'
    BY DEF Alone, Executing
<1>4. Occupying' \subseteq Occupying
    BY DEF Occupying
<1>5. IsFiniteSet(Occupying') /\ Cardinality(Occupying') <= Cardinality(Occupying)
    BY <1>4, FS_Subset DEF Places
<1>6. Cardinality(Occupying') \in Nat /\ Cardinality(Occupying) \in Nat
    BY <1>5, FS_CardinalityType DEF Places
<1>7. Places'
    BY <1>4, <1>5, <1>6, BatchAssumption DEF Places
<1> QED BY <1>2, <1>3, <1>7

LEMMA OneMore ==
    ASSUME NEW S, NEW x, IsFiniteSet(S)
    PROVE  IsFiniteSet(S \cup {x}) /\ Cardinality(S \cup {x}) <= Cardinality(S) + 1
<1>1. Cardinality(S) \in Nat
    BY FS_CardinalityType
<1>2. CASE x \in S
    BY <1>1, <1>2, FS_AddElement
<1>3. CASE x \notin S
    BY <1>1, <1>3, FS_AddElement
<1> QED BY <1>2, <1>3

\* A claim takes one place, of an application that has none.
LEMMA ClaimKeepsQueue ==
    ASSUME Queue, NEW w \in Slots, NEW i \in Items, Claim(w, i)
    PROVE  Busy' /\ Alone' /\ Places'
<1> USE DEF Queue
<1>1. /\ pc[w] = "free" /\ status[i] = "queued"
      /\ status' = [status EXCEPT ![i] = "running"] /\ token' = [token EXCEPT ![i] = attempt[i] + 1]
      /\ pc' = [pc EXCEPT ![w] = "begun"] /\ work' = [work EXCEPT ![w] = i]
      /\ held' = [held EXCEPT ![w] = attempt[i] + 1]
    BY DEF Claim, Claimable
<1>2. \A u \in Slots: pc[u] # "free" => work[u] # i /\ work[u] \in Items
    BY <1>1, WorkIsItem
<1>3. \A u \in Slots: pc'[u] # "free" => u = w \/ (pc[u] # "free" /\ work'[u] = work[u] /\ held'[u] = held[u])
    BY <1>1 DEF Typed
<1>4. work'[w] = i /\ held'[w] = token'[i] /\ status'[i] = "running"
    BY <1>1 DEF Typed
<1>5. ASSUME NEW u \in Slots, pc'[u] # "free" PROVE Mine(u)'
  <2>1. CASE u = w
      BY <2>1, <1>4 DEF Mine
  <2>2. CASE pc[u] # "free" /\ work'[u] = work[u] /\ held'[u] = held[u]
    <3>1. Mine(u) /\ work[u] # i /\ work[u] \in Items
        BY <2>2, <1>2 DEF Busy, Executing
    <3> QED BY <3>1, <2>2, <1>1 DEF Mine, Typed
  <2> QED BY <2>1, <2>2, <1>3, <1>5
<1>6. Busy'
    BY <1>5 DEF Busy, Executing
<1>7. Alone'
    BY <1>2, <1>3, <1>4 DEF Alone, Executing
<1>8. Occupying' = Occupying \cup {i}
    BY <1>1 DEF Occupying, Typed
<1>9. IsFiniteSet(Occupying') /\ Cardinality(Occupying') <= Cardinality(Occupying) + 1
    BY <1>8, OneMore DEF Places
<1>10. Cardinality(Occupying) < Cap /\ \A j \in Occupying: j[2] # i[2]
    BY DEF Claim, Claimable
<1>11. Cardinality(Occupying') \in Nat /\ Cardinality(Occupying) \in Nat
    BY <1>9, FS_CardinalityType DEF Places
<1>12. Places'
    BY <1>8, <1>9, <1>10, <1>11, BatchAssumption DEF Places
<1> QED BY <1>6, <1>7, <1>12

LEMMA QueueKept ==
    ASSUME BatchInv, Next
    PROVE  Busy' /\ Alone' /\ Places'
<1> DEFINE Good == Busy' /\ Alone' /\ Places'
<1>0. Queue
    BY DEF BatchInv
<1> USE DEF Queue
<1>q. \A u \in Slots: pc[u] # "free" =>
        work[u] \in Items /\ status[work[u]] \in {"running", "unknown"}
    BY <1>0, WorkIsItem
<1>a. \A u, w \in Slots: pc[u] # "free" /\ pc[w] # "free" /\ u # w => work[u] # work[w]
    BY <1>0 DEF Alone, Executing
<1> HIDE DEF Queue
<1>1. CASE UNCHANGED <<status, token, pc, work, held>>
    BY <1>0, <1>1, <1>q, QueueShrinks
<1>2. ASSUME NEW b \in Batches, Start(b) PROVE Good
  <2>1. \A i \in Items: status'[i] \in {"running", "unknown"} => status[i] \in {"running", "unknown"}
      BY <1>2 DEF Start
  <2>2. \A i \in Items: status[i] \in {"running", "unknown"} => status'[i] \in {"running", "unknown"}
      BY <1>2 DEF Start
  <2>3. UNCHANGED <<token, pc, work, held>>
      BY <1>2 DEF Start, slots
  <2> QED BY <1>0, <1>q, <2>1, <2>2, <2>3, QueueShrinks
<1>3. ASSUME NEW b \in Batches, Cancel(b) PROVE Good
  <2>1. \A i \in Items: status'[i] \in {"running", "unknown"} => status[i] \in {"running", "unknown"}
      BY <1>3 DEF Cancel
  <2>2. \A i \in Items: status[i] \in {"running", "unknown"} => status'[i] \in {"running", "unknown"}
      BY <1>3 DEF Cancel
  <2>3. UNCHANGED <<token, pc, work, held>>
      BY <1>3 DEF Cancel, slots
  <2> QED BY <1>0, <1>q, <2>1, <2>2, <2>3, QueueShrinks
<1>4. ASSUME NEW i \in Items, NEW k \in RetryKeys, Retry(i, k) PROVE Good
  <2>1. status[i] = "failed" /\ status' = [status EXCEPT ![i] = "queued"] /\ token' = [token EXCEPT ![i] = 0]
        /\ UNCHANGED <<pc, work, held>>
      BY <1>4 DEF Retry, Retryable, slots
  <2>2. \A u \in Slots: pc[u] # "free" => work[u] # i
      BY <2>1, <1>q
  <2> QED BY <1>0, <1>q, <2>1, <2>2, QueueShrinks DEF Queue, Typed
<1>5. ASSUME NEW w \in Slots, NEW i \in Items, Claim(w, i) PROVE Good
    BY <1>0, <1>5, ClaimKeepsQueue
<1>6. ASSUME Recover PROVE Good
  <2>1. PICK f \in SUBSET Items, u \in SUBSET Items:
          /\ u = {i \in Items: status[i] = "unknown" \/ (status[i] = "running" /\ i \in lapsed)}
          /\ f = {i \in u: ResultsOf(i) # {}}
          /\ status' = [i \in Items |-> IF i \in f THEN "completed" ELSE IF i \in u THEN "unknown" ELSE status[i]]
      BY <1>6 DEF Recover
  <2>2. f = {}
      BY <2>1, NothingToFind DEF BatchInv
  <2>3. \A i \in Items: status'[i] \in {"running", "unknown"} <=> status[i] \in {"running", "unknown"}
      BY <2>1, <2>2
  <2>4. UNCHANGED <<token, pc, work, held>>
      BY <1>6 DEF Recover, slots
  <2> QED BY <1>0, <1>q, <2>3, <2>4, QueueShrinks
<1>7. ASSUME NEW w \in Slots, pc[w] # "free", Release(w), UNCHANGED token,
             \/ UNCHANGED status
             \/ \E s \in {"completed", "failed", "unknown"}: status' = [status EXCEPT ![work[w]] = s]
      PROVE  Good
  <2>1. \A u \in Slots: pc'[u] # "free" => u # w /\ pc[u] # "free" /\ work'[u] = work[u] /\ held'[u] = held[u]
      BY <1>0, <1>7 DEF Release, Queue, Typed
  <2>2. \A i \in Items: i # work[w] => status'[i] = status[i]
      BY <1>0, <1>7 DEF Queue, Typed
  <2>3. status[work[w]] \in {"running", "unknown"} /\ work[w] \in Items
      BY <1>7, <1>q
  <2> QED BY <1>0, <1>7, <1>q, <1>a, <2>1, <2>2, <2>3, QueueShrinks
<1>8. ASSUME NEW w \in Slots, Begin(w) PROVE Good
  <2>1. pc[w] # "free" /\ UNCHANGED token
      BY <1>8 DEF Begin
  <2>2. \/ Release(w) /\ (UNCHANGED status \/ status' = [status EXCEPT ![work[w]] = "completed"])
        \/ pc' = [pc EXCEPT ![w] = "calling"] /\ UNCHANGED <<status, work, held>>
      BY <1>8 DEF Begin, Completed
  <2>3. CASE Release(w) /\ (UNCHANGED status \/ status' = [status EXCEPT ![work[w]] = "completed"])
      BY <2>1, <2>3, <1>7
  <2>4. CASE pc' = [pc EXCEPT ![w] = "calling"] /\ UNCHANGED <<status, work, held>>
    <3>1. \A u \in Slots: pc'[u] # "free" => pc[u] # "free"
        BY <1>0, <2>1, <2>4 DEF Queue, Typed
    <3> QED BY <1>0, <1>q, <2>1, <2>4, <3>1, QueueShrinks
  <2> QED BY <2>2, <2>3, <2>4
<1>9. ASSUME NEW w \in Slots, NEW o \in {"failed", "unknown"}, Fail(w, o) PROVE Good
    BY <1>9, <1>7 DEF Fail
<1>10. ASSUME NEW w \in Slots, Save(w) PROVE Good
    BY <1>10, <1>7 DEF Save, Completed
<1>11. ASSUME NEW w \in Slots, ExecutionError(w) PROVE Good
    BY <1>11, <1>7 DEF ExecutionError, rows
<1>12. ASSUME NEW n \in Instances, Crash(n) PROVE Good
  <2>1. \A u \in Slots: pc'[u] # "free" => pc[u] # "free" /\ work'[u] = work[u] /\ held'[u] = held[u]
      BY <1>12 DEF Crash
  <2>2. UNCHANGED <<status, token>>
      BY <1>12 DEF Crash, rows
  <2> QED BY <1>0, <1>q, <2>1, <2>2, QueueShrinks
<1>13. (\E w \in Slots: Heartbeat(w)) \/ (\E i \in Items: LeaseLapses(i)) \/ SingleNext => Good
  <2>1. (\E w \in Slots: Heartbeat(w)) \/ (\E i \in Items: LeaseLapses(i)) => UNCHANGED <<status, token, pc, work, held>>
      BY DEF Heartbeat, LeaseLapses, slots
  <2>2. SingleNext => UNCHANGED <<status, token, pc, work, held>>
      BY DEF SingleNext, ChangeInputs, RunLoad, RunVersion, Refresh, RunReuse, RunAsk, RunFails, RunSave, rows, slots
  <2> QED BY <2>1, <2>2, <1>1
<1> HIDE DEF Good
<1>14. Good
    BY <1>2, <1>3, <1>4, <1>5, <1>6, <1>8, <1>9, <1>10, <1>11, <1>12, <1>13 DEF Next, QueueNext
<1> QED BY <1>14 DEF Good

-----------------------------------------------------------------------------
(* The evaluations: whose inputs they are from, and which is current.      *)

Stored == Inputs /\ Numbered /\ CurrentIsSound

LEMMA StoreKept ==
    ASSUME BatchInv, UNCHANGED store, live' \in [Applications -> 1..MaxInputs],
           \A a \in Applications: live[a] <= live'[a]
    PROVE  Stored'
<1>1. Inputs'
  <2> SUFFICES ASSUME NEW e \in Evaluations PROVE input'[e] <= live'[e[1]]
      BY DEF Inputs
  <2>1. input[e] \in Nat /\ live[e[1]] \in Nat /\ live'[e[1]] \in Nat
      BY EvaluationsArePairs DEF BatchInv, Queue, Typed
  <2>2. input[e] <= live[e[1]] /\ live[e[1]] <= live'[e[1]] /\ input'[e] = input[e]
      BY EvaluationsArePairs DEF BatchInv, Inputs, store
  <2> QED BY <2>1, <2>2
<1>2. Numbered'
    BY DEF BatchInv, Numbered, NewestOf, store
<1>3. CurrentIsSound'
    BY DEF BatchInv, CurrentIsSound, store
<1> QED BY <1>1, <1>2, <1>3 DEF Stored

\* A stored version takes a number nobody had, and is from inputs there were;
\* one a batch makes current is the newest and from the inputs of now, one
\* that is not current comes after all others.
LEMMA StoreAdds ==
    ASSUME BatchInv, NEW a \in Applications, NEW v \in 1..MaxVersions, NEW x \in 1..MaxInputs,
           NEW item \in Items \cup {NoItem}, NEW c \in BOOLEAN, Store(a, v, x, item, c),
           UNCHANGED live, input[<<a, v>>] = 0, x <= live[a],
           c = TRUE /\ item # NoItem => x = live[a],
           c = FALSE => \A u \in 1..MaxVersions: input[<<a, u>>] # 0 => u < v
    PROVE  Stored'
<1>0. Typed /\ Inputs /\ Numbered /\ CurrentIsSound /\ <<a, v>> \in Evaluations
    BY EvaluationsArePairs DEF BatchInv, Queue
<1>1. /\ input'[<<a, v>>] = x /\ madeBy'[<<a, v>>] = item
      /\ \A e \in Evaluations: e # <<a, v>> => input'[e] = input[e] /\ madeBy'[e] = madeBy[e]
    BY <1>0, StoreFacts
<1>2. Inputs'
    BY <1>0, <1>1 DEF Inputs
<1>3. Numbered'
  <2> SUFFICES ASSUME NEW b \in Applications PROVE \E m \in 0..MaxVersions: NewestOf(b, m)'
      BY DEF Numbered
  <2>1. PICK m \in 0..MaxVersions: NewestOf(b, m)
      BY <1>0 DEF Numbered
  <2>2. CASE b # a
    <3>1. \A u \in 1..MaxVersions: input'[<<b, u>>] = input[<<b, u>>]
        BY <1>1, <2>2, EvaluationsArePairs
    <3>2. m > 0 => m \in 1..MaxVersions
        OBVIOUS
    <3>3. NewestOf(b, m)'
        BY <2>1, <3>1, <3>2 DEF NewestOf
    <3> QED BY <3>3
  <2>3. CASE b = a
    <3> DEFINE k == IF v > m THEN v ELSE m
    <3>1. k \in 0..MaxVersions /\ (k = v \/ k = m) /\ k >= v /\ k >= m
        BY VersionsAreNumbers
    <3> HIDE DEF k
    <3>2. \A u \in 1..MaxVersions: u # v => input'[<<b, u>>] = input[<<b, u>>]
        BY <1>1, <2>3, EvaluationsArePairs
    <3>3. input'[<<b, v>>] # 0
        BY <1>1, <2>3
    <3>4. k > 0 => input'[<<b, k>>] # 0
      <4>1. CASE k = v
          BY <3>3, <4>1
      <4>2. CASE k = m /\ k # v
        <5>1. k > 0 => k \in 1..MaxVersions /\ input[<<b, k>>] # 0
            BY <2>1, <4>2, <3>1 DEF NewestOf
        <5> QED BY <5>1, <4>2, <3>2
      <4> QED BY <3>1, <4>1, <4>2
    <3>5. \A u \in 1..MaxVersions: input'[<<b, u>>] # 0 => u <= k
      <4> SUFFICES ASSUME NEW u \in 1..MaxVersions, input'[<<b, u>>] # 0 PROVE u <= k
          OBVIOUS
      <4>1. CASE u = v
          BY <4>1, <3>1
      <4>2. CASE u # v
        <5>1. u <= m
            BY <4>2, <3>2, <2>1 DEF NewestOf
        <5> QED BY <5>1, <3>1
      <4> QED BY <4>1, <4>2
    <3>6. NewestOf(b, k)'
        BY <3>4, <3>5 DEF NewestOf
    <3> QED BY <3>1, <3>6
  <2> QED BY <2>2, <2>3
<1>4. CurrentIsSound'
  <2>1. CASE c = TRUE
    <3>1. fresh' = {e \in fresh: e[1] # a} \cup {<<a, v>>}
        BY <2>1 DEF Store
    <3>2. ASSUME NEW e \in fresh' PROVE \A f \in fresh': e[1] = f[1] => e = f
        BY <1>0, <3>1 DEF CurrentIsSound
    <3>3. ASSUME NEW e \in fresh', madeBy'[e] # NoItem
          PROVE  \A u \in 1..e[2]: input'[<<e[1], u>>] <= input'[e]
      <4>1. CASE e = <<a, v>>
        <5>1. input'[e] = live[a]
            BY <4>1, <1>1, <2>1, <3>3
        <5>2. \A u \in 1..v: <<a, u>> \in Evaluations
            BY EvaluationsArePairs, VersionsAreNumbers
        <5> QED BY <5>1, <5>2, <4>1, <1>2 DEF Inputs
      <4>2. CASE e \in fresh /\ e[1] # a
        <5>1. e \in Evaluations
            BY <4>2, <1>0 DEF Typed
        <5>2. e # <<a, v>> /\ madeBy'[e] = madeBy[e] /\ input'[e] = input[e]
            BY <4>2, <5>1, <1>1
        <5>3. \A u \in 1..e[2]: <<e[1], u>> \in Evaluations /\ <<e[1], u>> # <<a, v>>
            BY <5>1, <4>2, EvaluationsArePairs, VersionsAreNumbers
        <5> QED BY <5>2, <5>3, <4>2, <3>3, <1>0, <1>1 DEF CurrentIsSound
      <4> QED BY <3>1, <4>1, <4>2
    <3> QED BY <3>2, <3>3 DEF CurrentIsSound
  <2>2. CASE c = FALSE
    <3>1. fresh' = fresh
        BY <2>2 DEF Store
    <3>2. ASSUME NEW e \in fresh, madeBy'[e] # NoItem
          PROVE  \A u \in 1..e[2]: input'[<<e[1], u>>] <= input'[e]
      <4>1. e \in Evaluations /\ input[e] # 0 /\ e = <<e[1], e[2]>> /\ e[2] \in 1..MaxVersions
          BY <1>0, EvaluationsArePairs DEF Typed
      <4>2. e[1] = a => e[2] < v
          BY <4>1, <2>2
      <4>3. \A u \in 1..e[2]: <<e[1], u>> \in Evaluations /\ <<e[1], u>> # <<a, v>>
        <5>1. \A u \in 1..e[2]: u \in 1..MaxVersions /\ u <= e[2]
            BY <4>1, VersionsAreNumbers
        <5> QED BY <5>1, <4>1, <4>2, EvaluationsArePairs
      <4>4. e # <<a, v>>
          BY <4>1, <4>2
      <4> QED BY <4>1, <4>3, <4>4, <3>2, <1>0, <1>1 DEF CurrentIsSound
    <3> QED BY <3>1, <3>2, <1>0 DEF CurrentIsSound
  <2> QED BY <2>1, <2>2
<1> QED BY <1>2, <1>3, <1>4 DEF Stored

\* What a batch's execution stores, and what a single screening stores.
LEMMA SaveStores ==
    ASSUME BatchInv, NEW w \in Slots, Save(w)
    PROVE  \E i \in Items, v \in 1..MaxVersions:
              /\ i = work[w] /\ i[2] \in Applications
              /\ v > LatestVersion(i[2])
              /\ Store(i[2], v, snapshot[i], i, snapshot[i] = live[i[2]])
              /\ Completed(i, v) /\ Release(w)
              /\ input[<<i[2], v>>] = 0
              /\ snapshot[i] \in 1..MaxInputs /\ snapshot[i] <= live[i[2]]
              /\ status[i] \in {"running", "unknown"}
<1> DEFINE i == work[w]
           v == LatestVersion(i[2]) + 1
<1>1. Typed /\ Busy /\ Numbered /\ Frozen /\ pc[w] # "free"
    BY DEF BatchInv, Queue, Save
<1>2. i \in Items /\ i[2] \in Applications /\ Mine(w) /\ status[i] \in {"running", "unknown"}
    BY <1>1, WorkIsItem
<1>3. LatestVersion(i[2]) \in 0..MaxVersions /\ \A u \in 1..MaxVersions: input[<<i[2], u>>] # 0 => u <= LatestVersion(i[2])
    BY <1>1, <1>2, LatestFacts
<1>4. v <= MaxVersions
    BY DEF Save
<1>5. v \in 1..MaxVersions /\ v > LatestVersion(i[2])
    BY <1>3, <1>4, VersionsAreNumbers
<1>6. input[<<i[2], v>>] = 0
    BY <1>3, <1>5, VersionsAreNumbers
<1>7. snapshot[i] \in 1..MaxInputs /\ snapshot[i] <= live[i[2]]
    BY <1>1, <1>2, BatchAssumption DEF Frozen, Typed
<1>8. Completed(i, v) /\ Store(i[2], v, snapshot[i], i, snapshot[i] = live[i[2]]) /\ Release(w)
    BY <1>2 DEF Save
<1> HIDE DEF i, v
<1>9. i = work[w]
    BY DEF i
<1> QED BY <1>2, <1>5, <1>6, <1>7, <1>8, <1>9

LEMMA RunStores ==
    ASSUME BatchInv, NEW d \in Desks, RunSave(d)
    PROVE  \/ UNCHANGED store
           \/ /\ d[2] \in Applications /\ next[d] \in 1..MaxVersions /\ seen[d] \in 1..MaxInputs
              /\ seen[d] <= live[d[2]]
              /\ input[<<d[2], next[d]>>] = 0
              /\ Store(d[2], next[d], seen[d], NoItem, TRUE)
<1>1. d[2] \in Applications /\ next[d] \in 1..MaxVersions /\ seen[d] \in 1..MaxInputs /\ seen[d] <= live[d[2]]
    BY BatchAssumption, VersionsAreNumbers DEF RunSave, BatchInv, Queue, Typed, DeskOK, Desks
<1> QED BY <1>1 DEF RunSave

LEMMA StoredKept ==
    ASSUME BatchInv, Next
    PROVE  Stored'
<1>1. CASE UNCHANGED <<live, store>>
  <2>1. \A a \in Applications: live[a] <= live[a]
      BY DEF BatchInv, Queue, Typed
  <2> QED BY <1>1, <2>1, StoreKept DEF BatchInv, Queue, Typed
<1>2. ASSUME NEW a \in Applications, ChangeInputs(a) PROVE Stored'
  <2>1. live' = [live EXCEPT ![a] = live[a] + 1] /\ live[a] < MaxInputs /\ UNCHANGED store
      BY <1>2 DEF ChangeInputs
  <2>2. live \in [Applications -> 1..MaxInputs] /\ MaxInputs \in Nat
      BY BatchAssumption DEF BatchInv, Queue, Typed
  <2>3. live' \in [Applications -> 1..MaxInputs] /\ \A b \in Applications: live[b] <= live'[b]
      BY <2>1, <2>2
  <2> QED BY <2>1, <2>3, StoreKept
<1>3. ASSUME NEW w \in Slots, Save(w) PROVE Stored'
  <2>1. PICK i \in Items, v \in 1..MaxVersions:
              /\ i = work[w] /\ i[2] \in Applications
              /\ v > LatestVersion(i[2])
              /\ Store(i[2], v, snapshot[i], i, snapshot[i] = live[i[2]])
              /\ input[<<i[2], v>>] = 0
              /\ snapshot[i] \in 1..MaxInputs /\ snapshot[i] <= live[i[2]]
      BY <1>3, SaveStores
  <2>2. LatestVersion(i[2]) \in 0..MaxVersions /\ \A u \in 1..MaxVersions: input[<<i[2], u>>] # 0 => u <= LatestVersion(i[2])
      BY <2>1, LatestFacts DEF BatchInv
  <2>3. \A u \in 1..MaxVersions: input[<<i[2], u>>] # 0 => u < v
      BY <2>1, <2>2, VersionsAreNumbers
  <2>4. UNCHANGED live
      BY <1>3 DEF Save
  <2> DEFINE c == snapshot[i] = live[i[2]]
  <2>5. c \in BOOLEAN /\ (c = TRUE => snapshot[i] = live[i[2]]) /\ Store(i[2], v, snapshot[i], i, c)
      BY <2>1
  <2> HIDE DEF c
  <2> QED BY <2>1, <2>3, <2>4, <2>5, StoreAdds
<1>4. ASSUME NEW d \in Desks, RunSave(d) PROVE Stored'
  <2>1. UNCHANGED live
      BY <1>4 DEF RunSave
  <2> QED BY <1>1, <1>4, <2>1, RunStores, StoreAdds
<1>5. QueueNext => (\E w \in Slots: Save(w)) \/ UNCHANGED <<live, store>>
    BY DEF QueueNext, Start, Cancel, Retry, Claim, Recover, Begin, Heartbeat, Fail, ExecutionError, LeaseLapses, Crash
<1>6. SingleNext => \/ \E a \in Applications: ChangeInputs(a)
                    \/ \E d \in Desks: RunSave(d)
                    \/ UNCHANGED <<live, store>>
    BY DEF SingleNext, RunLoad, RunVersion, Refresh, RunReuse, RunAsk, RunFails
<1> QED BY <1>1, <1>2, <1>3, <1>4, <1>5, <1>6 DEF Next

-----------------------------------------------------------------------------
(* The items' frozen inputs, the screenings under way, the items' results. *)

LEMMA LiveGrows ==
    ASSUME Typed, Next
    PROVE  \A a \in Applications: live[a] <= live'[a] /\ live[a] \in 1..MaxInputs
<1>1. ASSUME NEW a \in Applications, ChangeInputs(a) PROVE \A b \in Applications: live[b] <= live'[b]
    BY <1>1, BatchAssumption DEF Typed, ChangeInputs
<1>2. UNCHANGED live => \A b \in Applications: live[b] <= live'[b]
    BY BatchAssumption DEF Typed
<1>3. QueueNext => UNCHANGED live
    BY DEF QueueNext, Start, Cancel, Retry, Claim, Recover, Begin, Heartbeat, Fail, Save, ExecutionError, LeaseLapses, Crash
<1>4. SingleNext => UNCHANGED live \/ \E a \in Applications: ChangeInputs(a)
    BY DEF SingleNext, RunLoad, RunVersion, Refresh, RunReuse, RunAsk, RunFails, RunSave
<1> QED BY <1>1, <1>2, <1>3, <1>4 DEF Next, Typed

\* An item that takes part keeps its frozen inputs; one that starts takes those of now.
LEMMA ItemsKeep ==
    ASSUME BatchInv, Next, NEW i \in Items
    PROVE  /\ \/ status'[i] # "absent" => status[i] # "absent" /\ snapshot'[i] = snapshot[i]
              \/ status'[i] = "queued" /\ snapshot'[i] = live[i[2]]
           /\ status[i] = "completed" => status'[i] = "completed" /\ result'[i] = result[i] /\ snapshot'[i] = snapshot[i]
<1> DEFINE A == \/ status'[i] # "absent" => status[i] # "absent" /\ snapshot'[i] = snapshot[i]
                \/ status'[i] = "queued" /\ snapshot'[i] = live[i[2]]
           B == status[i] = "completed" => status'[i] = "completed" /\ result'[i] = result[i] /\ snapshot'[i] = snapshot[i]
<1>0. /\ status \in [Items -> {"absent", "queued", "running", "completed", "failed", "cancelled", "unknown"}]
      /\ result \in [Items -> 0..MaxVersions]
    BY DEF BatchInv, Queue, Typed
<1>1. CASE UNCHANGED <<status, snapshot, result>>
    BY <1>1
<1>2. ASSUME NEW b \in Batches, Start(b) PROVE A /\ B
    BY <1>2, <1>0 DEF Start
<1>3. ASSUME NEW b \in Batches, Cancel(b) PROVE A /\ B
    BY <1>3, <1>0 DEF Cancel
<1>4. ASSUME NEW j \in Items, NEW s \in {"queued", "running", "failed", "unknown", "completed"},
             status[j] \notin {"absent", "completed"}, status' = [status EXCEPT ![j] = s], UNCHANGED snapshot,
             UNCHANGED result \/ \E v: result' = [result EXCEPT ![j] = v]
      PROVE  A /\ B
    BY <1>4, <1>0
<1>5. ASSUME NEW j \in Items, NEW k \in RetryKeys, Retry(j, k) PROVE A /\ B
    BY <1>5, <1>4 DEF Retry, Retryable
<1>6. ASSUME NEW w \in Slots, NEW j \in Items, Claim(w, j) PROVE A /\ B
    BY <1>6, <1>4 DEF Claim, Claimable
<1>7. ASSUME Recover PROVE A /\ B
  <2>1. PICK f \in SUBSET Items, u \in SUBSET Items:
          /\ u = {j \in Items: status[j] = "unknown" \/ (status[j] = "running" /\ j \in lapsed)}
          /\ f = {j \in u: ResultsOf(j) # {}}
          /\ status' = [j \in Items |-> IF j \in f THEN "completed" ELSE IF j \in u THEN "unknown" ELSE status[j]]
      BY <1>7 DEF Recover
  <2>2. f = {}
      BY <2>1, NothingToFind DEF BatchInv
  <2>3. status'[i] = (IF i \in u THEN "unknown" ELSE status[i])
      BY <2>1, <2>2
  <2>4. \A j \in Items: status[j] \in {"running", "unknown"} => ResultsOf(j) = {}
      BY NothingToFind DEF BatchInv
  <2>5. result'[i] = result[i] /\ snapshot' = snapshot
      BY <1>7, <2>4 DEF Recover
  <2> QED BY <2>1, <2>3, <2>5
<1>8. ASSUME NEW w \in Slots, pc[w] # "free", UNCHANGED snapshot,
             \/ UNCHANGED <<status, result>>
             \/ \E v: Completed(work[w], v)
             \/ \E o \in {"failed", "unknown"}: status' = [status EXCEPT ![work[w]] = o] /\ UNCHANGED result
      PROVE  A /\ B
  <2>1. work[w] \in Items /\ status[work[w]] \notin {"absent", "completed"}
      BY <1>8, WorkIsItem DEF BatchInv, Queue
  <2>2. CASE \E v: Completed(work[w], v)
      BY <2>1, <2>2, <1>4, <1>8 DEF Completed
  <2>3. CASE \E o \in {"failed", "unknown"}: status' = [status EXCEPT ![work[w]] = o] /\ UNCHANGED result
      BY <2>1, <2>3, <1>4, <1>8
  <2> QED BY <1>1, <1>8, <2>2, <2>3
<1>9. ASSUME NEW w \in Slots, Begin(w) PROVE A /\ B
    BY <1>9, <1>8 DEF Begin
<1>10. ASSUME NEW w \in Slots, NEW o \in {"failed", "unknown"}, Fail(w, o) PROVE A /\ B
    BY <1>10, <1>8 DEF Fail
<1>11. ASSUME NEW w \in Slots, Save(w) PROVE A /\ B
    BY <1>11, <1>8 DEF Save
<1>12. (\E w \in Slots: Heartbeat(w)) \/ (\E w \in Slots: ExecutionError(w)) \/ (\E j \in Items: LeaseLapses(j))
         \/ (\E n \in Instances: Crash(n)) \/ SingleNext => UNCHANGED <<status, snapshot, result>>
  <2>1. SingleNext => UNCHANGED rows
      BY DEF SingleNext, ChangeInputs, RunLoad, RunVersion, Refresh, RunReuse, RunAsk, RunFails, RunSave
  <2> QED BY <2>1 DEF Heartbeat, ExecutionError, LeaseLapses, Crash, rows
<1> HIDE DEF A, B
<1>13. UNCHANGED <<status, snapshot, result>> => A /\ B
    BY <1>1 DEF A, B
<1>14. A /\ B
    BY <1>2, <1>3, <1>5, <1>6, <1>7, <1>9, <1>10, <1>11, <1>12, <1>13 DEF Next, QueueNext
<1> QED BY <1>14 DEF A, B

LEMMA FrozenKept ==
    ASSUME BatchInv, Next
    PROVE  Frozen'
<1> SUFFICES ASSUME NEW i \in Items, status'[i] # "absent"
             PROVE  snapshot'[i] > 0 /\ snapshot'[i] <= live'[i[2]]
    BY DEF Frozen
<1>1. live[i[2]] <= live'[i[2]] /\ live[i[2]] \in 1..MaxInputs
    BY LiveGrows, ItemsArePairs DEF BatchInv, Queue
<1>2. live'[i[2]] \in 1..MaxInputs
    BY TypesKept, ItemsArePairs DEF Typed
<1>3. snapshot[i] \in 0..MaxInputs
    BY DEF BatchInv, Queue, Typed
<1>4. CASE status[i] # "absent" /\ snapshot'[i] = snapshot[i]
    BY <1>1, <1>2, <1>3, <1>4, BatchAssumption DEF BatchInv, Frozen
<1>5. CASE snapshot'[i] = live[i[2]]
    BY <1>1, <1>2, <1>5, BatchAssumption
<1> QED BY <1>4, <1>5, ItemsKeep

LEMMA DesksKept ==
    ASSUME BatchInv, Next
    PROVE  DeskOK'
<1> DEFINE OK(d) == /\ seen'[d] <= live'[d[2]]
                    /\ desk'[d] # "free" => seen'[d] > 0
                    /\ desk'[d] \in {"ready", "calling"} => next'[d] > 0
<1> SUFFICES ASSUME NEW d \in Desks PROVE OK(d)
    BY DEF DeskOK
<1>0. /\ d[2] \in Applications
      /\ live[d[2]] \in 1..MaxInputs /\ live'[d[2]] \in 1..MaxInputs /\ live[d[2]] <= live'[d[2]]
      /\ seen[d] \in 0..MaxInputs /\ next[d] \in 0..(MaxVersions + 1) /\ MaxVersions \in Nat /\ MaxInputs \in Nat
    BY LiveGrows, TypesKept, BatchAssumption, VersionsAreNumbers DEF BatchInv, Queue, Typed, Desks
<1>1. seen[d] <= live[d[2]] /\ (desk[d] # "free" => seen[d] > 0) /\ (desk[d] \in {"ready", "calling"} => next[d] > 0)
    BY DEF BatchInv, DeskOK
<1>2. CASE desk'[d] = desk[d] /\ seen'[d] = seen[d] /\ next'[d] = next[d]
    BY <1>0, <1>1, <1>2
<1>3. CASE desk'[d] = "free" /\ seen'[d] = 0
    BY <1>0, <1>3
<1>t. desk \in [Desks -> {"free", "loaded", "ready", "calling"}] /\ seen \in [Desks -> 0..MaxInputs]
      /\ next \in [Desks -> 0..(MaxVersions + 1)]
    BY DEF BatchInv, Queue, Typed
<1>4. ASSUME NEW c \in Desks, Leave(c) PROVE OK(d)
    BY <1>2, <1>3, <1>4, <1>t DEF Leave
<1>5. ASSUME NEW c \in Desks, RunLoad(c) PROVE OK(d)
  <2>1. CASE c = d
      BY <2>1, <1>0, <1>5, <1>t DEF RunLoad
  <2> QED BY <2>1, <1>2, <1>5, <1>t DEF RunLoad
<1>6. ASSUME NEW c \in Desks, RunVersion(c) PROVE OK(d)
  <2>1. CASE c = d
    <3>1. LatestVersion(d[2]) \in 0..MaxVersions
        BY <1>0, LatestIsNumber DEF BatchInv
    <3>2. desk[d] = "loaded" /\ next'[d] = LatestVersion(d[2]) + 1 /\ seen'[d] = seen[d]
        BY <2>1, <1>6, <1>t DEF RunVersion
    <3> QED BY <3>1, <3>2, <1>0, <1>1
  <2> QED BY <2>1, <1>2, <1>6, <1>t DEF RunVersion
<1>7. ASSUME NEW c \in Desks, NEW v \in 1..MaxVersions, Refresh(c, v) PROVE OK(d)
  <2>1. CASE c = d
      BY <2>1, <1>0, <1>7, <1>t DEF Refresh
  <2> QED BY <2>1, <1>2, <1>7, <1>t DEF Refresh
<1>8. ASSUME NEW c \in Desks, RunAsk(c) PROVE OK(d)
  <2>1. seen'[d] = seen[d] /\ next'[d] = next[d] /\ (desk'[d] = desk[d] \/ desk[d] = "ready")
      BY <1>8, <1>t DEF RunAsk
  <2> QED BY <2>1, <1>0, <1>1
<1>9. ASSUME NEW n \in Instances, Crash(n) PROVE OK(d)
    BY <1>2, <1>3, <1>9 DEF Crash
<1>10. CASE UNCHANGED <<desk, seen, next>>
    BY <1>2, <1>10
<1>11. QueueNext => UNCHANGED <<desk, seen, next>> \/ \E n \in Instances: Crash(n)
    BY DEF QueueNext, Start, Cancel, Retry, Claim, Recover, Begin, Heartbeat, Fail, Save, ExecutionError, LeaseLapses, desks
<1>12. SingleNext => \/ UNCHANGED <<desk, seen, next>>
                     \/ \E c \in Desks: Leave(c) \/ RunLoad(c) \/ RunVersion(c) \/ RunAsk(c)
                     \/ \E c \in Desks, v \in 1..MaxVersions: Refresh(c, v)
    BY DEF SingleNext, ChangeInputs, RunReuse, RunFails, RunSave, desks
<1> HIDE DEF OK
<1> QED BY <1>4, <1>5, <1>6, <1>7, <1>8, <1>9, <1>10, <1>11, <1>12 DEF Next

\* An item that is completed by a step has just got its result, from its frozen inputs.
LEMMA CompletedNow ==
    ASSUME BatchInv, Next, NEW i \in Items, status'[i] = "completed", status[i] # "completed"
    PROVE  result'[i] > 0 /\ input'[<<i[2], result'[i]>>] = snapshot'[i]
<1> DEFINE Done == result'[i] > 0 /\ input'[<<i[2], result'[i]>>] = snapshot'[i]
<1>0. /\ status \in [Items -> {"absent", "queued", "running", "completed", "failed", "cancelled", "unknown"}]
      /\ result \in [Items -> 0..MaxVersions] /\ Typed /\ Busy
    BY DEF BatchInv, Queue, Typed
<1>1. ASSUME NEW w \in Slots, Begin(w) PROVE Done
  <2>1. pc[w] # "free" /\ UNCHANGED <<snapshot, store>>
      BY <1>1 DEF Begin
  <2>2. work[w] \in Items /\ work[w][2] \in Applications
      BY <2>1, <1>0, WorkIsItem
  <2>3. work[w] = i /\ Reusable(i[2], snapshot[i]) /\ Completed(i, LatestVersion(i[2]))
      BY <1>1, <1>0, <2>2 DEF Begin, Completed
  <2>4. result'[i] = LatestVersion(i[2])
      BY <2>3, <1>0 DEF Completed
  <2> QED BY <2>1, <2>3, <2>4 DEF Reusable, store
<1>2. ASSUME NEW w \in Slots, Save(w) PROVE Done
  <2>1. PICK j \in Items, v \in 1..MaxVersions:
              /\ j = work[w] /\ j[2] \in Applications
              /\ Store(j[2], v, snapshot[j], j, snapshot[j] = live[j[2]])
              /\ Completed(j, v)
              /\ snapshot[j] \in 1..MaxInputs
      BY <1>2, SaveStores
  <2>2. j = i /\ result'[i] = v
      BY <2>1, <1>0 DEF Completed
  <2>3. input'[<<i[2], v>>] = snapshot[i]
    <3>1. <<i[2], v>> \in Evaluations
        BY <2>1, <2>2, EvaluationsArePairs
    <3> QED BY <3>1, <2>1, <2>2, <1>0 DEF Store, Typed
  <2>4. snapshot' = snapshot
      BY <1>2 DEF Save
  <2> QED BY <2>1, <2>2, <2>3, <2>4
<1>3. ~\E b \in Batches: Start(b) \/ Cancel(b)
    BY DEF Start, Cancel
<1>4. ~\E j \in Items, k \in RetryKeys: Retry(j, k)
    BY <1>0 DEF Retry
<1>5. ~\E w \in Slots, j \in Items: Claim(w, j)
    BY <1>0 DEF Claim
<1>6. ~Recover
  <2> SUFFICES ASSUME Recover PROVE FALSE
      OBVIOUS
  <2>1. PICK f \in SUBSET Items, u \in SUBSET Items:
          /\ u = {j \in Items: status[j] = "unknown" \/ (status[j] = "running" /\ j \in lapsed)}
          /\ f = {j \in u: ResultsOf(j) # {}}
          /\ status' = [j \in Items |-> IF j \in f THEN "completed" ELSE IF j \in u THEN "unknown" ELSE status[j]]
      BY DEF Recover
  <2>2. f = {}
      BY <2>1, NothingToFind DEF BatchInv
  <2> QED BY <2>1, <2>2
<1>7. ~\E w \in Slots, o \in {"failed", "unknown"}: Fail(w, o)
  <2> SUFFICES ASSUME NEW w \in Slots, NEW o \in {"failed", "unknown"}, Fail(w, o) PROVE FALSE
      OBVIOUS
  <2>1. UNCHANGED status \/ status' = [status EXCEPT ![work[w]] = o]
      BY DEF Fail
  <2> QED BY <2>1, <1>0
<1>8. (\E w \in Slots: Heartbeat(w)) \/ (\E w \in Slots: ExecutionError(w)) \/ (\E j \in Items: LeaseLapses(j))
         \/ (\E n \in Instances: Crash(n)) \/ SingleNext => UNCHANGED status
    BY DEF Heartbeat, ExecutionError, LeaseLapses, Crash, rows,
           SingleNext, ChangeInputs, RunLoad, RunVersion, Refresh, RunReuse, RunAsk, RunFails, RunSave
<1> HIDE DEF Done
<1>9. Done
    BY <1>1, <1>2, <1>3, <1>4, <1>5, <1>6, <1>7, <1>8 DEF Next, QueueNext
<1> QED BY <1>9 DEF Done

\* A stored version stays as it is; one that is new names no item, or the item
\* its step completes with it.
LEMMA VersionsStay ==
    ASSUME BatchInv, Next, NEW e \in Evaluations
    PROVE  /\ input[e] # 0 => input'[e] = input[e] /\ madeBy'[e] = madeBy[e]
           /\ input[e] = 0 /\ input'[e] # 0 =>
                \/ madeBy'[e] = NoItem
                \/ /\ madeBy'[e] \in Items /\ status'[madeBy'[e]] = "completed" /\ result'[madeBy'[e]] = e[2]
<1> DEFINE Goal == /\ input[e] # 0 => input'[e] = input[e] /\ madeBy'[e] = madeBy[e]
                   /\ input[e] = 0 /\ input'[e] # 0 =>
                        \/ madeBy'[e] = NoItem
                        \/ madeBy'[e] \in Items /\ status'[madeBy'[e]] = "completed" /\ result'[madeBy'[e]] = e[2]
<1>0. Typed
    BY DEF BatchInv, Queue
<1>1. CASE UNCHANGED store
    BY <1>1 DEF store
<1>2. ASSUME NEW w \in Slots, Save(w) PROVE Goal
  <2>1. PICK i \in Items, v \in 1..MaxVersions:
              /\ i[2] \in Applications
              /\ Store(i[2], v, snapshot[i], i, snapshot[i] = live[i[2]])
              /\ Completed(i, v)
              /\ input[<<i[2], v>>] = 0
              /\ snapshot[i] \in 1..MaxInputs
      BY <1>2, SaveStores
  <2> DEFINE c == snapshot[i] = live[i[2]]
  <2>2. c \in BOOLEAN /\ Store(i[2], v, snapshot[i], i, c)
      BY <2>1
  <2> HIDE DEF c
  <2>3. madeBy'[<<i[2], v>>] = i /\ (e # <<i[2], v>> => input'[e] = input[e] /\ madeBy'[e] = madeBy[e])
      BY <2>1, <2>2, <1>0, StoreFacts
  <2>4. status'[i] = "completed" /\ result'[i] = v
      BY <2>1, <1>0 DEF Completed, Typed
  <2> QED BY <2>1, <2>3, <2>4
<1>3. ASSUME NEW d \in Desks, RunSave(d) PROVE Goal
  <2>1. CASE /\ d[2] \in Applications /\ next[d] \in 1..MaxVersions /\ seen[d] \in 1..MaxInputs
             /\ input[<<d[2], next[d]>>] = 0
             /\ Store(d[2], next[d], seen[d], NoItem, TRUE)
    <3>1. PICK a \in Applications, v \in 1..MaxVersions: input[<<a, v>>] = 0 /\ Store(a, v, seen[d], NoItem, TRUE)
        BY <2>1
    <3>2. \A f \in Evaluations: f # <<a, v>> => input'[f] = input[f] /\ madeBy'[f] = madeBy[f]
        BY <3>1, <1>0 DEF Store, Typed
    <3>3. madeBy'[<<a, v>>] = NoItem
        BY <3>1, <1>0, EvaluationsArePairs DEF Store, Typed
    <3> QED BY <3>1, <3>2, <3>3
  <2> QED BY <1>1, <1>3, <2>1, RunStores
<1>4. QueueNext => (\E w \in Slots: Save(w)) \/ UNCHANGED store
    BY DEF QueueNext, Start, Cancel, Retry, Claim, Recover, Begin, Heartbeat, Fail, ExecutionError, LeaseLapses, Crash
<1>5. SingleNext => (\E d \in Desks: RunSave(d)) \/ UNCHANGED store
    BY DEF SingleNext, ChangeInputs, RunLoad, RunVersion, Refresh, RunReuse, RunAsk, RunFails
<1> HIDE DEF Goal
<1>6. UNCHANGED store => Goal
    BY <1>1 DEF Goal
<1>7. Goal
    BY <1>2, <1>3, <1>4, <1>5, <1>6 DEF Next
<1> QED BY <1>7 DEF Goal

LEMMA ResultsKept ==
    ASSUME BatchInv, Next
    PROVE  Results'
<1> SUFFICES ASSUME NEW i \in Items
             PROVE  /\ \A v \in ResultsOf(i)': status'[i] = "completed" /\ result'[i] = v
                    /\ status'[i] = "completed" =>
                         result'[i] > 0 /\ input'[<<i[2], result'[i]>>] = snapshot'[i]
    BY DEF Results
<1>0. Typed /\ Results /\ Frozen /\ i[2] \in Applications /\ i # NoItem
    BY ItemsArePairs, BatchAssumption DEF BatchInv, Queue
<1>1. status[i] = "completed" => status'[i] = "completed" /\ result'[i] = result[i] /\ snapshot'[i] = snapshot[i]
    BY ItemsKeep
<1>2. ASSUME NEW v \in ResultsOf(i)' PROVE status'[i] = "completed" /\ result'[i] = v
  <2> DEFINE e == <<i[2], v>>
  <2>1. v \in 1..MaxVersions /\ input'[e] # 0 /\ madeBy'[e] = i /\ e \in Evaluations /\ e[2] = v
      BY <1>0, <1>2, EvaluationsArePairs DEF ResultsOf
  <2> HIDE DEF e
  <2>2. CASE input[e] # 0
    <3>1. v \in ResultsOf(i)
        BY <2>1, <2>2, VersionsStay DEF ResultsOf, e
    <3> QED BY <3>1, <1>0, <1>1 DEF Results
  <2>3. CASE input[e] = 0
      BY <2>1, <2>3, <1>0, VersionsStay
  <2> QED BY <2>2, <2>3
<1>3. ASSUME status'[i] = "completed" PROVE result'[i] > 0 /\ input'[<<i[2], result'[i]>>] = snapshot'[i]
  <2>1. CASE status[i] = "completed"
    <3>1. result[i] > 0 /\ input[<<i[2], result[i]>>] = snapshot[i] /\ snapshot[i] > 0
        BY <2>1, <1>0 DEF Results, Frozen
    <3>2. <<i[2], result[i]>> \in Evaluations
        BY <3>1, <1>0, EvaluationsArePairs, VersionsAreNumbers DEF Typed
    <3>3. input'[<<i[2], result[i]>>] = input[<<i[2], result[i]>>]
        BY <3>1, <3>2, <1>0, VersionsStay, BatchAssumption DEF Typed
    <3> QED BY <2>1, <1>1, <3>1, <3>3
  <2>2. CASE status[i] # "completed"
      BY <2>2, <1>3, CompletedNow
  <2> QED BY <2>1, <2>2
<1> QED BY <1>2, <1>3

-----------------------------------------------------------------------------
(* The invariant and what follows from it.                                 *)

LEMMA BatchInit == Init => BatchInv
<1> SUFFICES ASSUME Init PROVE BatchInv
    OBVIOUS
<1>0. MaxVersions \in Nat /\ MaxInputs \in Nat \ {0} /\ Cap \in Nat \ {0}
    BY BatchAssumption, VersionsAreNumbers
<1>1. Typed
    BY <1>0 DEF Init, Typed
<1>2. Occupying = {} /\ Executing = {}
    BY DEF Init, Occupying, Executing
<1>3. Busy /\ Alone /\ Places
    BY <1>0, <1>2, FS_EmptySet DEF Busy, Alone, Places
<1>4. Frozen /\ Inputs /\ DeskOK
    BY EvaluationsArePairs DEF Init, Frozen, Inputs, DeskOK, Desks
<1>5. Numbered
  <2>1. \A a \in Applications: NewestOf(a, 0)
      BY EvaluationsArePairs DEF Init, NewestOf
  <2> QED BY <1>0, <2>1 DEF Numbered
<1>6. Results
    BY EvaluationsArePairs, ItemsArePairs DEF Init, Results, ResultsOf
<1>7. CurrentIsSound
    BY DEF Init, CurrentIsSound
<1> QED BY <1>1, <1>3, <1>4, <1>5, <1>6, <1>7 DEF BatchInv, Queue

LEMMA BatchStep == BatchInv /\ [Next]_vars => BatchInv'
<1>1. ASSUME BatchInv, Next PROVE BatchInv'
    BY <1>1, TypesKept, QueueKept, StoredKept, FrozenKept, DesksKept, ResultsKept DEF BatchInv, Queue, Stored
<1>2. ASSUME BatchInv, UNCHANGED vars PROVE BatchInv'
    BY <1>2 DEF vars, rows, store, slots, desks, BatchInv, Queue, Typed, Busy, Mine, Alone, Executing, Places, Occupying,
                Frozen, Inputs, DeskOK, Numbered, NewestOf, Results, ResultsOf, CurrentIsSound
<1> QED BY <1>1, <1>2

\* The executions of all instances, their places, the frozen inputs and the
\* stored evaluations fit together in every reachable state.
THEOREM BatchesCorrect == Spec => []BatchInv
BY BatchInit, BatchStep, PTL DEF Spec

\* Each execution has an item of its own among those that hold a place.
LEMMA CapFollows == BatchInv => CapHolds
<1> SUFFICES ASSUME BatchInv PROVE CapHolds
    OBVIOUS
<1>0. Queue
    BY DEF BatchInv
<1> DEFINE f == [w \in Executing |-> work[w]]
<1>1. \A w \in Executing: work[w] \in Occupying
    BY <1>0, WorkIsItem DEF Executing, Occupying, Queue
<1>2. f \in Injection(Executing, Occupying)
    BY <1>0, <1>1 DEF Injection, IsInjective, Queue, Alone
<1> HIDE DEF f
<1>3. IsFiniteSet(Occupying) /\ Cardinality(Occupying) <= Cap
    BY <1>0 DEF Queue, Places
<1>4. IsFiniteSet(Executing) /\ Cardinality(Executing) <= Cardinality(Occupying)
    BY <1>2, <1>3, FS_Injection
<1>5. Cardinality(Executing) \in Nat /\ Cardinality(Occupying) \in Nat
    BY <1>3, <1>4, FS_CardinalityType
<1>6. Cardinality(Executing) <= Cap
    BY <1>3, <1>4, <1>5, BatchAssumption
<1>7. \A v, w \in Executing: work[v][2] = work[w][2] => v = w
    BY <1>0, <1>1 DEF Queue, Places, Alone
<1> QED BY <1>6, <1>7 DEF CapHolds, Executing

\* However leases lapse, instances crash and unknown calls come back, no more
\* than Cap executions of the workspace are under way at once, no two of them
\* for one application.
THEOREM CapIsKept == Spec => []CapHolds
BY BatchesCorrect, CapFollows, PTL

LEMMA AtMostOne ==
    ASSUME NEW S, NEW x, \A y \in S: y = x
    PROVE  Cardinality(S) <= 1
<1>1. CASE S = {}
    BY <1>1, FS_EmptySet
<1>2. CASE S # {}
  <2>1. S = {x}
      BY <1>2
  <2> QED BY <2>1, FS_Singleton
<1> QED BY <1>1, <1>2

LEMMA OneResultFollows == BatchInv => OneResultPerItem
<1> SUFFICES ASSUME Results, NEW i \in Items
             PROVE  /\ Cardinality(ResultsOf(i)) <= 1
                    /\ ResultsOf(i) # {} => status[i] = "completed" /\ result[i] \in ResultsOf(i)
                    /\ status[i] = "completed" => result[i] > 0 /\ input[<<i[2], result[i]>>] = snapshot[i]
    BY DEF BatchInv, OneResultPerItem
<1>1. \A v \in ResultsOf(i): v = result[i]
    BY DEF Results
<1>2. Cardinality(ResultsOf(i)) <= 1
    BY <1>1, AtMostOne
<1> QED BY <1>1, <1>2 DEF Results

\* An item of a batch is evaluated at most once, and is completed exactly with
\* the result of its frozen inputs, whoever claims it after whom.
THEOREM EvaluatedOnce == Spec => []OneResultPerItem
BY BatchesCorrect, OneResultFollows, PTL

\* An application has one current evaluation at most, and one that a batch
\* made current is from the newest inputs among the versions up to it.
THEOREM CurrentStaysSound == Spec => []CurrentIsSound
<1>1. BatchInv => CurrentIsSound
    BY DEF BatchInv
<1> QED BY BatchesCorrect, <1>1, PTL

-----------------------------------------------------------------------------
(***************************************************************************)
(* Matching and linking (JobMatching), for any number of runs, people,     *)
(* proposals and profiles.                                                 *)
(***************************************************************************)
\* A confirmation that found the application goes on with one that is there:
\* an application is never taken away.
CountedInv ==
    /\ application \in BOOLEAN
    /\ M!CountedOnce
    /\ DOMAIN people = People
    /\ \A p \in People: people[p].at \in {"confirm2", "confirm3"} =>
         people[p].existing \in BOOLEAN /\ (people[p].existing => application)

LEMMA CountedStep == CountedInv /\ [M!Next]_(M!vars) => CountedInv'
<1> SUFFICES ASSUME CountedInv, [M!Next]_(M!vars) PROVE CountedInv'
    OBVIOUS
<1>1. ASSUME UNCHANGED <<application, applicants>>, NEW p \in People, NEW r,
             people' = [people EXCEPT ![p] = r],
             r.at \in {"confirm2", "confirm3"} => r.existing \in BOOLEAN /\ (r.existing => application)
      PROVE  CountedInv'
    BY <1>1 DEF CountedInv, M!CountedOnce
<1>2. ASSUME UNCHANGED <<application, applicants, people>> PROVE CountedInv'
    BY <1>2 DEF CountedInv, M!CountedOnce
<1>3. ASSUME NEW p \in People, NEW n, M!ConfirmRead(p, n) PROVE CountedInv'
    BY <1>3, <1>1 DEF M!ConfirmRead, M!linkvars
<1>4. ASSUME NEW p \in People, NEW n, NEW to, M!Dismiss(p, n, to) PROVE CountedInv'
    BY <1>4, <1>1 DEF M!Dismiss, M!linkvars
<1>5. ASSUME NEW p \in People, M!CreateManual(p) PROVE CountedInv'
  <2>1. PICK k: people' = [people EXCEPT ![p] = [at |-> "added", rec |-> k]]
      BY <1>5, Zenon DEF M!CreateManual
  <2> QED BY <2>1, <1>5, <1>1 DEF M!CreateManual, M!linkvars
<1>6. ASSUME NEW p \in People, M!AddTask(p) PROVE CountedInv'
    BY <1>6, <1>1 DEF M!AddTask, M!Resting, M!linkvars
<1>7. ASSUME NEW p \in People, M!CloseTask(p) PROVE CountedInv'
    BY <1>7, <1>1 DEF M!CloseTask, M!Resting, M!linkvars
<1>8. ASSUME NEW p \in People, M!ConfirmExisting(p) PROVE CountedInv'
  <2>1. people' = [people EXCEPT ![p] = [at |-> "confirm2", rec |-> people[p].rec, existing |-> application]]
      BY <1>8 DEF M!ConfirmExisting
  <2> QED BY <2>1, <1>8, <1>1 DEF M!ConfirmExisting, M!linkvars, CountedInv
<1>9. ASSUME NEW p \in People, M!ConfirmReview(p) PROVE CountedInv'
  <2>1. PICK o: people' = [people EXCEPT ![p] =
           [at |-> "confirm3", rec |-> people[p].rec, existing |-> people[p].existing, open |-> o]]
      BY <1>9 DEF M!ConfirmReview
  <2>2. people[p].existing \in BOOLEAN /\ (people[p].existing => application)
      BY <1>9 DEF M!ConfirmReview, CountedInv
  <2> QED BY <2>1, <2>2, <1>9, <1>1 DEF M!ConfirmReview, M!linkvars
<1>10. ASSUME NEW p \in People, M!ConfirmCommit(p) PROVE CountedInv'
  <2>1. people' = [people EXCEPT ![p] = M!Resting]
      BY <1>10 DEF M!ConfirmCommit
  <2>2. CASE M!MayCreate(p)
    <3>1. application' = TRUE /\ applicants' = IF people[p].existing THEN applicants ELSE applicants + 1
        BY <1>10, <2>2 DEF M!ConfirmCommit
    <3>2. people[p].existing \in BOOLEAN /\ (people[p].existing => application)
        BY <1>10 DEF M!ConfirmCommit, CountedInv
    <3>3. applicants' = 1
        BY <2>2, <3>1, <3>2 DEF M!MayCreate, CountedInv, M!CountedOnce
    <3> QED BY <2>1, <3>1, <3>3 DEF CountedInv, M!CountedOnce, M!Resting
  <2>3. CASE ~M!MayCreate(p)
    <3>1. UNCHANGED <<application, applicants>>
        BY <1>10, <2>3 DEF M!ConfirmCommit, M!linkvars
    <3> QED BY <2>1, <3>1, <1>1 DEF M!Resting
  <2> QED BY <2>2, <2>3
<1>11. ASSUME NEW w \in Runners,
              M!Claim(w) \/ M!MatchCandidate(w) \/ M!NoMatch(w) \/ M!ReadProposed(w) \/ M!Propose(w) \/ M!Finish(w)
       PROVE  CountedInv'
    BY <1>11, <1>2 DEF M!Claim, M!MatchCandidate, M!NoMatch, M!ReadProposed, M!Propose, M!Finish, M!linkvars
<1>12. ASSUME NEW m \in MatchJobs, M!Enqueue(m) \/ M!LeaseLapses(m) \/ \E w \in Runners: M!Find(w, m)
       PROVE  CountedInv'
    BY <1>12, <1>2 DEF M!Enqueue, M!LeaseLapses, M!Find, M!linkvars
<1>13. ASSUME M!NewProfile \/ M!Decide PROVE CountedInv'
    BY <1>13, <1>2 DEF M!NewProfile, M!Decide, M!linkvars
<1>14. ASSUME UNCHANGED M!vars PROVE CountedInv'
    BY <1>14, <1>2 DEF M!vars, M!linkvars
<1> QED BY <1>3, <1>4, <1>5, <1>6, <1>7, <1>8, <1>9, <1>10, <1>11, <1>12, <1>13, <1>14 DEF M!Next

\* Whatever proposals are confirmed by whom at once, the candidate is counted
\* for the job exactly when there is an application, and once.
THEOREM CandidateCountedOnce == M!Spec => []CountedOnce
<1>1. M!Init => CountedInv
  <2> SUFFICES ASSUME M!Init PROVE CountedInv
      OBVIOUS
  <2>1. application = FALSE /\ applicants = 0
      BY DEF M!Init
  <2>2. people = [p \in People |-> [at |-> "rest"]]
      BY DEF M!Init, M!Resting
  <2> QED BY <2>1, <2>2 DEF CountedInv, M!CountedOnce
<1>2. CountedInv => CountedOnce
    BY DEF CountedInv, CountedOnce
<1> QED BY <1>1, <1>2, CountedStep, PTL DEF M!Spec

-----------------------------------------------------------------------------
(***************************************************************************)
(* The profile of a candidate (ResumeProfiles), for any number of resumes, *)
(* workers, claims, retries and corrections.                               *)
(***************************************************************************)
ParseRows == [status: {"queued", "running", "succeeded", "failed"}, due: BOOLEAN, attempt: Nat,
              token: Nat, claims: Nat, asked: Nat, stored: Nat]
Versions == [kind: {"parsed", "corrected"}, log: Seq(Nat)]

\* Only a parse under way carries a token, and one that is not done has been
\* stored less often than it was asked for.
ParseOK(row) ==
    /\ row.token # 0 => row.status = "running"
    /\ row.stored <= row.asked
    /\ row.status # "succeeded" => row.stored < row.asked

\* What a process works on is a job, and a claim has a token.
WorkerOK(r) ==
    /\ r.at \in {"call", "store", "match", "failed"} => r.job \in ParseJobs
    /\ r.at \in {"call", "store"} => r.token \in Nat \ {0}

\* A correction in hand is of a version there is, and new.
EditOK(r, p, c) ==
    /\ r.at = "retry" => r.job \in ParseJobs
    /\ r.at = "correct" => /\ r.base \in 1..Len(p)
                           /\ r.log = p[r.base].log
                           /\ r.edit \in 1..c

\* P!CorrectionsAddUp, of the versions p and c corrections.
AddUp(p, c) == \A k \in DOMAIN p:
    p[k].kind = "corrected" => k > 1 /\ \E n \in 1..c: p[k].log = Append(p[k - 1].log, n)

ProfilesInv ==
    /\ jobs \in [ParseJobs -> ParseRows] /\ \A j \in ParseJobs: ParseOK(jobs[j])
    /\ DOMAIN parsing = Workers /\ \A w \in Workers: WorkerOK(parsing[w])
    /\ DOMAIN edits = Editors /\ \A e \in Editors: EditOK(edits[e], profiles, corrected)
    /\ profiles \in Seq(Versions) /\ corrected \in Nat
    /\ AddUp(profiles, corrected)

\* A step of a process that only works on jobs.
LEMMA ParseStep ==
    ASSUME ProfilesInv, NEW w \in Workers, NEW r, parsing' = [parsing EXCEPT ![w] = r], WorkerOK(r),
           UNCHANGED <<profiles, edits, corrected>>,
           \/ UNCHANGED jobs
           \/ \E j \in ParseJobs, row \in ParseRows: jobs' = [jobs EXCEPT ![j] = row] /\ ParseOK(row)
    PROVE  ProfilesInv'
<1>1. jobs' \in [ParseJobs -> ParseRows] /\ \A j \in ParseJobs: ParseOK(jobs'[j])
    BY DEF ProfilesInv
<1>2. DOMAIN parsing' = Workers /\ \A v \in Workers: WorkerOK(parsing'[v])
    BY DEF ProfilesInv
<1> QED BY <1>1, <1>2 DEF ProfilesInv

\* A step of a person, on the versions there are.
LEMMA EditStep ==
    ASSUME ProfilesInv, NEW e \in Editors, NEW r, edits' = [edits EXCEPT ![e] = r],
           EditOK(r, profiles, corrected'), corrected' \in Nat, corrected <= corrected',
           UNCHANGED <<profiles, parsing>>,
           \/ UNCHANGED jobs
           \/ \E j \in ParseJobs, row \in ParseRows: jobs' = [jobs EXCEPT ![j] = row] /\ ParseOK(row)
    PROVE  ProfilesInv'
<1>1. jobs' \in [ParseJobs -> ParseRows] /\ \A j \in ParseJobs: ParseOK(jobs'[j])
    BY DEF ProfilesInv
<1>2. corrected \in Nat /\ 1..corrected \subseteq 1..corrected'
    BY DEF ProfilesInv
<1>3. AddUp(profiles, corrected')
    BY <1>2 DEF ProfilesInv, AddUp
<1>4. DOMAIN edits' = Editors /\ \A d \in Editors: EditOK(edits'[d], profiles, corrected')
  <2>1. \A d \in Editors: EditOK(edits[d], profiles, corrected')
      BY <1>2 DEF ProfilesInv, EditOK
  <2> QED BY <2>1 DEF ProfilesInv
<1> QED BY <1>1, <1>3, <1>4 DEF ProfilesInv

\* A version more: read out of a resume, or the last one with a new correction.
LEMMA OneVersionMore ==
    ASSUME NEW p \in Seq(Versions), NEW c \in Nat, AddUp(p, c), NEW v \in Versions,
           v.kind = "corrected" => p # <<>> /\ \E n \in 1..c: v.log = Append(p[Len(p)].log, n)
    PROVE  /\ Append(p, v) \in Seq(Versions) /\ AddUp(Append(p, v), c)
           /\ \A r: EditOK(r, p, c) => EditOK(r, Append(p, v), c)
<1> DEFINE q == Append(p, v)
<1>1. q \in Seq(Versions) /\ Len(q) = Len(p) + 1 /\ (\A i \in 1..Len(p): q[i] = p[i]) /\ q[Len(p) + 1] = v
      /\ Len(p) \in Nat /\ DOMAIN q = 1..(Len(p) + 1) /\ DOMAIN p = 1..Len(p)
    OBVIOUS
<1> HIDE DEF q
<1>2. AddUp(q, c)
  <2> SUFFICES ASSUME NEW k \in 1..(Len(p) + 1), q[k].kind = "corrected"
               PROVE  k > 1 /\ \E n \in 1..c: q[k].log = Append(q[k - 1].log, n)
      BY <1>1 DEF AddUp
  <2>1. CASE k = Len(p) + 1
    <3>1. q[k] = v /\ p # <<>>
        BY <1>1, <2>1
    <3>2. Len(p) > 0
        BY <3>1
    <3>3. k > 1 /\ k - 1 = Len(p) /\ q[k - 1] = p[Len(p)]
        BY <1>1, <2>1, <3>2
    <3> QED BY <3>1, <3>3
  <2>2. CASE k \in 1..Len(p)
    <3>1. q[k] = p[k] /\ k > 1 /\ \E n \in 1..c: p[k].log = Append(p[k - 1].log, n)
        BY <1>1, <2>2 DEF AddUp
    <3>2. k - 1 \in 1..Len(p) /\ q[k - 1] = p[k - 1]
        BY <1>1, <2>2, <3>1
    <3> QED BY <3>1, <3>2
  <2> QED BY <1>1, <2>1, <2>2
<1>3. \A r: EditOK(r, p, c) => EditOK(r, q, c)
    BY <1>1 DEF EditOK
<1> QED BY <1>1, <1>2, <1>3 DEF q

\* The rows that a claim, an end, a lapse and a retry write.
Claimed(row) == [row EXCEPT !.status = "running", !.due = FALSE, !.attempt = @ + 1, !.claims = @ + 1,
                            !.token = row.claims + 1]
Succeeded(row) == [row EXCEPT !.status = "succeeded", !.token = 0, !.stored = @ + 1]
Requeued(row) == [row EXCEPT !.status = "queued", !.due = FALSE, !.token = 0]
Failed(row) == [row EXCEPT !.status = "failed", !.token = 0]
Lapsed(row) == [row EXCEPT !.due = TRUE]
Retried(row) == [row EXCEPT !.status = "queued", !.due = TRUE, !.attempt = 0, !.token = 0, !.asked = @ + 1]

LEMMA RowFacts ==
    ASSUME NEW row \in ParseRows, ParseOK(row)
    PROVE  /\ row.status \in {"queued", "running"} => Claimed(row) \in ParseRows /\ ParseOK(Claimed(row))
           /\ row.status = "running" => /\ Succeeded(row) \in ParseRows /\ ParseOK(Succeeded(row))
                                        /\ Requeued(row) \in ParseRows /\ ParseOK(Requeued(row))
                                        /\ Failed(row) \in ParseRows /\ ParseOK(Failed(row))
           /\ Lapsed(row) \in ParseRows /\ ParseOK(Lapsed(row))
           /\ Retried(row) \in ParseRows /\ ParseOK(Retried(row))
<1>0. row.attempt + 1 \in Nat /\ row.claims + 1 \in Nat \ {0} /\ row.stored + 1 \in Nat /\ row.asked + 1 \in Nat
      /\ row.stored \in Nat /\ row.asked \in Nat
    BY DEF ParseRows
<1>1. row.status \in {"queued", "running"} => Claimed(row) \in ParseRows /\ ParseOK(Claimed(row))
  <2>1. ASSUME NEW a \in Nat, NEW c \in Nat, row.status \in {"queued", "running"}
        PROVE  LET new == [row EXCEPT !.status = "running", !.due = FALSE, !.attempt = a, !.claims = c, !.token = c]
               IN  new \in ParseRows /\ ParseOK(new)
      BY <2>1 DEF ParseRows, ParseOK
  <2> QED BY <2>1, <1>0, Zenon DEF Claimed
<1>2. row.status = "running" => Succeeded(row) \in ParseRows /\ ParseOK(Succeeded(row))
  <2>1. ASSUME NEW k \in Nat, k <= row.asked
        PROVE  LET new == [row EXCEPT !.status = "succeeded", !.token = 0, !.stored = k]
               IN  new \in ParseRows /\ ParseOK(new)
      BY <2>1 DEF ParseRows, ParseOK
  <2>2. row.status = "running" => row.stored + 1 <= row.asked
      BY <1>0 DEF ParseOK
  <2> QED BY <2>1, <2>2, <1>0, Zenon DEF Succeeded
<1>3. row.status = "running" => Requeued(row) \in ParseRows /\ ParseOK(Requeued(row))
    BY DEF ParseRows, ParseOK, Requeued
<1>4. row.status = "running" => Failed(row) \in ParseRows /\ ParseOK(Failed(row))
    BY DEF ParseRows, ParseOK, Failed
<1>5. Lapsed(row) \in ParseRows /\ ParseOK(Lapsed(row))
    BY DEF ParseRows, ParseOK, Lapsed
<1>6. Retried(row) \in ParseRows /\ ParseOK(Retried(row))
  <2>1. ASSUME NEW k \in Nat, row.stored < k
        PROVE  LET new == [row EXCEPT !.status = "queued", !.due = TRUE, !.attempt = 0, !.token = 0, !.asked = k]
               IN  new \in ParseRows /\ ParseOK(new)
    <3> DEFINE new == [row EXCEPT !.status = "queued", !.due = TRUE, !.attempt = 0, !.token = 0, !.asked = k]
    <3>1. new \in ParseRows
        BY DEF ParseRows
    <3>2. new.status = "queued" /\ new.token = 0 /\ new.stored = row.stored /\ new.asked = k
        BY DEF ParseRows
    <3> HIDE DEF new
    <3>3. ParseOK(new)
        BY <2>1, <1>0, <3>2 DEF ParseOK
    <3> QED BY <3>1, <3>3 DEF new
  <2>2. row.stored < row.asked + 1
      BY <1>0 DEF ParseOK
  <2> QED BY <2>1, <2>2, <1>0, Zenon DEF Retried
<1> QED BY <1>1, <1>2, <1>3, <1>4, <1>5, <1>6

LEMMA ProfilesStep ==
    ASSUME P!ProfilesAssumption
    PROVE  ProfilesInv /\ [P!Next]_(P!vars) => ProfilesInv'
<1> SUFFICES ASSUME ProfilesInv, [P!Next]_(P!vars) PROVE ProfilesInv'
    OBVIOUS
<1>0. /\ \A j \in ParseJobs: jobs[j] \in ParseRows /\ ParseOK(jobs[j])
      /\ \A w \in Workers: WorkerOK(parsing[w])
      /\ \A e \in Editors: EditOK(edits[e], profiles, corrected)
    BY DEF ProfilesInv
<1>r. WorkerOK(P!Resting) /\ EditOK(P!Resting, profiles, corrected)
    BY DEF WorkerOK, EditOK, P!Resting
<1>1. ASSUME NEW w \in Workers, NEW j \in ParseJobs, P!Claim(w, j) PROVE ProfilesInv'
  <2>1. PICK a, c: parsing' = [parsing EXCEPT ![w] = [at |-> "call", job |-> j, token |-> jobs[j].claims + 1,
                                                      attempt |-> a, contact |-> c]]
      BY <1>1, Zenon DEF P!Claim
  <2>2. jobs[j].claims + 1 \in Nat \ {0}
      BY <1>0 DEF ParseRows
  <2>3. ASSUME NEW t \in Nat \ {0} PROVE WorkerOK([at |-> "call", job |-> j, token |-> t, attempt |-> a, contact |-> c])
      BY DEF WorkerOK
  <2>4. jobs' = [jobs EXCEPT ![j] = Claimed(jobs[j])] /\ UNCHANGED <<profiles, edits, corrected>>
      BY <1>1, Zenon DEF P!Claim, Claimed
  <2>5. jobs[j].status \in {"queued", "running"}
      BY <1>1 DEF P!Claim, P!Claimable
  <2>6. Claimed(jobs[j]) \in ParseRows /\ ParseOK(Claimed(jobs[j]))
      BY <2>5, <1>0, RowFacts
  <2> QED BY <2>1, <2>2, <2>3, <2>4, <2>6, ParseStep
<1>2. ASSUME NEW w \in Workers, P!Parsed(w) PROVE ProfilesInv'
  <2>1. PICK a, c, b: parsing' = [parsing EXCEPT ![w] = [at |-> "store", job |-> parsing[w].job,
                                   token |-> parsing[w].token, attempt |-> a, contact |-> c, base |-> b]]
      BY <1>2, Zenon DEF P!Parsed
  <2>2. parsing[w].at = "call" /\ UNCHANGED <<jobs, profiles, edits, corrected>>
      BY <1>2 DEF P!Parsed
  <2>3. WorkerOK([at |-> "store", job |-> parsing[w].job, token |-> parsing[w].token,
                  attempt |-> a, contact |-> c, base |-> b])
      BY <2>2, <1>0 DEF WorkerOK
  <2> QED BY <2>1, <2>2, <2>3, ParseStep
<1>3. ASSUME NEW w \in Workers, P!Store(w) PROVE ProfilesInv'
  <2> DEFINE j == parsing[w].job
             k == jobs[j]
  <2>1. parsing[w].at = "store" /\ j \in ParseJobs /\ parsing[w].token \in Nat \ {0}
      BY <1>3, <1>0 DEF P!Store, WorkerOK
  <2>2. CASE ~P!Holds(w)
    <3>1. parsing' = [parsing EXCEPT ![w] = P!Resting] /\ UNCHANGED <<jobs, profiles, edits, corrected>>
        BY <1>3, <2>2 DEF P!Store
    <3> QED BY <3>1, <1>r, ParseStep
  <2>3. CASE P!Holds(w)
    <3>1. k.status = "running" /\ k \in ParseRows /\ ParseOK(k)
        BY <2>1, <2>3, <1>0 DEF P!Holds, ParseOK
    <3>2. Succeeded(k) \in ParseRows /\ ParseOK(Succeeded(k))
        BY <3>1, RowFacts
    <3>3. jobs' = [jobs EXCEPT ![j] = Succeeded(k)] /\ profiles' = Append(profiles, [kind |-> "parsed", log |-> <<>>])
          /\ parsing' = [parsing EXCEPT ![w] = [at |-> "match", job |-> j]] /\ UNCHANGED <<edits, corrected>>
        BY <1>3, <2>3, Zenon DEF P!Store, Succeeded
    <3> HIDE DEF j, k
    <3>4. jobs' \in [ParseJobs -> ParseRows] /\ \A i \in ParseJobs: ParseOK(jobs'[i])
        BY <2>1, <3>2, <3>3 DEF ProfilesInv
    <3>5. DOMAIN parsing' = Workers /\ \A v \in Workers: WorkerOK(parsing'[v])
        BY <2>1, <3>3 DEF ProfilesInv, WorkerOK
    <3>6. PICK v \in Versions: v.kind = "parsed" /\ profiles' = Append(profiles, v)
      <4>1. [kind |-> "parsed", log |-> <<>>] \in Versions
          BY DEF Versions
      <4> QED BY <4>1, <3>3
    <3>7. profiles \in Seq(Versions) /\ corrected \in Nat /\ AddUp(profiles, corrected)
          /\ DOMAIN edits = Editors /\ \A e \in Editors: EditOK(edits[e], profiles, corrected)
        BY DEF ProfilesInv
    <3>8. profiles' \in Seq(Versions) /\ AddUp(profiles', corrected)
          /\ \A e \in Editors: EditOK(edits[e], profiles', corrected)
        BY <3>6, <3>7, OneVersionMore
    <3> QED BY <3>3, <3>4, <3>5, <3>7, <3>8 DEF ProfilesInv
  <2> QED BY <2>2, <2>3
<1>4. ASSUME NEW w \in Workers, P!QueueMatch(w) \/ P!ShowFailure(w) \/ P!Crash(w) PROVE ProfilesInv'
  <2>1. parsing' = [parsing EXCEPT ![w] = P!Resting] /\ UNCHANGED <<jobs, profiles, edits, corrected>>
      BY <1>4 DEF P!QueueMatch, P!ShowFailure, P!Crash
  <2> QED BY <2>1, <1>r, ParseStep
<1>5. ASSUME NEW w \in Workers, P!ParseFails(w) PROVE ProfilesInv'
  <2> DEFINE j == parsing[w].job
             k == jobs[j]
  <2>1. parsing[w].at \in {"call", "store"} /\ UNCHANGED <<profiles, edits, corrected>>
      BY <1>5 DEF P!ParseFails, P!Failing
  <2>2. j \in ParseJobs /\ parsing[w].token \in Nat \ {0}
      BY <2>1, <1>0 DEF WorkerOK
  <2>3. P!Holds(w) => k.status = "running"
      BY <2>2, <1>0 DEF P!Holds, ParseOK
  <2>4. k \in ParseRows /\ ParseOK(k)
      BY <2>2, <1>0
  <2>5. \/ parsing' = [parsing EXCEPT ![w] = P!Resting]
        \/ parsing' = [parsing EXCEPT ![w] = [at |-> "failed", job |-> j]]
      BY <1>5 DEF P!ParseFails
  <2>6. \/ UNCHANGED jobs
        \/ P!Holds(w) /\ jobs' = [jobs EXCEPT ![j] = Requeued(k)]
        \/ P!Holds(w) /\ jobs' = [jobs EXCEPT ![j] = Failed(k)]
      BY <1>5 DEF P!ParseFails, Requeued, Failed
  <2> HIDE DEF j, k
  <2>7. \/ UNCHANGED jobs
        \/ \E i \in ParseJobs, row \in ParseRows: jobs' = [jobs EXCEPT ![i] = row] /\ ParseOK(row)
      BY <2>2, <2>3, <2>4, <2>6, RowFacts
  <2>8. WorkerOK([at |-> "failed", job |-> j])
      BY <2>2 DEF WorkerOK
  <2> QED BY <2>1, <2>5, <2>7, <2>8, <1>r, ParseStep
<1>6. ASSUME NEW j \in ParseJobs, P!Due(j) PROVE ProfilesInv'
  <2>1. jobs' = [jobs EXCEPT ![j] = Lapsed(jobs[j])] /\ UNCHANGED <<profiles, parsing, edits, corrected>>
      BY <1>6, Zenon DEF P!Due, Lapsed
  <2>2. Lapsed(jobs[j]) \in ParseRows /\ ParseOK(Lapsed(jobs[j]))
      BY <1>0, RowFacts
  <2> QED BY <2>1, <2>2 DEF ProfilesInv
<1>7. corrected \in Nat /\ profiles \in Seq(Versions) /\ AddUp(profiles, corrected) /\ corrected <= corrected
    BY DEF ProfilesInv
<1>8. ASSUME NEW e \in Editors, NEW j \in ParseJobs, P!RetryRead(e, j) PROVE ProfilesInv'
  <2>1. edits' = [edits EXCEPT ![e] = [at |-> "retry", job |-> j]] /\ UNCHANGED <<jobs, profiles, parsing, corrected>>
      BY <1>8 DEF P!RetryRead
  <2>2. EditOK([at |-> "retry", job |-> j], profiles, corrected)
      BY DEF EditOK
  <2> QED BY <2>1, <2>2, <1>7, EditStep
<1>9. ASSUME NEW e \in Editors, P!Requeue(e) PROVE ProfilesInv'
  <2> DEFINE j == edits[e].job
             k == jobs[j]
  <2>1. j \in ParseJobs
      BY <1>9, <1>0 DEF P!Requeue, EditOK
  <2>2. jobs' = [jobs EXCEPT ![j] = Retried(k)] /\ edits' = [edits EXCEPT ![e] = P!Resting]
        /\ UNCHANGED <<profiles, parsing, corrected>>
      BY <1>9, Zenon DEF P!Requeue, Retried
  <2>3. Retried(k) \in ParseRows /\ ParseOK(Retried(k))
      BY <2>1, <1>0, RowFacts
  <2> HIDE DEF j, k
  <2> QED BY <2>1, <2>2, <2>3, <1>r, <1>7, EditStep
<1>10. ASSUME NEW e \in Editors, P!CorrectRead(e) PROVE ProfilesInv'
  <2> DEFINE r == [at |-> "correct", base |-> Len(profiles), log |-> profiles[Len(profiles)].log,
                   edit |-> corrected + 1]
  <2>1. edits' = [edits EXCEPT ![e] = r] /\ corrected' = corrected + 1 /\ UNCHANGED <<jobs, profiles, parsing>>
      BY <1>10 DEF P!CorrectRead
  <2>2. Len(profiles) \in 1..Len(profiles)
      BY <1>10, <1>7 DEF P!CorrectRead
  <2>3. EditOK(r, profiles, corrected')
      BY <2>1, <2>2, <1>7 DEF EditOK
  <2>4. corrected' \in Nat /\ corrected <= corrected'
      BY <2>1, <1>7
  <2> HIDE DEF r
  <2> QED BY <2>1, <2>3, <2>4, EditStep
<1>11. ASSUME NEW e \in Editors, P!Correct(e) PROVE ProfilesInv'
  <2>1. edits' = [edits EXCEPT ![e] = P!Resting] /\ UNCHANGED <<jobs, parsing, corrected>>
      BY <1>11 DEF P!Correct
  <2>2. CASE UNCHANGED profiles
      BY <2>1, <2>2, <1>r, <1>7, EditStep
  <2>3. CASE P!VersionFree(edits[e].base)
    <3> DEFINE b == edits[e].base
               log == edits[e].log
               c == edits[e].edit
               v == [kind |-> "corrected", log |-> Append(log, c)]
    <3>1. b \in 1..Len(profiles) /\ log = profiles[b].log /\ c \in 1..corrected
        BY <1>11, <1>0 DEF P!Correct, EditOK
    <3>2. b = Len(profiles) /\ profiles # <<>>
        BY <2>3, <3>1, <1>7 DEF P!VersionFree
    <3>3. profiles' = Append(profiles, v)
        BY <1>11, <2>3 DEF P!Correct
    <3>4. profiles[b] \in Versions
        BY <3>1, <1>7
    <3>5. log \in Seq(Nat)
        BY <3>1, <3>4 DEF Versions
    <3>6. Append(log, c) \in Seq(Nat)
        BY <3>1, <3>5, <1>7
    <3>7. v \in Versions /\ v.log = Append(profiles[Len(profiles)].log, c)
        BY <3>1, <3>2, <3>6 DEF Versions
    <3> HIDE DEF b, log, c, v
    <3>8. /\ profiles' \in Seq(Versions) /\ AddUp(profiles', corrected)
          /\ \A r: EditOK(r, profiles, corrected) => EditOK(r, profiles', corrected)
        BY <3>1, <3>2, <3>3, <3>7, <1>7, OneVersionMore
    <3>9. DOMAIN edits' = Editors /\ \A d \in Editors: EditOK(edits'[d], profiles, corrected)
        BY <2>1, <1>r DEF ProfilesInv
    <3> QED BY <2>1, <3>8, <3>9 DEF ProfilesInv
  <2> QED BY <1>11, <2>2, <2>3 DEF P!Correct
<1>12. ASSUME UNCHANGED P!vars PROVE ProfilesInv'
    BY <1>12 DEF P!vars, ProfilesInv
<1> QED BY <1>1, <1>2, <1>3, <1>4, <1>5, <1>6, <1>8, <1>9, <1>10, <1>11, <1>12 DEF P!Next

LEMMA ProfilesInit == P!Init => ProfilesInv
<1> SUFFICES ASSUME P!Init PROVE ProfilesInv
    OBVIOUS
<1>1. jobs \in [ParseJobs -> ParseRows] /\ \A j \in ParseJobs: ParseOK(jobs[j])
    BY DEF P!Init, ParseRows, ParseOK
<1>2. DOMAIN parsing = Workers /\ \A w \in Workers: WorkerOK(parsing[w])
    BY DEF P!Init, P!Resting, WorkerOK
<1>3. DOMAIN edits = Editors /\ \A e \in Editors: EditOK(edits[e], profiles, corrected)
    BY DEF P!Init, P!Resting, EditOK
<1>4. profiles \in Seq(Versions) /\ corrected \in Nat /\ AddUp(profiles, corrected)
    BY DEF P!Init, AddUp
<1> QED BY <1>1, <1>2, <1>3, <1>4 DEF ProfilesInv

LEMMA ProfilesAlways == P!ProfilesAssumption => (P!Spec => []ProfilesInv)
<1> SUFFICES ASSUME P!ProfilesAssumption PROVE P!Spec => []ProfilesInv
    OBVIOUS
<1>1. ProfilesInv /\ [P!Next]_(P!vars) => ProfilesInv'
    BY ProfilesStep
<1> QED BY <1>1, ProfilesInit, PTL DEF P!Spec

\* Whichever process takes a parse over from which, a resume becomes a version
\* of the profile at most as often as somebody asked for that.
THEOREM ProfilesWereAsked == P!ProfilesAssumption => (P!Spec => []OneProfilePerAsking)
<1>1. ProfilesInv => OneProfilePerAsking
    BY DEF ProfilesInv, ParseOK, OneProfilePerAsking, P!OneProfilePerAsking
<1> QED BY <1>1, ProfilesAlways, PTL

\* Of two corrections at once, or a correction and a parse, none is lost.
THEOREM CorrectionsAreKept == P!ProfilesAssumption => (P!Spec => []CorrectionsAddUp)
<1>1. ProfilesInv => CorrectionsAddUp
    BY DEF ProfilesInv, AddUp, CorrectionsAddUp, P!CorrectionsAddUp
<1> QED BY <1>1, ProfilesAlways, PTL

-----------------------------------------------------------------------------
(***************************************************************************)
(* The review of an evaluation (EvaluationReview), for any requirements,   *)
(* reviewers and resolutions.                                              *)
(***************************************************************************)
Statuses == {"open", "dismissed", "confirmed", "accepted_risk"}
Concerns == [status: Statuses, history: Seq([from: Statuses, to: Statuses])]

\* What a request in flight works on; a change continues a history it read.
RequestOK(call) ==
    /\ call.at \in {"change", "answer", "apply"} => call.of \in Requirements
    /\ call.at = "change" => call.from \in Statuses /\ call.to \in Statuses

ReviewInv ==
    /\ concerns \in [Requirements -> Concerns]
    /\ DOMAIN reviews = Reviewers /\ \A v \in Reviewers: RequestOK(reviews[v])

\* What was recorded before is the beginning of what is recorded after.
Continues(h, g) == Len(h) <= Len(g) /\ SubSeq(g, 1, Len(h)) = h

LEMMA SameHistory ==
    ASSUME NEW E, NEW h \in Seq(E)
    PROVE  Continues(h, h)
BY DEF Continues

LEMMA LongerHistory ==
    ASSUME NEW E, NEW h \in Seq(E), NEW x \in E
    PROVE  Append(h, x) \in Seq(E) /\ Continues(h, Append(h, x))
BY DEF Continues

LEMMA ReviewStep ==
    ASSUME R!ReviewAssumption, ReviewInv, [R!Next]_(R!vars)
    PROVE  ReviewInv' /\ \A r \in Requirements: Continues(concerns[r].history, concerns'[r].history)
<1> DEFINE Goal == ReviewInv' /\ \A r \in Requirements: Continues(concerns[r].history, concerns'[r].history)
<1>0. /\ \A r \in Requirements: concerns[r] \in Concerns /\ concerns[r].status \in Statuses
                                /\ concerns[r].history \in Seq([from: Statuses, to: Statuses])
      /\ \A v \in Reviewers: RequestOK(reviews[v])
    BY DEF ReviewInv, Concerns
<1>1. \A r \in Requirements: Continues(concerns[r].history, concerns[r].history)
    BY <1>0, SameHistory
<1>2. ASSUME UNCHANGED concerns, NEW v \in Reviewers, NEW call, reviews' = [reviews EXCEPT ![v] = call], RequestOK(call)
      PROVE  Goal
    BY <1>1, <1>2 DEF ReviewInv
<1>3. ASSUME UNCHANGED <<concerns, reviews>> PROVE Goal
    BY <1>1, <1>3 DEF ReviewInv
<1>r. RequestOK(R!Idle)
    BY DEF RequestOK, R!Idle
<1>4. ASSUME NEW v \in Reviewers, NEW r \in Requirements, R!ResolveRead(v, r) PROVE Goal
  <2>1. PICK to \in Resolutions: reviews' = [reviews EXCEPT ![v] =
           [at |-> "change", of |-> r, from |-> "open", to |-> to, history |-> concerns[r].history]]
      BY <1>4 DEF R!ResolveRead
  <2>2. RequestOK([at |-> "change", of |-> r, from |-> "open", to |-> to, history |-> concerns[r].history])
      BY DEF RequestOK, Statuses, R!ReviewAssumption
  <2> QED BY <2>1, <2>2, <1>2, <1>4 DEF R!ResolveRead
<1>5. ASSUME NEW v \in Reviewers, NEW r \in Requirements, R!ReopenRead(v, r) PROVE Goal
  <2>1. reviews' = [reviews EXCEPT ![v] = [at |-> "change", of |-> r, from |-> concerns[r].status,
                                           to |-> "open", history |-> concerns[r].history]]
      BY <1>5 DEF R!ReopenRead
  <2>2. RequestOK([at |-> "change", of |-> r, from |-> concerns[r].status, to |-> "open",
                   history |-> concerns[r].history])
      BY <1>0 DEF RequestOK, Statuses
  <2> QED BY <2>1, <2>2, <1>2, <1>5 DEF R!ReopenRead
<1>6. ASSUME NEW v \in Reviewers, NEW r \in Requirements, R!AnswerItem(v, r) PROVE Goal
  <2>1. PICK o, b: reviews' = [reviews EXCEPT ![v] = [at |-> "answer", of |-> r, outcome |-> o, open |-> b]]
      BY <1>6 DEF R!AnswerItem
  <2>2. RequestOK([at |-> "answer", of |-> r, outcome |-> o, open |-> b])
      BY DEF RequestOK
  <2> QED BY <2>1, <2>2, <1>2, <1>6 DEF R!AnswerItem
<1>7. ASSUME NEW v \in Reviewers, R!RecordChange(v) PROVE Goal
  <2> DEFINE call == reviews[v]
             r == call.of
             x == [from |-> call.from, to |-> call.to]
  <2>1. reviews' = [reviews EXCEPT ![v] = R!Idle]
      BY <1>7 DEF R!RecordChange
  <2>2. CASE ~R!Unchanged(v)
      BY <2>1, <2>2, <1>2, <1>7, <1>r DEF R!RecordChange
  <2>3. CASE R!Unchanged(v)
    <3>1. r \in Requirements /\ call.from \in Statuses /\ call.to \in Statuses /\ x \in [from: Statuses, to: Statuses]
        BY <1>7, <1>0 DEF R!RecordChange, RequestOK
    <3>2. call.history = concerns[r].history
        BY <2>3 DEF R!Unchanged
    <3>3. concerns' = [concerns EXCEPT ![r] = [status |-> call.to, history |-> Append(concerns[r].history, x)]]
        BY <1>7, <2>3, <3>2 DEF R!RecordChange
    <3>4. /\ Append(concerns[r].history, x) \in Seq([from: Statuses, to: Statuses])
          /\ Continues(concerns[r].history, Append(concerns[r].history, x))
        BY <3>1, <1>0, LongerHistory
    <3> DEFINE row == [status |-> call.to, history |-> Append(concerns[r].history, x)]
    <3>5. row \in Concerns /\ concerns' = [concerns EXCEPT ![r] = row]
          /\ row.history = Append(concerns[r].history, x)
        BY <3>1, <3>3, <3>4 DEF Concerns
    <3> HIDE DEF r, x, row
    <3>6. concerns' \in [Requirements -> Concerns]
        BY <3>1, <3>5 DEF ReviewInv
    <3>7. \A s \in Requirements: Continues(concerns[s].history, concerns'[s].history)
        BY <3>1, <3>4, <3>5, <1>1 DEF ReviewInv
    <3>8. DOMAIN reviews' = Reviewers /\ \A u \in Reviewers: RequestOK(reviews'[u])
        BY <2>1, <1>r DEF ReviewInv
    <3> QED BY <3>6, <3>7, <3>8 DEF ReviewInv
  <2> QED BY <2>2, <2>3
<1>8. ASSUME NEW v \in Reviewers, R!AnswerReads(v) PROVE Goal
  <2>1. PICK o, b, q: reviews' = [reviews EXCEPT ![v] = [at |-> "apply", of |-> reviews[v].of, outcome |-> o,
                                                          open |-> b, results |-> q]]
      BY <1>8 DEF R!AnswerReads
  <2>2. RequestOK([at |-> "apply", of |-> reviews[v].of, outcome |-> o, open |-> b, results |-> q])
      BY <1>8, <1>0 DEF RequestOK, R!AnswerReads
  <2> QED BY <2>1, <2>2, <1>2, <1>8 DEF R!AnswerReads
<1>9. ASSUME NEW v \in Reviewers, R!AnswerCommits(v) PROVE Goal
  <2> DEFINE r == reviews[v].of
  <2>1. reviews' = [reviews EXCEPT ![v] = R!Idle]
      BY <1>9 DEF R!AnswerCommits
  <2>2. r \in Requirements
      BY <1>9, <1>0 DEF R!AnswerCommits, RequestOK
  <2>3. CASE UNCHANGED concerns
      BY <2>1, <2>3, <1>2, <1>r
  <2>4. CASE ~UNCHANGED concerns
    <3>1. PICK s \in Statuses: concerns' = [concerns EXCEPT ![r].status = s]
        BY <1>9, <2>4 DEF R!AnswerCommits, Statuses
    <3>2. PICK row: row = [concerns[r] EXCEPT !.status = s] /\ concerns' = [concerns EXCEPT ![r] = row]
        BY <3>1
    <3>3. row \in Concerns /\ row.history = concerns[r].history
        BY <3>2, <2>2, <1>0 DEF Concerns
    <3> HIDE DEF r
    <3>4. concerns' \in [Requirements -> Concerns]
        BY <3>2, <3>3 DEF ReviewInv
    <3>5. \A q \in Requirements: Continues(concerns[q].history, concerns'[q].history)
        BY <2>2, <3>2, <3>3, <1>1 DEF ReviewInv
    <3>6. DOMAIN reviews' = Reviewers /\ \A u \in Reviewers: RequestOK(reviews'[u])
        BY <2>1, <1>r DEF ReviewInv
    <3> QED BY <3>4, <3>5, <3>6 DEF ReviewInv
  <2> QED BY <2>3, <2>4
<1>10. ASSUME NEW r \in Requirements, R!Assign(r) PROVE Goal
    BY <1>3, <1>10 DEF R!Assign
<1>11. ASSUME UNCHANGED R!vars PROVE Goal
    BY <1>3, <1>11 DEF R!vars
<1> HIDE DEF Goal
<1>12. Goal
    BY <1>4, <1>5, <1>6, <1>7, <1>8, <1>9, <1>10, <1>11 DEF R!Next
<1> QED BY <1>12 DEF Goal

\* However handling, reopening and answering meet, no entry of a concern's
\* history is lost or changed.
THEOREM HistoriesGrow == R!ReviewAssumption => (R!Spec => HistoryGrows)
<1> SUFFICES ASSUME R!ReviewAssumption PROVE R!Spec => HistoryGrows
    OBVIOUS
<1>1. R!Init => ReviewInv
    BY DEF R!Init, R!Idle, ReviewInv, Concerns, Statuses, RequestOK
<1>2. ReviewInv /\ [R!Next]_(R!vars) => ReviewInv'
    BY ReviewStep
<1>3. ReviewInv /\ [R!Next]_(R!vars) => [\A r \in Requirements:
        /\ Len(concerns[r].history) <= Len(concerns'[r].history)
        /\ SubSeq(concerns'[r].history, 1, Len(concerns[r].history)) = concerns[r].history]_(R!vars)
    BY ReviewStep DEF Continues
<1> QED BY <1>1, <1>2, <1>3, PTL DEF R!Spec, HistoryGrows, R!HistoryGrows

-----------------------------------------------------------------------------
(***************************************************************************)
(* Turns of workspaces in a queue (FairTurns), for any number of           *)
(* workspaces, workers and jobs.                                           *)
(***************************************************************************)
\* Those who were served while a workspace waited were all served after it, so
\* that one it waited for already cannot be the one served longest ago.
ChoiceOK(p) == chosen[p].at = "chosen" =>
    /\ chosen[p].workspace \in Workspaces
    /\ \A v \in chosen[p].heads \cap Workspaces: lastServed[p][chosen[p].workspace] <= lastServed[p][v]

AheadOK(p, w) ==
    /\ \A n \in DOMAIN ahead[p][w]: lastServed[p][ahead[p][w][n]] > lastServed[p][w]
    /\ \A m, n \in DOMAIN ahead[p][w]: ahead[p][w][m] = ahead[p][w][n] => m = n

TurnsInv ==
    /\ turnQueue \in Seq(Workspaces)
    /\ turn \in [Pollers -> Nat]
    /\ lastServed \in [Pollers -> [Workspaces -> Nat]]
    /\ \A p \in Pollers, w \in Workspaces: lastServed[p][w] <= turn[p]
    /\ DOMAIN chosen = Pollers /\ \A p \in Pollers: ChoiceOK(p)
    /\ ahead \in [Pollers -> [Workspaces -> Seq(Workspaces)]]
    /\ \A p \in Pollers, w \in Workspaces: AheadOK(p, w)

LEMMA TurnsStep == TurnsInv /\ [F!Next]_(F!vars) => TurnsInv'
<1> SUFFICES ASSUME TurnsInv, [F!Next]_(F!vars) PROVE TurnsInv'
    OBVIOUS
<1>1. ASSUME NEW w \in Workspaces, F!Enqueue(w) PROVE TurnsInv'
  <2>1. turnQueue' = Append(turnQueue, w) /\ UNCHANGED <<taken, turn, lastServed, chosen, ahead>>
      BY <1>1 DEF F!Enqueue
  <2>2. turnQueue' \in Seq(Workspaces)
      BY <2>1 DEF TurnsInv
  <2> QED BY <2>1, <2>2 DEF TurnsInv, ChoiceOK, AheadOK
<1>2. ASSUME NEW p \in Pollers, UNCHANGED <<turnQueue, turn, lastServed, ahead>>, NEW c,
             chosen' = [chosen EXCEPT ![p] = c],
             c.at = "chosen" => /\ c.workspace \in Workspaces
                                /\ \A v \in c.heads \cap Workspaces: lastServed[p][c.workspace] <= lastServed[p][v]
      PROVE  TurnsInv'
  <2>1. DOMAIN chosen' = Pollers
      BY <1>2 DEF TurnsInv
  <2>2. ASSUME NEW q \in Pollers PROVE ChoiceOK(q)'
      BY <1>2 DEF TurnsInv, ChoiceOK
  <2>3. \A q \in Pollers, w \in Workspaces: AheadOK(q, w)'
      BY <1>2 DEF TurnsInv, AheadOK
  <2> QED BY <1>2, <2>1, <2>2, <2>3 DEF TurnsInv
<1>h. F!HeadsNow \subseteq Workspaces
    BY DEF TurnsInv, F!HeadsNow, F!Waiting
<1>3. ASSUME NEW p \in Pollers, F!Choose(p) PROVE TurnsInv'
  <2>1. PICK w \in F!HeadsNow: /\ \A v \in F!HeadsNow: F!Before(p, w, v)
                               /\ chosen' = [chosen EXCEPT ![p] = [at |-> "chosen", workspace |-> w, heads |-> F!HeadsNow]]
      BY <1>3 DEF F!Choose
  <2>2. \A v \in F!HeadsNow: lastServed[p][w] <= lastServed[p][v]
    <3>1. \A v \in F!HeadsNow: lastServed[p][v] \in Nat /\ lastServed[p][w] \in Nat
        BY <1>h DEF TurnsInv
    <3> QED BY <2>1, <3>1 DEF F!Before
  <2>3. UNCHANGED <<turnQueue, turn, lastServed, ahead>>
      BY <1>3 DEF F!Choose
  <2> QED BY <1>h, <2>1, <2>2, <2>3, <1>2
<1>4. ASSUME NEW p \in Pollers, F!Take(p) PROVE TurnsInv'
  <2> DEFINE w == chosen[p].workspace
             t == turn[p] + 1
             heads == chosen[p].heads
  <2>1. CASE w \notin F!HeadsNow
    <3>1. chosen' = [chosen EXCEPT ![p] = F!Resting] /\ UNCHANGED <<turnQueue, turn, lastServed, ahead>>
        BY <1>4, <2>1 DEF F!Take
    <3> QED BY <3>1, <1>2 DEF F!Resting
  <2>2. CASE w \in F!HeadsNow
    <3>1. /\ turn' = [turn EXCEPT ![p] = t] /\ lastServed' = [lastServed EXCEPT ![p][w] = t]
          /\ ahead' = [ahead EXCEPT ![p] = [v \in Workspaces |->
                         IF v \in heads \ {w} THEN Append(ahead[p][v], w) ELSE <<>>]]
          /\ UNCHANGED turnQueue
        BY <1>4, <2>2 DEF F!Take
    <3>2. PICK j: chosen' = [chosen EXCEPT ![p] = [at |-> "found", job |-> j]]
        BY <1>4, <2>2 DEF F!Take
    <3>3. w \in Workspaces /\ \A v \in heads \cap Workspaces: lastServed[p][w] <= lastServed[p][v]
        BY <1>4 DEF F!Take, TurnsInv, ChoiceOK
    <3>4. turn[p] \in Nat /\ t \in Nat /\ t > turn[p]
        BY DEF TurnsInv
    <3> HIDE DEF w, t, heads
    <3>5. turn' \in [Pollers -> Nat] /\ lastServed' \in [Pollers -> [Workspaces -> Nat]]
        BY <3>1, <3>3, <3>4 DEF TurnsInv
    <3>6. \A q \in Pollers, v \in Workspaces:
            /\ q # p \/ v # w => lastServed'[q][v] = lastServed[q][v]
            /\ q # p => turn'[q] = turn[q] /\ ahead'[q][v] = ahead[q][v]
        BY <3>1, <3>3 DEF TurnsInv
    <3>7. lastServed'[p][w] = t /\ turn'[p] = t
        BY <3>1, <3>3 DEF TurnsInv
    <3>8. \A q \in Pollers, v \in Workspaces: lastServed'[q][v] <= turn'[q]
      <4> SUFFICES ASSUME NEW q \in Pollers, NEW v \in Workspaces PROVE lastServed'[q][v] <= turn'[q]
          OBVIOUS
      <4>1. lastServed[q][v] <= turn[q] /\ lastServed[q][v] \in Nat /\ turn[q] \in Nat
          BY DEF TurnsInv
      <4> QED BY <3>4, <3>6, <3>7, <4>1
    <3>9. DOMAIN chosen' = Pollers /\ \A q \in Pollers: ChoiceOK(q)'
      <4>1. DOMAIN chosen' = Pollers
          BY <3>2 DEF TurnsInv
      <4>2. ASSUME NEW q \in Pollers, q # p PROVE ChoiceOK(q)'
        <5>1. chosen'[q] = chosen[q]
            BY <3>2, <4>2 DEF TurnsInv
        <5> QED BY <3>6, <4>2, <5>1 DEF TurnsInv, ChoiceOK
      <4>3. ChoiceOK(p)'
          BY <3>2 DEF TurnsInv, ChoiceOK
      <4> QED BY <4>1, <4>2, <4>3
    <3>10. ahead' \in [Pollers -> [Workspaces -> Seq(Workspaces)]]
      <4>1. \A v \in Workspaces: ahead[p][v] \in Seq(Workspaces)
          BY DEF TurnsInv
      <4>2. \A v \in Workspaces: Append(ahead[p][v], w) \in Seq(Workspaces)
          BY <4>1, <3>3
      <4> QED BY <3>1, <4>2 DEF TurnsInv
    <3>11. ASSUME NEW q \in Pollers, NEW v \in Workspaces PROVE AheadOK(q, v)'
      <4>1. CASE q # p
        <5>1. ahead'[q][v] = ahead[q][v] /\ \A u \in Workspaces: lastServed'[q][u] = lastServed[q][u]
            BY <3>6, <4>1
        <5>2. \A n \in DOMAIN ahead[q][v]: ahead[q][v][n] \in Workspaces
            BY DEF TurnsInv
        <5>3. AheadOK(q, v)
            BY DEF TurnsInv
        <5> HIDE DEF TurnsInv
        <5>4. \A n \in DOMAIN ahead[q][v]: lastServed'[q][ahead[q][v][n]] > lastServed'[q][v]
            BY <5>1, <5>2, <5>3 DEF AheadOK
        <5> QED BY <5>1, <5>3, <5>4 DEF AheadOK
      <4>2. CASE q = p /\ v \in heads \ {w}
        <5> DEFINE s == ahead[p][v]
        <5>1. s \in Seq(Workspaces) /\ AheadOK(p, v)
            BY DEF TurnsInv
        <5>2. ahead'[p][v] = Append(s, w)
            BY <3>1, <4>2 DEF TurnsInv
        <5>3. lastServed[p][v] \in Nat /\ lastServed[p][v] <= turn[p] /\ lastServed'[p][v] = lastServed[p][v]
            BY <3>6, <4>2 DEF TurnsInv
        <5>4. lastServed[p][w] <= lastServed[p][v] /\ lastServed[p][w] \in Nat
            BY <3>3, <4>2 DEF TurnsInv
        <5>5. \A n \in 1..Len(s): s[n] \in Workspaces /\ lastServed[p][s[n]] > lastServed[p][v] /\ lastServed[p][s[n]] \in Nat
          <6> SUFFICES ASSUME NEW n \in 1..Len(s)
                       PROVE  s[n] \in Workspaces /\ lastServed[p][s[n]] > lastServed[p][v] /\ lastServed[p][s[n]] \in Nat
              OBVIOUS
          <6>1. s[n] \in Workspaces
              BY <5>1
          <6>2. n \in DOMAIN ahead[p][v]
              BY <5>1
          <6>3. lastServed[p][s[n]] > lastServed[p][v]
              BY <5>1, <6>2 DEF AheadOK
          <6>4. \A u \in Workspaces: lastServed[p][u] \in Nat
              BY DEF TurnsInv
          <6> QED BY <6>1, <6>3, <6>4
        <5>6. \A n \in 1..Len(s): s[n] # w
            BY <5>4, <5>5, <5>3
        <5>7. /\ DOMAIN Append(s, w) = 1..(Len(s) + 1) /\ Append(s, w)[Len(s) + 1] = w
              /\ \A n \in 1..Len(s): Append(s, w)[n] = s[n]
              /\ Len(s) \in Nat /\ DOMAIN s = 1..Len(s)
            BY <5>1
        <5>8. \A n \in 1..(Len(s) + 1): n \in 1..Len(s) \/ n = Len(s) + 1
            BY <5>7
        <5> DEFINE g == Append(s, w)
        <5> HIDE DEF s, g
        <5>9. \A n \in 1..(Len(s) + 1): lastServed'[p][g[n]] > lastServed'[p][v]
          <6> SUFFICES ASSUME NEW n \in 1..(Len(s) + 1) PROVE lastServed'[p][g[n]] > lastServed'[p][v]
              OBVIOUS
          <6>1. CASE n = Len(s) + 1
            <7>1. g[n] = w
                BY <6>1, <5>7 DEF g
            <7>2. lastServed'[p][g[n]] = t
                BY <7>1, <3>7
            <7>3. t > lastServed[p][v]
                BY <5>3, <3>4
            <7> QED BY <7>2, <7>3, <5>3
          <6>2. CASE n \in 1..Len(s)
            <7>1. g[n] = s[n] /\ s[n] # w /\ s[n] \in Workspaces
                BY <6>2, <5>5, <5>6, <5>7 DEF g
            <7>2. lastServed'[p][s[n]] = lastServed[p][s[n]]
                BY <7>1, <3>6
            <7> QED BY <7>1, <7>2, <6>2, <5>3, <5>5
          <6> QED BY <6>1, <6>2, <5>8
        <5>10. \A m, n \in 1..(Len(s) + 1): g[m] = g[n] => m = n
          <6> SUFFICES ASSUME NEW m \in 1..(Len(s) + 1), NEW n \in 1..(Len(s) + 1), g[m] = g[n] PROVE m = n
              OBVIOUS
          <6>1. CASE m \in 1..Len(s) /\ n \in 1..Len(s)
              BY <6>1, <5>1, <5>7 DEF AheadOK, g, s
          <6>2. CASE m \in 1..Len(s) /\ n = Len(s) + 1
              BY <6>2, <5>6, <5>7 DEF g
          <6>3. CASE m = Len(s) + 1 /\ n \in 1..Len(s)
              BY <6>3, <5>6, <5>7 DEF g
          <6> QED BY <6>1, <6>2, <6>3, <5>8
        <5>11. ahead'[p][v] = g /\ DOMAIN g = 1..(Len(s) + 1)
            BY <5>2, <5>7 DEF g
        <5> QED BY <4>2, <5>9, <5>10, <5>11 DEF AheadOK
      <4>3. CASE q = p /\ v \notin heads \ {w}
        <5>1. ahead'[p][v] = <<>>
            BY <3>1, <4>3 DEF TurnsInv
        <5> QED BY <5>1, <4>3 DEF AheadOK
      <4> QED BY <4>1, <4>2, <4>3
    <3> QED BY <3>1, <3>5, <3>8, <3>9, <3>10, <3>11 DEF TurnsInv
  <2> QED BY <2>1, <2>2
<1>5. ASSUME NEW p \in Pollers, F!ClaimJob(p) PROVE TurnsInv'
    BY <1>5, <1>2 DEF F!ClaimJob, F!Resting
<1>6. ASSUME UNCHANGED F!vars PROVE TurnsInv'
    BY <1>6 DEF F!vars, TurnsInv, ChoiceOK, AheadOK
<1> QED BY <1>1, <1>3, <1>4, <1>5, <1>6 DEF F!Next

\* While a workspace waits, no other one is served twice, however many jobs
\* it has and whatever other workers take.
THEOREM TurnsAreFair == F!Spec => []OneTurnEach
<1>1. F!Init => TurnsInv
    BY DEF F!Init, F!Resting, TurnsInv, ChoiceOK, AheadOK
<1>2. TurnsInv => OneTurnEach
    BY DEF TurnsInv, AheadOK, OneTurnEach, F!OneTurnEach
<1> QED BY <1>1, <1>2, TurnsStep, PTL DEF F!Spec

(***************************************************************************)
(* Importing resumes.  Whoever is about to queue the parsing of a resume   *)
(* has just made it a candidate's, and is the only one; whoever goes on to *)
(* complete an item or its job has queued it.                              *)
(***************************************************************************)
\* Where a worker has a job at hand.
WorkSteps == {"claiming", "checking", "creating", "parsing", "linking", "ending", "failing", "failed"}

ContentsOK == \A c \in Contents: parses[c] \in {0, 1} /\ (parses[c] = 1 => c \in imported)

FilesOK ==
    /\ DOMAIN importStatus = Files /\ DOMAIN linked = Files
    /\ \A i \in Files:
         /\ importStatus[i] = "completed" => linked[i] # "none"
         /\ linked[i] = "own" => ContentOf[i] \in imported
         /\ importStatus[i] = "completed" /\ i \notin reviewed => parses[ContentOf[i]] = 1
         /\ importStatus[i] = "needs_review" => i \in reviewed

CreationsOK ==
    /\ DOMAIN importJob = C!Jobs
    /\ \A j \in C!Jobs: importJob[j] = "succeeded" => parses[ContentOf[j[1]]] = 1

\* A process p at a step, with a file and, if it is a worker, a job.
ProcessOK(p, step, i, j) ==
    /\ step = "parsing" =>
         i \in Files /\ ContentOf[i] \in imported /\ parses[ContentOf[i]] = 0
    /\ p \in Workers /\ step \in WorkSteps => j \in C!Jobs /\ i = j[1]
    /\ p \in Workers /\ step \in {"linking", "ending"} => parses[ContentOf[i]] = 1

ProcessesOK ==
    /\ DOMAIN importPc = C!Processes /\ DOMAIN importOf = C!Processes /\ DOMAIN importWork = Workers
    /\ \A p \in C!Processes: ProcessOK(p, importPc[p], importOf[p], importWork[p])
    /\ \A p, q \in C!Processes:
         importPc[p] = "parsing" /\ importPc[q] = "parsing"
           /\ ContentOf[importOf[p]] = ContentOf[importOf[q]] => p = q

ImportInv ==
    /\ DOMAIN parses = Contents
    /\ ContentsOK /\ FilesOK /\ CreationsOK /\ ProcessesOK

\* A process goes on, and does not queue a parsing next.
LEMMA ProcessMoves ==
    ASSUME ImportInv, NEW p \in C!Processes, NEW step, step # "parsing",
           importPc' = [importPc EXCEPT ![p] = step],
           DOMAIN importOf' = C!Processes, DOMAIN importWork' = Workers,
           \A q \in C!Processes: q # p => importOf'[q] = importOf[q]
                                          /\ (q \in Workers => importWork'[q] = importWork[q]),
           ProcessOK(p, step, importOf'[p], importWork'[p]),
           UNCHANGED <<imported, parses>>
    PROVE  ProcessesOK'
<1>1. /\ DOMAIN importPc' = C!Processes /\ importPc'[p] = step
      /\ \A q \in C!Processes: q # p => importPc'[q] = importPc[q]
    BY DEF ImportInv, ProcessesOK
<1>2. ASSUME NEW q \in C!Processes PROVE ProcessOK(q, importPc[q], importOf[q], importWork[q])'
  <2>1. CASE q = p
      BY <1>1, <2>1 DEF ProcessOK
  <2>2. CASE q # p
      BY <1>1, <2>2 DEF ImportInv, ProcessesOK, ProcessOK
  <2> QED BY <2>1, <2>2
<1>3. ASSUME NEW q \in C!Processes, NEW r \in C!Processes, importPc'[q] = "parsing", importPc'[r] = "parsing",
             ContentOf[importOf'[q]] = ContentOf[importOf'[r]]
      PROVE  q = r
    BY <1>1, <1>3 DEF ImportInv, ProcessesOK
<1> QED BY <1>1, <1>2, <1>3 DEF ProcessesOK

LEMMA ImportStep == C!ImportAssumption /\ ImportInv /\ [C!Next]_(C!vars) => ImportInv'
<1> SUFFICES ASSUME C!ImportAssumption, ImportInv, [C!Next]_(C!vars) PROVE ImportInv'
    OBVIOUS
<1> DEFINE Goal == ImportInv'
<1> HIDE DEF Goal
<1>0. /\ Uploads \subseteq C!Processes /\ Workers \subseteq C!Processes /\ Requests \subseteq C!Processes
      /\ Uploads \cap Workers = {} /\ Requests \cap Workers = {}
      /\ \A i \in Files: ContentOf[i] \in Contents
      /\ \A j \in C!Jobs: j[1] \in Files
    BY DEF C!ImportAssumption, C!Processes, C!Jobs
\* What does not change.
<1>1. ASSUME UNCHANGED <<imported, parses>> PROVE DOMAIN parses' = Contents /\ ContentsOK'
    BY <1>1 DEF ImportInv, ContentsOK
<1>2. ASSUME UNCHANGED <<importJob, parses>> PROVE CreationsOK'
    BY <1>2 DEF ImportInv, CreationsOK, C!Jobs
<1>3. ASSUME UNCHANGED <<importStatus, linked, reviewed, imported, parses>> PROVE FilesOK'
    BY <1>3 DEF ImportInv, FilesOK
\* An item is not done, and a process goes on.
<1>4. ASSUME NEW i, NEW s, s # "completed", s # "needs_review",
             importStatus' = [importStatus EXCEPT ![i] = s], UNCHANGED <<linked, reviewed, imported, parses>>
      PROVE  FilesOK'
    BY <1>4 DEF ImportInv, FilesOK
<1>5. ASSUME NEW p \in C!Processes, NEW s, NEW what, C!Reads(p, s, what), s # "parsing",
             p \in Workers /\ s \in WorkSteps => importPc[p] \in WorkSteps,
             s \in {"linking", "ending"} => importPc[p] \in {"linking", "ending"},
             UNCHANGED <<importOf, importWork, imported, parses>>
      PROVE  ProcessesOK'
  <2>1. DOMAIN importOf' = C!Processes /\ DOMAIN importWork' = Workers
      BY <1>5 DEF ImportInv, ProcessesOK
  <2>2. ProcessOK(p, importPc[p], importOf[p], importWork[p])
      BY DEF ImportInv, ProcessesOK
  <2>3. ProcessOK(p, s, importOf'[p], importWork'[p])
      BY <1>5, <2>2 DEF ProcessOK
  <2>4. importPc' = [importPc EXCEPT ![p] = s]
      BY <1>5 DEF C!Reads
  <2> QED BY <1>5, <2>1, <2>3, <2>4, ProcessMoves
<1>6. ASSUME NEW p \in C!Processes, C!Ends(p), UNCHANGED <<imported, parses>> PROVE ProcessesOK'
  <2> DEFINE s == IF p \in Uploads THEN "done" ELSE "idle"
  <2>1. /\ DOMAIN importOf' = C!Processes /\ DOMAIN importWork' = Workers
        /\ \A q \in C!Processes: q # p => importOf'[q] = importOf[q]
                                         /\ (q \in Workers => importWork'[q] = importWork[q])
      BY <1>6 DEF C!Ends, ImportInv, ProcessesOK
  <2>2. ProcessOK(p, s, importOf'[p], importWork'[p]) /\ s # "parsing"
      BY DEF ProcessOK, WorkSteps
  <2>3. importPc' = [importPc EXCEPT ![p] = s]
      BY <1>6 DEF C!Ends, C!Goes, C!Reads
  <2> QED BY <1>6, <2>1, <2>2, <2>3, ProcessMoves
\* An upload, or a request, takes up a file.
<1>7. ASSUME NEW p \in C!Processes, p \notin Workers, NEW i, NEW s, NEW what, C!Reads(p, s, what), s # "parsing",
             importOf' = [importOf EXCEPT ![p] = i], UNCHANGED <<importWork, imported, parses>>
      PROVE  ProcessesOK'
  <2>1. /\ DOMAIN importOf' = C!Processes /\ DOMAIN importWork' = Workers
        /\ \A q \in C!Processes: q # p => importOf'[q] = importOf[q]
      BY <1>7 DEF ImportInv, ProcessesOK
  <2>2. ProcessOK(p, s, importOf'[p], importWork'[p])
      BY <1>7 DEF ProcessOK
  <2>3. importPc' = [importPc EXCEPT ![p] = s]
      BY <1>7 DEF C!Reads
  <2> QED BY <1>7, <2>1, <2>2, <2>3, ProcessMoves
\* A job is queued, or ends.
<1>8. ASSUME NEW i, C!Enqueue(i), UNCHANGED parses PROVE CreationsOK'
    BY <1>8 DEF C!Enqueue, ImportInv, CreationsOK, C!Jobs
<1>9. ASSUME NEW w \in Workers, NEW s, C!EndsJob(w, s), UNCHANGED parses,
             s = "succeeded" => importWork[w] \in C!Jobs /\ parses[ContentOf[importWork[w][1]]] = 1
      PROVE  CreationsOK'
    BY <1>9 DEF C!EndsJob, C!jobs, ImportInv, CreationsOK, C!Jobs
<1>10. ASSUME DOMAIN parses' = Contents, ContentsOK', FilesOK', CreationsOK', ProcessesOK' PROVE Goal
    BY <1>10 DEF Goal, ImportInv
<1> USE DEF C!items, C!files, C!jobs, C!procs
<1>11. ASSUME NEW p \in C!Processes, C!RollupRead(p) PROVE Goal
  <2>1. C!Reads(p, "filing", C!Rollup(C!BatchOf(p))) /\ UNCHANGED <<importStatus, linked, reviewed, imported,
          parses, importJob, importOf, importWork>>
      BY <1>11 DEF C!RollupRead
  <2> QED BY <1>1, <1>2, <1>3, <1>5, <1>10, <2>1 DEF WorkSteps
<1>12. ASSUME NEW p \in C!Processes, C!RollupWrite(p) \/ C!Dies(p) PROVE Goal
  <2>1. C!Ends(p) /\ UNCHANGED <<importStatus, linked, reviewed, imported, parses, importJob>>
      BY <1>12 DEF C!RollupWrite, C!Dies
  <2> QED BY <1>1, <1>2, <1>3, <1>6, <1>10, <2>1
<1>13. ASSUME NEW b \in Uploads, C!Upload(b) PROVE Goal
  <2>1. C!Reads(b, "next", C!None) /\ UNCHANGED <<importStatus, linked, reviewed, imported, parses, importJob,
          importOf, importWork>>
      BY <1>13 DEF C!Upload, C!Goes
  <2> QED BY <1>0, <1>1, <1>2, <1>3, <1>5, <1>10, <2>1 DEF WorkSteps
<1>14. ASSUME NEW b \in Uploads, NEW i \in Files, C!Receive(b, i) PROVE Goal
  <2>1. /\ C!Reads(b, "storing", analyses[ContentOf[i]]) /\ importOf' = [importOf EXCEPT ![b] = i]
        /\ importStatus' = [importStatus EXCEPT ![i] = "processing"]
        /\ UNCHANGED <<linked, reviewed, imported, parses, importJob, importWork>>
      BY <1>14 DEF C!Receive, C!Sets
  <2>2. b \in C!Processes /\ b \notin Workers
      BY <1>0
  <2>3. FilesOK' /\ ProcessesOK'
      BY <1>4, <1>7, <2>1, <2>2
  <2> QED BY <1>1, <1>2, <1>10, <2>1, <2>3
<1>15. ASSUME NEW b \in Uploads, C!SaveDuplicate(b) PROVE Goal
  <2> DEFINE i == importOf[b]
             own == IF ContentOf[i] \in imported THEN "own" ELSE "none"
  <2>1. /\ C!Reads(b, "next", C!None) /\ linked' = [linked EXCEPT ![i] = own]
        /\ importStatus' = [importStatus EXCEPT ![i] = "duplicate"]
        /\ UNCHANGED <<reviewed, imported, parses, importJob, importOf, importWork>>
      BY <1>15 DEF C!SaveDuplicate, C!Sets, C!Goes, C!FileOf
  <2>2. own = "own" => ContentOf[i] \in imported
      OBVIOUS
  <2> HIDE DEF i, own
  <2>3. FilesOK'
      BY <2>1, <2>2 DEF ImportInv, FilesOK
  <2> QED BY <1>0, <1>1, <1>2, <1>5, <1>10, <2>1, <2>3 DEF WorkSteps
<1>16. ASSUME NEW b \in Uploads, NEW ok, C!SaveNew(b, ok) PROVE Goal
  <2>1. /\ \E s \in {"matching", "next"}: C!Reads(b, s, C!None)
        /\ \/ importStatus' = importStatus
           \/ importStatus' = [importStatus EXCEPT ![importOf[b]] = "failed"]
        /\ UNCHANGED <<linked, reviewed, imported, parses, importJob, importOf, importWork>>
      BY <1>16 DEF C!SaveNew, C!Goes, C!Fails, C!Sets
  <2>2. FilesOK'
      BY <1>3, <1>4, <2>1
  <2> QED BY <1>0, <1>1, <1>2, <1>5, <1>10, <2>1, <2>2 DEF WorkSteps
<1>17. ASSUME NEW b \in Uploads, C!SaveRefused(b) \/ C!UploadError(b) PROVE Goal
  <2>1. /\ C!Reads(b, "next", C!None)
        /\ importStatus' = [importStatus EXCEPT ![importOf[b]] = "failed"]
        /\ UNCHANGED <<linked, reviewed, imported, parses, importJob, importOf, importWork>>
      BY <1>17 DEF C!SaveRefused, C!UploadError, C!Goes, C!Fails, C!Sets
  <2>2. FilesOK'
      BY <1>4, <2>1
  <2> QED BY <1>0, <1>1, <1>2, <1>5, <1>10, <2>1, <2>2 DEF WorkSteps
<1>18. ASSUME NEW b \in Uploads, NEW possible, C!Match(b, possible) PROVE Goal
  <2>1. /\ \E s \in {"next", "queueing"}: C!Reads(b, s, C!None)
        /\ \/ importStatus' = [importStatus EXCEPT ![importOf[b]] = "needs_review"]
              /\ reviewed' = reviewed \cup {importOf[b]}
           \/ importStatus' = [importStatus EXCEPT ![importOf[b]] = "processing"] /\ reviewed' = reviewed
        /\ UNCHANGED <<linked, imported, parses, importJob, importOf, importWork>>
      BY <1>18 DEF C!Match, C!Goes, C!Sets
  <2>2. FilesOK'
      BY <2>1 DEF ImportInv, FilesOK
  <2> QED BY <1>0, <1>1, <1>2, <1>5, <1>10, <2>1, <2>2 DEF WorkSteps
<1>19. ASSUME NEW b \in Uploads, C!UploadEnqueues(b) PROVE Goal
  <2>1. /\ C!Reads(b, "next", C!None) /\ C!Enqueue(importOf[b])
        /\ UNCHANGED <<importStatus, linked, reviewed, imported, parses, importOf, importWork>>
      BY <1>19 DEF C!UploadEnqueues, C!Goes
  <2> QED BY <1>0, <1>1, <1>3, <1>5, <1>8, <1>10, <2>1 DEF WorkSteps
<1>20. ASSUME NEW b \in Uploads, C!Cancel(b) PROVE Goal
  <2> DEFINE gone == {i \in Files: UploadOf[i] = b /\ importStatus[i] = "processing"}
  <2>1. /\ importStatus' = [i \in Files |-> IF i \in gone THEN "cancelled" ELSE importStatus[i]]
        /\ UNCHANGED <<linked, reviewed, imported, parses, importJob, importPc, importOf, importWork>>
      BY <1>20 DEF C!Cancel
  <2> HIDE DEF gone
  <2>2. FilesOK'
      BY <2>1 DEF ImportInv, FilesOK
  <2>3. ProcessesOK'
      BY <2>1 DEF ImportInv, ProcessesOK, ProcessOK
  <2> QED BY <1>1, <1>2, <1>10, <2>1, <2>2, <2>3
<1>21. ASSUME NEW r \in Requests, NEW i \in Files, C!RetryRead(r, i) PROVE Goal
  <2>1. /\ C!Reads(r, "retrying", C!None) /\ importOf' = [importOf EXCEPT ![r] = i]
        /\ UNCHANGED <<importStatus, linked, reviewed, imported, parses, importJob, importWork>>
      BY <1>21 DEF C!RetryRead, C!Goes
  <2>2. r \in C!Processes /\ r \notin Workers
      BY <1>0
  <2>3. ProcessesOK'
      BY <1>7, <2>1, <2>2
  <2> QED BY <1>1, <1>2, <1>3, <1>10, <2>1, <2>3
<1>22. ASSUME NEW r \in Requests, C!RetryWrite(r) PROVE Goal
  <2>1. /\ C!Reads(r, "queueing", C!None)
        /\ importStatus' = [importStatus EXCEPT ![importOf[r]] = "processing"]
        /\ UNCHANGED <<linked, reviewed, imported, parses, importJob, importOf, importWork>>
      BY <1>22 DEF C!RetryWrite, C!Goes, C!Sets
  <2>2. FilesOK'
      BY <1>4, <2>1
  <2> QED BY <1>0, <1>1, <1>2, <1>5, <1>10, <2>1, <2>2 DEF WorkSteps
<1>23. ASSUME NEW r \in Requests, NEW whole, C!RetryEnqueues(r, whole) PROVE Goal
  <2>1. /\ C!Enqueue(importOf[r]) /\ UNCHANGED <<importStatus, linked, reviewed, imported, parses>>
        /\ \/ C!Reads(r, "rollup", C!None) /\ UNCHANGED <<importOf, importWork>>
           \/ C!Ends(r)
      BY <1>23 DEF C!RetryEnqueues, C!Goes
  <2>2. ProcessesOK'
      BY <1>0, <1>5, <1>6, <2>1 DEF WorkSteps
  <2> QED BY <1>1, <1>3, <1>8, <1>10, <2>1, <2>2
\* A person's decision makes the file somebody's, and may be about to queue it.
<1>24. ASSUME NEW r \in Requests, NEW i \in Files, NEW owner \in {"own", "other"}, C!Resolve(r, i, owner) PROVE Goal
  <2> DEFINE c == ContentOf[i]
             s == IF owner = "own" THEN "parsing" ELSE "rollup"
  <2>1. /\ importStatus[i] = "needs_review" /\ (owner = "own" => c \notin imported)
        /\ importStatus' = [importStatus EXCEPT ![i] = "completed"]
        /\ linked' = [linked EXCEPT ![i] = owner]
        /\ imported' = IF owner = "own" THEN imported \cup {c} ELSE imported
        /\ importPc' = [importPc EXCEPT ![r] = s] /\ importOf' = [importOf EXCEPT ![r] = i]
        /\ UNCHANGED <<reviewed, parses, importJob, importWork>>
      BY <1>24 DEF C!Resolve, C!Sets, C!Goes, C!Reads
  <2>2. r \in C!Processes /\ r \notin Workers /\ c \in Contents
      BY <1>0
  <2>3. DOMAIN parses' = Contents /\ ContentsOK'
      BY <2>1 DEF ImportInv, ContentsOK
  <2>4. FilesOK'
    <3>1. i \in reviewed
        BY <2>1 DEF ImportInv, FilesOK
    <3>2. owner = "own" => ContentOf[i] \in imported'
        BY <2>1
    <3>3. imported \subseteq imported'
        BY <2>1
    <3> HIDE DEF c
    <3> QED BY <2>1, <3>1, <3>2, <3>3 DEF ImportInv, FilesOK
  <2>5. CreationsOK'
      BY <1>2, <2>1
  <2>6. owner = "own" => parses[c] = 0
      BY <2>1, <2>2 DEF ImportInv, ContentsOK
  <2>7. /\ DOMAIN importPc' = C!Processes /\ DOMAIN importOf' = C!Processes /\ DOMAIN importWork' = Workers
        /\ importPc'[r] = s /\ importOf'[r] = i /\ importWork' = importWork
        /\ \A q \in C!Processes: q # r => importPc'[q] = importPc[q] /\ importOf'[q] = importOf[q]
      BY <2>1, <2>2 DEF ImportInv, ProcessesOK
  <2>8. imported \subseteq imported' /\ (owner = "own" => c \in imported') /\ parses' = parses
      BY <2>1
  <2>9. ASSUME NEW q \in C!Processes PROVE ProcessOK(q, importPc[q], importOf[q], importWork[q])'
    <3>1. CASE q = r
        BY <2>2, <2>6, <2>7, <2>8, <3>1 DEF ProcessOK
    <3>2. CASE q # r
        BY <2>7, <2>8, <3>2 DEF ImportInv, ProcessesOK, ProcessOK
    <3> QED BY <3>1, <3>2
  \* Nobody else is about to queue this content, which was not anybody's.
  <2>10. ASSUME NEW q \in C!Processes, q # r, importPc'[q] = "parsing" PROVE
           ContentOf[importOf'[q]] # ContentOf[importOf'[r]] \/ importPc'[r] # "parsing"
    <3>1. ContentOf[importOf[q]] \in imported
        BY <2>7, <2>10 DEF ImportInv, ProcessesOK, ProcessOK
    <3> QED BY <2>1, <2>7, <2>10, <3>1
  <2>11. ASSUME NEW q \in C!Processes, NEW p \in C!Processes, importPc'[q] = "parsing", importPc'[p] = "parsing",
                ContentOf[importOf'[q]] = ContentOf[importOf'[p]]
         PROVE  q = p
    <3>1. CASE q = r \/ p = r
        BY <2>10, <2>11, <3>1
    <3>2. CASE q # r /\ p # r
        BY <2>7, <2>11, <3>2 DEF ImportInv, ProcessesOK
    <3> QED BY <3>1, <3>2
  <2>12. ProcessesOK'
      BY <2>7, <2>9, <2>11 DEF ProcessesOK
  <2> QED BY <1>10, <2>3, <2>4, <2>5, <2>12
\* Only the one that is about to queues the content, which nobody has.
<1>25. ASSUME NEW p \in C!Processes, C!QueueParse(p) PROVE Goal
  <2> DEFINE c == ContentOf[importOf[p]]
             s == IF p \in Workers THEN "linking" ELSE "rollup"
  <2>1. /\ importPc[p] = "parsing" /\ parses' = [parses EXCEPT ![c] = parses[c] + 1]
        /\ importPc' = [importPc EXCEPT ![p] = s]
        /\ UNCHANGED <<importStatus, linked, reviewed, imported, importJob, importOf, importWork>>
      BY <1>25 DEF C!QueueParse, C!Goes, C!Reads, C!FileOf
  <2>2. importOf[p] \in Files /\ c \in imported /\ parses[c] = 0 /\ c \in Contents
        /\ (p \in Workers => importWork[p] \in C!Jobs /\ importOf[p] = importWork[p][1])
      BY <1>0, <2>1 DEF ImportInv, ProcessesOK, ProcessOK, WorkSteps
  <2>3. DOMAIN parses' = Contents /\ parses'[c] = 1 /\ \A d \in Contents: d # c => parses'[d] = parses[d]
      BY <2>1, <2>2 DEF ImportInv
  <2>4. \A q \in C!Processes: importPc[q] = "parsing" /\ ContentOf[importOf[q]] = c => q = p
      BY <2>1 DEF ImportInv, ProcessesOK
  <2> HIDE DEF c
  <2>5. \A d: d \in Contents /\ parses[d] = 1 => parses'[d] = 1
      BY <2>3
  <2>6. ContentsOK'
      BY <2>1, <2>2, <2>3 DEF ImportInv, ContentsOK
  <2>7. FilesOK'
      BY <1>0, <2>1, <2>5 DEF ImportInv, FilesOK
  <2>8. CreationsOK'
      BY <1>0, <2>1, <2>5 DEF ImportInv, CreationsOK, C!Jobs
  <2>9. /\ DOMAIN importPc' = C!Processes /\ importPc'[p] = s
        /\ \A q \in C!Processes: q # p => importPc'[q] = importPc[q]
      BY <2>1 DEF ImportInv, ProcessesOK
  <2>10. ASSUME NEW q \in C!Processes PROVE ProcessOK(q, importPc[q], importOf[q], importWork[q])'
    <3>1. CASE q = p
        BY <2>1, <2>2, <2>3, <2>9, <3>1 DEF ProcessOK, c
    <3>2. CASE q # p
      <4>1. ProcessOK(q, importPc[q], importOf[q], importWork[q]) /\ importPc'[q] = importPc[q]
          BY <2>9, <3>2 DEF ImportInv, ProcessesOK
      <4>2. ASSUME importPc[q] = "parsing" PROVE parses'[ContentOf[importOf[q]]] = 0
        <5>1. importOf[q] \in Files /\ parses[ContentOf[importOf[q]]] = 0
            BY <4>1, <4>2 DEF ProcessOK
        <5>2. ContentOf[importOf[q]] # c
            BY <2>4, <3>2, <4>2
        <5> QED BY <1>0, <2>3, <5>1, <5>2
      <4>3. ASSUME q \in Workers, importPc[q] \in {"linking", "ending"} PROVE parses'[ContentOf[importOf[q]]] = 1
        <5>1. importOf[q] \in Files /\ parses[ContentOf[importOf[q]]] = 1
            BY <1>0, <4>1, <4>3 DEF ProcessOK, WorkSteps
        <5> QED BY <1>0, <2>5, <5>1
      <4> QED BY <2>1, <4>1, <4>2, <4>3 DEF ProcessOK
    <3> QED BY <3>1, <3>2
  <2>11. ProcessesOK'
    <3>1. s # "parsing"
        OBVIOUS
    <3> HIDE DEF s
    <3> QED BY <2>1, <2>9, <2>10, <3>1 DEF ImportInv, ProcessesOK
  <2> QED BY <1>10, <2>3, <2>6, <2>7, <2>8, <2>11
<1>26. ASSUME NEW w \in Workers, NEW j \in C!Jobs, C!Pick(w, j) PROVE Goal
  <2>1. /\ importPc' = [importPc EXCEPT ![w] = "claiming"] /\ importOf' = [importOf EXCEPT ![w] = j[1]]
        /\ importWork' = [importWork EXCEPT ![w] = j]
        /\ UNCHANGED <<importStatus, linked, reviewed, imported, parses, importJob>>
      BY <1>26 DEF C!Pick, C!Reads
  <2>2. /\ DOMAIN importOf' = C!Processes /\ DOMAIN importWork' = Workers
        /\ importOf'[w] = j[1] /\ importWork'[w] = j
        /\ \A q \in C!Processes: q # w => importOf'[q] = importOf[q]
                                         /\ (q \in Workers => importWork'[q] = importWork[q])
      BY <1>0, <2>1 DEF ImportInv, ProcessesOK
  <2>3. ProcessOK(w, "claiming", importOf'[w], importWork'[w])
      BY <2>2 DEF ProcessOK
  <2>4. ProcessesOK'
      BY <1>0, <2>1, <2>2, <2>3, ProcessMoves, ZenonT(60)
  <2> QED BY <1>1, <1>2, <1>3, <1>10, <2>1, <2>4
<1>27. ASSUME NEW w \in Workers, C!Claim(w) PROVE Goal
  <2>1. /\ C!Reads(w, "checking", C!None) /\ importPc[w] = "claiming"
        /\ importJob' = [importJob EXCEPT ![importWork[w]] = "running"]
        /\ UNCHANGED <<importStatus, linked, reviewed, imported, parses, importOf, importWork>>
      BY <1>27 DEF C!Claim, C!Claims, C!Goes
  <2>2. CreationsOK'
      BY <2>1 DEF ImportInv, CreationsOK, C!Jobs
  <2> QED BY <1>0, <1>1, <1>3, <1>5, <1>10, <2>1, <2>2 DEF WorkSteps
<1>28. ASSUME NEW w \in Workers, C!ClaimLost(w) \/ C!CheckLost(w) PROVE Goal
  <2>1. C!Ends(w) /\ UNCHANGED <<importStatus, linked, reviewed, imported, parses, importJob>>
      BY <1>28 DEF C!ClaimLost, C!CheckLost
  <2> QED BY <1>0, <1>1, <1>2, <1>3, <1>6, <1>10, <2>1
<1>29. ASSUME NEW w \in Workers, C!CheckCancelled(w) PROVE Goal
  <2>1. /\ C!Ends(w) /\ C!EndsJob(w, "cancelled")
        /\ UNCHANGED <<importStatus, linked, reviewed, imported, parses>>
      BY <1>29 DEF C!CheckCancelled
  <2> QED BY <1>0, <1>1, <1>3, <1>6, <1>9, <1>10, <2>1
<1>30. ASSUME NEW w \in Workers, C!CheckPasses(w) PROVE Goal
  <2>1. /\ C!Reads(w, "creating", C!None) /\ importPc[w] = "checking"
        /\ UNCHANGED <<importStatus, linked, reviewed, imported, parses, importJob, importOf, importWork>>
      BY <1>30 DEF C!CheckPasses, C!Goes
  <2> QED BY <1>0, <1>1, <1>2, <1>3, <1>5, <1>10, <2>1 DEF WorkSteps
<1>31. ASSUME NEW w \in Workers, C!Complete(w) PROVE Goal
  <2> DEFINE i == importOf[w]
  <2>1. /\ C!Reads(w, "ending", C!None) /\ importPc[w] = "linking"
        /\ importStatus' = [importStatus EXCEPT ![i] = "completed"]
        /\ linked' = [linked EXCEPT ![i] = "own"]
        /\ UNCHANGED <<reviewed, imported, parses, importJob, importOf, importWork>>
      BY <1>31 DEF C!Complete, C!Goes, C!Sets
  <2>2. i \in Files /\ parses[ContentOf[i]] = 1
      BY <1>0, <2>1 DEF ImportInv, ProcessesOK, ProcessOK, WorkSteps
  <2>3. ContentOf[i] \in imported
      BY <1>0, <2>2 DEF ImportInv, ContentsOK
  <2>4. ProcessesOK'
      BY <1>0, <1>5, <2>1 DEF WorkSteps
  <2> HIDE DEF i
  <2>5. FilesOK'
      BY <2>1, <2>2, <2>3 DEF ImportInv, FilesOK
  <2> QED BY <1>1, <1>2, <1>10, <2>1, <2>4, <2>5
<1>32. ASSUME NEW w \in Workers, C!Succeed(w) PROVE Goal
  <2>1. /\ C!Reads(w, "rollup", C!None) /\ importPc[w] = "ending" /\ C!EndsJob(w, "succeeded")
        /\ UNCHANGED <<importStatus, linked, reviewed, imported, parses, importOf, importWork>>
      BY <1>32 DEF C!Succeed, C!Goes
  <2>2. importWork[w] \in C!Jobs /\ parses[ContentOf[importWork[w][1]]] = 1
      BY <1>0, <2>1 DEF ImportInv, ProcessesOK, ProcessOK, WorkSteps
  <2> QED BY <1>0, <1>1, <1>3, <1>5, <1>9, <1>10, <2>1, <2>2 DEF WorkSteps
<1>33. ASSUME NEW w \in Workers, C!WorkerError(w) PROVE Goal
  <2>1. /\ C!Reads(w, "failing", C!None) /\ importPc[w] \in WorkSteps
        /\ UNCHANGED <<importStatus, linked, reviewed, imported, parses, importJob, importOf, importWork>>
      BY <1>33 DEF C!WorkerError, C!Goes, WorkSteps
  <2> QED BY <1>0, <1>1, <1>2, <1>3, <1>5, <1>10, <2>1
<1>34. ASSUME NEW w \in Workers, C!FailItem(w) PROVE Goal
  <2>1. /\ C!Reads(w, "failed", C!None) /\ importPc[w] \in WorkSteps
        /\ importStatus' = [importStatus EXCEPT ![importOf[w]] = "failed"]
        /\ UNCHANGED <<linked, reviewed, imported, parses, importJob, importOf, importWork>>
      BY <1>34 DEF C!FailItem, C!Goes, C!Fails, C!Sets, WorkSteps
  <2>2. FilesOK'
      BY <1>4, <2>1
  <2> QED BY <1>0, <1>1, <1>2, <1>5, <1>10, <2>1, <2>2
<1>35. ASSUME NEW w \in Workers, C!FailJob(w) PROVE Goal
  <2>1. /\ C!Reads(w, "rollup", C!None) /\ C!EndsJob(w, "failed")
        /\ UNCHANGED <<importStatus, linked, reviewed, imported, parses, importOf, importWork>>
      BY <1>35 DEF C!FailJob, C!Goes
  <2> QED BY <1>0, <1>1, <1>3, <1>5, <1>9, <1>10, <2>1 DEF WorkSteps
\* The candidate is created once; who creates it queues the parsing.
<1>36. ASSUME NEW w \in Workers, C!Create(w) PROVE Goal
  <2> DEFINE i == importOf[w]
             c == ContentOf[i]
             s == IF c \in imported THEN "failing" ELSE "parsing"
  <2>1. /\ importPc[w] = "creating" /\ imported' = imported \cup {c}
        /\ importPc' = [importPc EXCEPT ![w] = s]
        /\ UNCHANGED <<importStatus, linked, reviewed, parses, importJob, importOf, importWork>>
      BY <1>36 DEF C!Create, C!Goes, C!Reads, C!FileOf
  <2>2. w \in C!Processes /\ importWork[w] \in C!Jobs /\ i = importWork[w][1] /\ i \in Files /\ c \in Contents
      BY <1>0, <2>1 DEF ImportInv, ProcessesOK, ProcessOK, WorkSteps
  <2>3. c \notin imported => parses[c] = 0
      BY <2>2 DEF ImportInv, ContentsOK
  <2>4. DOMAIN parses' = Contents /\ ContentsOK'
      BY <2>1 DEF ImportInv, ContentsOK
  <2>5. /\ DOMAIN importPc' = C!Processes /\ importPc'[w] = s /\ importOf' = importOf /\ importWork' = importWork
        /\ \A q \in C!Processes: q # w => importPc'[q] = importPc[q]
      BY <2>1, <2>2 DEF ImportInv, ProcessesOK
  <2>6. imported \subseteq imported' /\ c \in imported' /\ parses' = parses /\ s \in {"failing", "parsing"}
      BY <2>1
  <2>7. FilesOK'
      BY <2>1, <2>6 DEF ImportInv, FilesOK
  <2>8. ASSUME NEW q \in C!Processes PROVE ProcessOK(q, importPc[q], importOf[q], importWork[q])'
    <3>1. CASE q = w
        BY <2>2, <2>3, <2>5, <2>6, <3>1 DEF ProcessOK
    <3>2. CASE q # w
        BY <2>5, <2>6, <3>2 DEF ImportInv, ProcessesOK, ProcessOK
    <3> QED BY <3>1, <3>2
  <2>9. ASSUME NEW q \in C!Processes, q # w, importPc'[q] = "parsing"
        PROVE  ContentOf[importOf[q]] # c \/ importPc'[w] # "parsing"
    <3>1. ContentOf[importOf[q]] \in imported
        BY <2>5, <2>9 DEF ImportInv, ProcessesOK, ProcessOK
    <3> QED BY <2>5, <3>1
  <2>10. ASSUME NEW q \in C!Processes, NEW p \in C!Processes, importPc'[q] = "parsing", importPc'[p] = "parsing",
                ContentOf[importOf[q]] = ContentOf[importOf[p]]
         PROVE  q = p
    <3>1. CASE q = w \/ p = w
        BY <2>9, <2>10, <3>1
    <3>2. CASE q # w /\ p # w
        BY <2>5, <2>10, <3>2 DEF ImportInv, ProcessesOK
    <3> QED BY <3>1, <3>2
  <2>11. DOMAIN importOf' = C!Processes /\ DOMAIN importWork' = Workers
      BY <2>5 DEF ImportInv, ProcessesOK
  <2>12. ProcessesOK'
      BY <2>5, <2>8, <2>10, <2>11 DEF ProcessesOK
  <2> QED BY <1>2, <1>10, <2>1, <2>4, <2>7, <2>12
<1>37. ASSUME (\E j \in C!Jobs: C!LeaseLapses(j) \/ C!LeaseOutlived(j)) \/ UNCHANGED C!vars PROVE Goal
  <2>1. UNCHANGED <<importStatus, linked, reviewed, imported, parses, importJob, importPc, importOf, importWork>>
      BY <1>37 DEF C!LeaseLapses, C!LeaseOutlived, C!vars
  <2>2. ProcessesOK'
      BY <2>1 DEF ImportInv, ProcessesOK, ProcessOK
  <2> QED BY <1>1, <1>2, <1>3, <1>10, <2>1, <2>2
<1>38. Goal
    BY <1>11, <1>12, <1>13, <1>14, <1>15, <1>16, <1>17, <1>18, <1>19, <1>20, <1>21, <1>22, <1>23, <1>24, <1>25,
       <1>26, <1>27, <1>28, <1>29, <1>30, <1>31, <1>32, <1>33, <1>34, <1>35, <1>36, <1>37
    DEF C!Next
<1> QED BY <1>38 DEF Goal

LEMMA ImportHolds == C!ImportAssumption => (C!Spec => []ImportInv)
<1> SUFFICES ASSUME C!ImportAssumption PROVE C!Spec => []ImportInv
    OBVIOUS
<1>1. C!Init => ImportInv
    BY DEF C!Init, ImportInv, ContentsOK, FilesOK, CreationsOK, ProcessesOK, ProcessOK, WorkSteps, C!ImportAssumption
<1>2. ImportInv /\ [C!Next]_(C!vars) => ImportInv'
    BY ImportStep
<1> QED BY <1>1, <1>2, PTL DEF C!Spec

(* What reads as done is done, for any number of batches, files, workers,  *)
(* retries, reviews, crashes and leases outlived by their worker.          *)
THEOREM ImportedIsDone == C!ImportAssumption => (C!Spec => []DoneIsDone)
<1> SUFFICES ASSUME C!ImportAssumption PROVE C!Spec => []DoneIsDone
    OBVIOUS
<1>1. ImportInv => DoneIsDone
  <2> SUFFICES ASSUME ImportInv PROVE DoneIsDone
      OBVIOUS
  <2>1. \A j \in C!Jobs: importJob[j] = "succeeded" => parses[ContentOf[j[1]]] > 0
    <3>1. \A j \in C!Jobs: importJob[j] = "succeeded" => parses[ContentOf[j[1]]] = 1
        BY DEF ImportInv, CreationsOK
    <3> QED BY <3>1
  <2>2. ASSUME NEW i \in Files
        PROVE  /\ importStatus[i] = "completed" => linked[i] # "none"
               /\ linked[i] = "own" => ContentOf[i] \in imported
               /\ importStatus[i] = "completed" /\ i \notin reviewed => parses[ContentOf[i]] > 0
      BY DEF ImportInv, FilesOK
  <2> QED BY <2>1, <2>2 DEF DoneIsDone, C!DoneIsDone
<1> QED BY <1>1, ImportHolds, PTL

(* A resume becomes one candidate's and is parsed once.                    *)
THEOREM ResumesParsedOnce == C!ImportAssumption => (C!Spec => []ParsedOnce)
<1> SUFFICES ASSUME C!ImportAssumption PROVE C!Spec => []ParsedOnce
    OBVIOUS
<1>1. ImportInv => ParsedOnce
    BY DEF ImportInv, ContentsOK, ParsedOnce, C!ParsedOnce
<1> QED BY <1>1, ImportHolds, PTL
=============================================================================
