------------------------------ MODULE FairTurns ------------------------------
(***************************************************************************)
(* FairQueue: which queued job a worker runs next.  The workspace that it  *)
(* served longest ago goes first, one it never served before all others,   *)
(* and of that workspace the oldest job.  The turns are the worker's own;  *)
(* the queue is shared, and moves between the two reads of a choice, and   *)
(* before the claim.                                                       *)
(***************************************************************************)
EXTENDS Naturals, Sequences, FiniteSets

CONSTANTS
  Workspaces,
  Pollers,     \* the workers, each with turns of its own
  MaxJobs      \* bound: jobs ever queued

TurnsAssumption == IsFiniteSet(Workspaces) /\ MaxJobs \in Nat

VARIABLES
  queue,    \* the workspaces of all jobs, oldest first
  taken,    \* the jobs that are no longer claimable
  turn,     \* by poller: the turns it has given
  lastServed,  \* by poller and workspace: the turn it had last, zero if none
  chosen,   \* by poller: what it has read
  ahead     \* history: by poller and workspace, those served while it waited

vars == <<queue, taken, turn, lastServed, chosen, ahead>>

Resting == [at |-> "rest"]

Init ==
  /\ queue = <<>>
  /\ taken = {}
  /\ turn = [p \in Pollers |-> 0]
  /\ lastServed = [p \in Pollers |-> [w \in Workspaces |-> 0]]
  /\ chosen = [p \in Pollers |-> Resting]
  /\ ahead = [p \in Pollers |-> [w \in Workspaces |-> <<>>]]

Waiting == DOMAIN queue \ taken
HeadsNow == {queue[n] : n \in Waiting}
Oldest(w) == CHOOSE n \in Waiting :
  queue[n] = w /\ \A m \in Waiting : queue[m] = w => n <= m

Enqueue(w) ==
  /\ Len(queue) < MaxJobs
  /\ queue' = Append(queue, w)
  /\ UNCHANGED <<taken, turn, lastServed, chosen, ahead>>

(* Mutant: the oldest job first, whosever it is, as it used to be.         *)
OlderFirst(p, v, w) == Oldest(v) <= Oldest(w)

(* The order of the heads.                                                 *)
Before(p, v, w) ==
  \/ lastServed[p][v] < lastServed[p][w]
  \/ lastServed[p][v] = lastServed[p][w] /\ Oldest(v) <= Oldest(w)

(* The first read groups what can be claimed by workspace ...              *)
Choose(p) == \E w \in HeadsNow :
  /\ chosen[p] = Resting
  /\ \A v \in HeadsNow : Before(p, w, v)
  /\ chosen' = [chosen EXCEPT ![p] = [at |-> "chosen", workspace |-> w, heads |-> HeadsNow]]
  /\ UNCHANGED <<queue, taken, turn, lastServed, ahead>>

(* ... the second takes the oldest job of the first workspace, if there is *)
(* still one, and counts the turn.                                         *)
Take(p) ==
  /\ chosen[p].at = "chosen"
  /\ LET w == chosen[p].workspace IN
       IF w \in HeadsNow
       THEN /\ turn' = [turn EXCEPT ![p] = @ + 1]
            /\ lastServed' = [lastServed EXCEPT ![p][w] = turn[p] + 1]
            /\ chosen' = [chosen EXCEPT ![p] = [at |-> "found", job |-> Oldest(w)]]
            /\ ahead' = [ahead EXCEPT ![p] = [v \in Workspaces |->
                 IF v \in chosen[p].heads \ {w} THEN Append(@[v], w) ELSE <<>>]]
       ELSE /\ chosen' = [chosen EXCEPT ![p] = Resting]
            /\ UNCHANGED <<turn, lastServed, ahead>>
  /\ UNCHANGED <<queue, taken>>

(* The worker claims the job, unless another has.                          *)
ClaimJob(p) ==
  /\ chosen[p].at = "found"
  /\ taken' = taken \cup {chosen[p].job}
  /\ chosen' = [chosen EXCEPT ![p] = Resting]
  /\ UNCHANGED <<queue, turn, lastServed, ahead>>

Next ==
  \/ \E w \in Workspaces : Enqueue(w)
  \/ \E p \in Pollers : Choose(p) \/ Take(p) \/ ClaimJob(p)

Spec == Init /\ [][Next]_vars

(* A workspace with a job waits for one job at most of every other one,    *)
(* however many of theirs are older (#389).                                *)
OneTurnEach == \A p \in Pollers, w \in Workspaces :
  \A m, n \in DOMAIN ahead[p][w] : ahead[p][w][m] = ahead[p][w][n] => m = n
=============================================================================
