---------------------------- MODULE InterviewPlan ----------------------------
(***************************************************************************)
(* The middle of an interview: the versions of the job's rubric, the plan  *)
(* of one task, and its rounds until they are completed (RubricService,    *)
(* TasksService.confirmPlan and RoundsService of the Interview backend).   *)
(*                                                                         *)
(* Every operation reads first and writes later, in statements of their    *)
(* own: a request is two steps, and what it read may be outdated when it   *)
(* writes.  Only the version of a round, and of a rubric, is compared in   *)
(* the write.                                                              *)
(*                                                                         *)
(* Left out: the content of the cards and rounds beyond whether a round is *)
(* complete enough to be planned, rounds added to the two default ones, a  *)
(* status set by an update, who interviews, meetings and transcripts, and  *)
(* the stages other than rubric, plan, schedule and live.                  *)
(***************************************************************************)
EXTENDS Naturals, Sequences

CONSTANTS
  Planners,    \* the requests being served at a time
  Rounds,      \* the rounds the task may have
  MaxRubrics,  \* bound: versions of the rubric
  MaxEdits     \* bound: writes to a round

PlanAssumption == MaxRubrics \in Nat /\ MaxEdits \in Nat

VARIABLES
  rubrics,     \* RubricVersion: the status of each version of the job's rubric
  drafted,     \* whether a generated rubric waits to be stored
  planned,     \* whether the plan is confirmed (planConfirmedAt)
  rounds,      \* the InterviewRound rows
  reqs         \* where each request is

vars == <<rubrics, drafted, planned, rounds, reqs>>

Free == [op |-> "free"]

(* The default rounds exist from the start, with nothing filled in.        *)
Init ==
  /\ rubrics = <<"confirmed">>
  /\ drafted = FALSE
  /\ planned = FALSE
  /\ rounds = [r \in Rounds |-> [complete |-> FALSE, timed |-> FALSE, brief |-> 0,
                                 done |-> FALSE, version |-> 1]]
  /\ reqs = [p \in Planners |-> Free]

Ask(p, request) == reqs[p] = Free /\ reqs' = [reqs EXCEPT ![p] = request]

Answer(p) == reqs' = [reqs EXCEPT ![p] = Free]

(* The newest confirmed version, 0 for none.                               *)
Confirmed ==
  CHOOSE v \in 0..Len(rubrics) :
    /\ v = 0 \/ rubrics[v] = "confirmed"
    /\ \A w \in DOMAIN rubrics : rubrics[w] = "confirmed" => w <= v

Scheduled == \E r \in Rounds : rounds[r].timed \/ rounds[r].done

(* A job's rubric is locked once a plan is confirmed on it (isLocked).     *)
Locked == planned

-----------------------------------------------------------------------------
(* The rubric.                                                             *)

(* generate: an extraction is queued unless the rubric is locked; its      *)
(* result comes whenever it comes.                                         *)
Generate ==
  /\ ~Locked
  /\ ~drafted
  /\ drafted' = TRUE
  /\ UNCHANGED <<rubrics, planned, rounds, reqs>>

(* materializeIfReady: reading the rubric stores what was generated, as a  *)
(* draft on top of whatever there is.                                      *)
Materialize ==
  /\ drafted
  /\ Len(rubrics) < MaxRubrics
  /\ drafted' = FALSE
  /\ rubrics' = Append(rubrics, "draft")
  /\ UNCHANGED <<planned, rounds, reqs>>

(* newVersion: the lock and the latest version are read, *)
AskVersion(p) ==
  /\ rubrics[Len(rubrics)] = "confirmed"
  /\ ~Locked
  /\ Len(rubrics) < MaxRubrics
  /\ Ask(p, [op |-> "version", last |-> Len(rubrics)])
  /\ UNCHANGED <<rubrics, drafted, planned, rounds>>

(* and the next number is taken, unless somebody took it.                  *)
AddVersion(p) ==
  /\ reqs[p].op = "version"
  /\ rubrics' = IF Len(rubrics) = reqs[p].last THEN Append(rubrics, "draft") ELSE rubrics
  /\ Answer(p)
  /\ UNCHANGED <<drafted, planned, rounds>>

(* confirm: the latest version, if it is a draft, is confirmed, if it      *)
(* still is one.                                                           *)
AskConfirm(p) ==
  /\ rubrics[Len(rubrics)] = "draft"
  /\ Ask(p, [op |-> "rubric", draft |-> Len(rubrics)])
  /\ UNCHANGED <<rubrics, drafted, planned, rounds>>

ConfirmRubric(p) ==
  /\ reqs[p].op = "rubric"
  /\ rubrics' = [rubrics EXCEPT ![reqs[p].draft] = "confirmed"]
  /\ Answer(p)
  /\ UNCHANGED <<drafted, planned, rounds>>

-----------------------------------------------------------------------------
(* The plan.                                                               *)

(* confirmPlan reads the stages and the rounds: the plan can be confirmed  *)
(* when every round is complete, and undone while none is scheduled, *)
AskPlan(p, yes) ==
  /\ Confirmed # 0
  /\ IF yes THEN \A r \in Rounds : rounds[r].complete ELSE ~(planned /\ Scheduled)
  /\ Ask(p, [op |-> "plan", yes |-> yes])
  /\ UNCHANGED <<rubrics, drafted, planned, rounds>>

(* and writes whatever has happened to them since.                         *)
ConfirmPlan(p) ==
  /\ reqs[p].op = "plan"
  /\ planned' = reqs[p].yes
  /\ Answer(p)
  /\ UNCHANGED <<rubrics, drafted, rounds>>

-----------------------------------------------------------------------------
(* The rounds.  The request names the version of the round its sender saw; *)
(* the write takes place only on that version.                             *)

(* Mutant: a write by the round's id alone.                                *)
AnyVersion(r, version) == TRUE

SameVersion(r, version) == rounds[r].version = version

Write(p, r, round) ==
  /\ rounds' = IF SameVersion(r, reqs[p].version)
               THEN [rounds EXCEPT ![r] = [round EXCEPT !.version = rounds[r].version + 1]]
               ELSE rounds
  /\ Answer(p)
  /\ UNCHANGED <<rubrics, drafted, planned>>

(* update: only while the plan is not confirmed.                           *)
AskUpdate(p, r, complete) ==
  /\ ~planned
  /\ rounds[r].version < MaxEdits
  /\ Ask(p, [op |-> "update", round |-> r, version |-> rounds[r].version,
             complete |-> complete])
  /\ UNCHANGED <<rubrics, drafted, planned, rounds>>

UpdateRound(p) ==
  /\ reqs[p].op = "update"
  /\ LET r == reqs[p].round IN
       Write(p, r, [rounds[r] EXCEPT !.complete = reqs[p].complete])

(* schedule: only with a confirmed plan and rubric.  The first time a      *)
(* round is scheduled fixes the rubric version its brief is made from.     *)
AskSchedule(p, r) ==
  /\ planned
  /\ Confirmed # 0
  /\ rounds[r].version < MaxEdits
  /\ Ask(p, [op |-> "schedule", round |-> r, version |-> rounds[r].version,
             brief |-> IF rounds[r].brief # 0 THEN rounds[r].brief ELSE Confirmed])
  /\ UNCHANGED <<rubrics, drafted, planned, rounds>>

Schedule(p) ==
  /\ reqs[p].op = "schedule"
  /\ LET r == reqs[p].round IN
       Write(p, r, [rounds[r] EXCEPT !.timed = TRUE, !.brief = reqs[p].brief])

(* complete: once the task is scheduled; the round's version is neither    *)
(* compared nor raised.                                                    *)
AskComplete(p, r) ==
  /\ planned /\ Scheduled
  /\ Ask(p, [op |-> "complete", round |-> r])
  /\ UNCHANGED <<rubrics, drafted, planned, rounds>>

Complete(p) ==
  /\ reqs[p].op = "complete"
  /\ rounds' = [rounds EXCEPT ![reqs[p].round].done = TRUE]
  /\ Answer(p)
  /\ UNCHANGED <<rubrics, drafted, planned>>

Next ==
  \/ Generate \/ Materialize
  \/ \E p \in Planners :
       \/ AskVersion(p) \/ AddVersion(p)
       \/ AskConfirm(p) \/ ConfirmRubric(p)
       \/ \E yes \in BOOLEAN : AskPlan(p, yes)
       \/ ConfirmPlan(p)
       \/ \E r \in Rounds : \/ \E complete \in BOOLEAN : AskUpdate(p, r, complete)
                            \/ AskSchedule(p, r)
                            \/ AskComplete(p, r)
       \/ UpdateRound(p) \/ Schedule(p) \/ Complete(p)

Spec == Init /\ [][Next]_vars

-----------------------------------------------------------------------------
(* The state is well-typed. *)
TypeOK ==
  /\ rubrics \in Seq({"draft", "confirmed"}) /\ Len(rubrics) \in 1..MaxRubrics
  /\ drafted \in BOOLEAN /\ planned \in BOOLEAN
  /\ rounds \in [Rounds -> [complete : BOOLEAN, timed : BOOLEAN, brief : 0..MaxRubrics,
                            done : BOOLEAN, version : Nat]]

(* The rubric version a round was first briefed on is the one it keeps,    *)
(* and was confirmed: rescheduling it, also by two people at once and      *)
(* after a newer rubric was confirmed, does not move it to another.        *)
BriefIsKept ==
  [][\A r \in Rounds :
       /\ rounds[r].brief # 0 => rounds'[r].brief = rounds[r].brief
       /\ rounds'[r].brief # 0 => rubrics[rounds'[r].brief] = "confirmed"]_vars

(* Not so: confirming the plan freezes the plan's rounds.  An update that  *)
(* read the plan as open is written after it was confirmed.                *)
PlanFreezesRounds ==
  [][planned => \A r \in Rounds : rounds'[r].complete = rounds[r].complete]_vars

(* Not so: a confirmed rubric is frozen once a plan has been confirmed on  *)
(* it.  A draft made before that, or generated before it, is still         *)
(* confirmed afterwards: that operation does not look at the lock.         *)
RubricIsFrozen == [][planned /\ planned' => Confirmed' = Confirmed]_vars

(* Not so: the plan is undone only while no round is scheduled.            *)
ScheduledIsPlanned == (\E r \in Rounds : rounds[r].timed) => planned
=============================================================================
