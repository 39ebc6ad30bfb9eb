------------------------------- MODULE Interview -------------------------------
(***************************************************************************)
(* What Interview does with a task: the package and its offer; the queue   *)
(* of extractions; the rubric, plan and rounds; the Zoom meetings of the   *)
(* host account; the stream of a round.  These parts share no state, so a  *)
(* behaviour is of one of them.                                            *)
(***************************************************************************)
EXTENDS InterviewPackage, TLC

CONSTANTS
  ParseJobs, Workers, MaxClaims, MaxRetries,                     \* of ParseQueue
  Planners, Rounds, MaxRubrics, MaxEdits,                        \* of InterviewPlan
  Keys, NoKey, Modes, MaxMeetings, MaxCrashes, MaxConsents,      \* of HostMeetings
  Hosts, Hooks, MaxRequests, MaxStreamFaults                     \* of Streams

VARIABLES
  part,      \* the part this behaviour is of
  parse, polls, results,
  rubrics, drafted, planned, rounds, reqs,
  mode, file, lapsed, lock, hosting, asked, told, doubt, faults,
  status, requested, generation, attempts, streaming, handling, streamFaults

Q == INSTANCE ParseQueue
P == INSTANCE InterviewPlan
H == INSTANCE HostMeetings WITH calls <- hosting
S == INSTANCE Streams WITH accepted <- streaming

ASSUME PackageAssumption
ASSUME Q!QueueAssumption
ASSUME P!PlanAssumption
ASSUME H!MeetingsAssumption
ASSUME S!StreamsAssumption

queuevars == <<parse, polls, results>>
planvars == <<rubrics, drafted, planned, rounds, reqs>>
meetingvars == <<mode, file, lapsed, lock, hosting, asked, told, doubt, faults>>
streamvars == <<status, requested, generation, attempts, streaming, handling, streamFaults>>
parts == <<part, vars, queuevars, planvars, meetingvars, streamvars>>

InterviewInit ==
    /\ Init /\ Q!Init /\ P!Init /\ H!Init /\ S!Init
    /\ part \in {"package", "queue", "plan", "meetings", "stream"}
    /\ part # "meetings" => mode = "s2s"

InterviewNext ==
    /\ UNCHANGED part
    /\ \/ part = "package" /\ Next /\ UNCHANGED <<queuevars, planvars, meetingvars, streamvars>>
       \/ part = "queue" /\ Q!Next /\ UNCHANGED <<vars, planvars, meetingvars, streamvars>>
       \/ part = "plan" /\ P!Next /\ UNCHANGED <<vars, queuevars, meetingvars, streamvars>>
       \/ part = "meetings" /\ H!Next /\ UNCHANGED <<vars, queuevars, planvars, streamvars>>
       \/ part = "stream" /\ S!Next /\ UNCHANGED <<vars, queuevars, planvars, meetingvars>>

InterviewSpec == InterviewInit /\ [][InterviewNext]_parts

\* ParseQueue: a job has one result, and keeps it.
OneResultPerJob == Q!OneResultPerJob

\* InterviewPlan: a round keeps the rubric version it was first briefed on.
BriefIsKept == P!BriefIsKept

\* HostMeetings: a key has one meeting until it is ended or reset.
SameMeeting == H!SameMeeting

\* Streams: a meeting marked as asked for is being asked for, or was accepted.
MarkerIsServed == S!MarkerIsServed

\* Whoever acts is interchangeable, as long as the sets of actors are the same.
Symmetry == Permutations(Callers)
=============================================================================
