------------------------------- MODULE Streams -------------------------------
(***************************************************************************)
(* The live transcript of an interview round (RtmsService): when its       *)
(* meeting starts, Interview asks Zoom to stream it, up to three times;    *)
(* Zoom answers a request it accepts with meeting.rtms_started, on which   *)
(* Interview joins the stream.  A request is made on meeting.started, and  *)
(* again, in place of the first, once the host has joined (startRound).    *)
(* Which meetings were asked for is only in memory.                        *)
(*                                                                         *)
(* One round and its meeting, in one process.  Webhooks may come at any    *)
(* time, again, late or in any order.  What comes once a stream is there   *)
(* is any write of the round's status at any time: the client's join, its  *)
(* callbacks, whose writes nobody awaits, and rtms_stopped.  The lines of  *)
(* the transcript, the look-up of the meeting by its uuid and the change   *)
(* of the round's link are left out.                                       *)
(***************************************************************************)
EXTENDS Naturals

CONSTANTS
  Hosts,         \* startRound requests being handled
  Hooks,         \* meeting.started webhooks being handled
  MaxRequests,   \* bound: stream requests
  MaxStreamFaults    \* bound: ends of the process and failed writes

StreamsAssumption == MaxRequests \in Nat /\ MaxStreamFaults \in Nat

VARIABLES
  status,        \* the round's transcriptStatus
  requested,     \* whether startRequested has the meeting
  generation,    \* startGeneration of the meeting
  attempts,      \* the retry loops, by their generation
  accepted,      \* history: Zoom accepted a request of this generation
  handling,      \* where each startRound or webhook is
  streamFaults   \* ends of the process and failed writes so far

vars == <<status, requested, generation, attempts, accepted, handling, streamFaults>>

Loops == 1..MaxRequests
Handlers == Hosts \cup Hooks
NotRun == [at |-> "none", try |-> 0]

Init ==
  /\ status = "idle"
  /\ requested = FALSE
  /\ generation = 0
  /\ attempts = [g \in Loops |-> NotRun]
  /\ accepted = 0
  /\ handling = [h \in Handlers |-> "idle"]
  /\ streamFaults = 0

-----------------------------------------------------------------------------
(* requestStream begins: it takes the marker and the next generation; what *)
(* is not forced leaves a meeting that was asked for alone.                *)
Request(force) ==
  IF requested /\ ~force
  THEN UNCHANGED <<requested, generation, attempts>>
  ELSE /\ generation < MaxRequests
       /\ requested' = TRUE
       /\ generation' = generation + 1
       /\ attempts' = [attempts EXCEPT ![generation + 1] = [at |-> "try", try |-> 1]]

Superseded(g) == g # generation
Goes(g, at) == attempts' = [attempts EXCEPT ![g].at = at]
Ends(g) == attempts' = [attempts EXCEPT ![g] = NotRun]

(* A later try, or none.                                                   *)
TriesAgain(g) ==
  IF attempts[g].try < 3
  THEN attempts' = [attempts EXCEPT ![g] = [at |-> "try", try |-> @.try + 1]]
  ELSE Goes(g, "over")

(* One try: Zoom is asked, unless a newer request has taken over.          *)
Try(g) ==
  /\ attempts[g].at = "try"
  /\ IF Superseded(g) THEN Ends(g) ELSE Goes(g, "asking")
  /\ UNCHANGED <<status, requested, generation, accepted, handling, streamFaults>>

(* There is no account to ask with.                                        *)
NoAccount(g) ==
  /\ attempts[g].at = "asking"
  /\ Goes(g, "over")
  /\ UNCHANGED <<status, requested, generation, accepted, handling, streamFaults>>

(* Zoom accepts.                                                           *)
Accept(g) ==
  /\ attempts[g].at = "asking"
  /\ accepted' = IF Superseded(g) THEN accepted ELSE g
  /\ Ends(g)
  /\ UNCHANGED <<status, requested, generation, handling, streamFaults>>

(* Zoom rejects, for now or for good.                                      *)
Reject(g, forGood) ==
  /\ attempts[g].at = "asking"
  /\ CASE Superseded(g) -> Ends(g)
       [] ~Superseded(g) /\ forGood -> Goes(g, "mark")
       [] OTHER -> TriesAgain(g)
  /\ UNCHANGED <<status, requested, generation, accepted, handling, streamFaults>>

(* The app has no client id, found without a look at the generation; or    *)
(* the request itself fails.                                               *)
NotSent(g, noClient) ==
  /\ attempts[g].at = "asking"
  /\ IF noClient THEN Goes(g, "mark") ELSE TriesAgain(g)
  /\ UNCHANGED <<status, requested, generation, accepted, handling, streamFaults>>

(* A write of the round's status, which may fail.                          *)
Writes(to) ==
  \/ status' = to /\ UNCHANGED streamFaults
  \/ streamFaults < MaxStreamFaults /\ streamFaults' = streamFaults + 1 /\ UNCHANGED status

(* markStreamError, inside the loop.                                       *)
MarkError(g) ==
  /\ attempts[g].at = "mark"
  /\ Writes("error")
  /\ Goes(g, "over")
  /\ UNCHANGED <<requested, generation, accepted, handling>>

(* Mutant: the marker stays when nothing worked.                           *)
GiveUpKeepsMarker(g) ==
  /\ attempts[g].at = "over"
  /\ IF Superseded(g) THEN Ends(g) ELSE Goes(g, "look")
  /\ UNCHANGED <<status, requested, generation, accepted, handling, streamFaults>>

(* Nothing worked: the marker goes, ...                                    *)
GiveUp(g) ==
  /\ attempts[g].at = "over"
  /\ IF Superseded(g)
     THEN Ends(g) /\ UNCHANGED requested
     ELSE Goes(g, "look") /\ requested' = FALSE
  /\ UNCHANGED <<status, generation, accepted, handling, streamFaults>>

(* ... and a round that still waits is looked up and marked.               *)
LookUp(g) ==
  /\ attempts[g].at = "look"
  /\ IF status \in {"idle", "connecting"} THEN Goes(g, "fail") ELSE Ends(g)
  /\ UNCHANGED <<status, requested, generation, accepted, handling, streamFaults>>

MarkFailed(g) ==
  /\ attempts[g].at = "fail"
  /\ Writes("error")
  /\ Ends(g)
  /\ UNCHANGED <<requested, generation, accepted, handling>>

-----------------------------------------------------------------------------
(* startRound: the host has joined; a round that is live or connecting is  *)
(* left alone, ...                                                         *)
HostJoins(h) ==
  /\ handling[h] = "idle"
  /\ status \notin {"live", "connecting"}
  /\ handling' = [handling EXCEPT ![h] = "connect"]
  /\ UNCHANGED <<status, requested, generation, attempts, accepted, streamFaults>>

(* ... and any other connects; the request fails if this write does, ...   *)
HostConnects(h) ==
  /\ handling[h] = "connect"
  /\ Writes("connecting")
  /\ handling' = [handling EXCEPT ![h] = IF streamFaults' = streamFaults THEN "force" ELSE "idle"]
  /\ UNCHANGED <<requested, generation, attempts, accepted>>

(* ... after which the stream is asked for, in place of earlier loops.     *)
HostRequests(h) ==
  /\ handling[h] = "force"
  /\ Request(TRUE)
  /\ handling' = [handling EXCEPT ![h] = "idle"]
  /\ UNCHANGED <<status, accepted, streamFaults>>

(* meeting.started: an idle round is asked for, a failed one is idle again.*)
Started(h) ==
  /\ handling[h] = "idle"
  /\ status \in {"idle", "error"}
  /\ handling' = [handling EXCEPT ![h] = IF status = "error" THEN "clear" ELSE "request"]
  /\ UNCHANGED <<status, requested, generation, attempts, accepted, streamFaults>>

StartedClears(h) ==
  /\ handling[h] = "clear"
  /\ Writes("idle")
  /\ handling' = [handling EXCEPT ![h] = "request"]
  /\ UNCHANGED <<requested, generation, attempts, accepted>>

StartedRequests(h) ==
  /\ handling[h] = "request"
  /\ Request(FALSE)
  /\ handling' = [handling EXCEPT ![h] = "idle"]
  /\ UNCHANGED <<status, accepted, streamFaults>>

(* meeting.ended and rtms_stopped drop the marker.                         *)
Ended ==
  /\ requested
  /\ requested' = FALSE
  /\ UNCHANGED <<status, generation, attempts, accepted, handling, streamFaults>>

(* The handlers of rtms_started and rtms_stopped and the client's          *)
(* callbacks write the status; Zoom may also stream without being asked.   *)
StreamWrites(to) ==
  /\ status' = to /\ status # to
  /\ UNCHANGED <<requested, generation, attempts, accepted, handling, streamFaults>>

(* The process stops; what it had in memory is gone.                       *)
Crash ==
  /\ streamFaults < MaxStreamFaults
  /\ streamFaults' = streamFaults + 1
  /\ generation > 0
  /\ requested' = FALSE
  /\ generation' = 0
  /\ attempts' = [g \in Loops |-> NotRun]
  /\ accepted' = 0
  /\ handling' = [h \in Handlers |-> "idle"]
  /\ UNCHANGED status

Next ==
  \/ \E g \in Loops:
       \/ Try(g) \/ NoAccount(g) \/ Accept(g)
       \/ \E forGood \in BOOLEAN: Reject(g, forGood)
       \/ \E noClient \in BOOLEAN: NotSent(g, noClient)
       \/ MarkError(g) \/ GiveUp(g) \/ LookUp(g) \/ MarkFailed(g)
  \/ \E h \in Hosts: HostJoins(h) \/ HostConnects(h) \/ HostRequests(h)
  \/ \E h \in Hooks: Started(h) \/ StartedClears(h) \/ StartedRequests(h)
  \/ Ended
  \/ \E to \in {"connecting", "live", "error", "ended"}: StreamWrites(to)
  \/ Crash

Spec == Init /\ [][Next]_vars
-----------------------------------------------------------------------------
TypeOK ==
  /\ status \in {"idle", "connecting", "live", "error", "ended"}
  /\ requested \in BOOLEAN
  /\ generation \in 0..MaxRequests
  /\ attempts \in [Loops -> [at: {"none", "try", "asking", "mark", "over", "look", "fail"}, try: 0..3]]
  /\ accepted \in 0..MaxRequests
  /\ handling \in [Handlers -> {"idle", "connect", "force", "clear", "request"}]
  /\ streamFaults \in 0..MaxStreamFaults

(* "Drop the marker so a later meeting.started for this same meeting can   *)
(* try again, instead of the meeting staying unstreamable": the marker is  *)
(* only there while the newest request is being tried or after Zoom has    *)
(* accepted it, whatever overtook what.                                    *)
MarkerIsServed ==
  requested => attempts[generation].at \in {"try", "asking", "mark", "over"} \/ accepted = generation

(* "A superseded attempt can't mark the round failed".  It can: the newer  *)
(* request may begin while the older one, past its last look at the        *)
(* generation, is writing or reading the round.                            *)
SupersededIsQuiet ==
  [][\A g \in Loops: Superseded(g) /\ (MarkError(g) \/ MarkFailed(g)) => status' = status]_vars

(* A round that shows as connecting has a request under way or accepted.   *)
(* It need not: when the process stops, or the write of the error fails,   *)
(* the round goes on connecting, and startRound and meeting.started both   *)
(* leave a connecting round alone.                                         *)
ConnectingIsServed ==
  status = "connecting" =>
    \/ \E g \in Loops: attempts[g].at # "none"
    \/ accepted # 0
    \/ \E h \in Hosts: handling[h] = "force"
=============================================================================
