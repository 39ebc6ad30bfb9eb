--------------------------- MODULE WrittenCaseProofs ---------------------------
(***************************************************************************)
(* Proofs about WrittenCase for any number of requests in flight, items    *)
(* and rounds.                                                             *)
(***************************************************************************)
EXTENDS WrittenCase, TLAPS

(***************************************************************************)
(* The strengthening. A request in flight carries what its writing step    *)
(* relies on; a case remembers a status exactly while it is on hold.       *)
(***************************************************************************)
GoodRequest(q) ==
    /\ q.op \in {"along", "alongHeld"} => q.next \in Events
    /\ q.op \in {"open", "submit", "finalize", "release"} => q.round \in Rounds
    /\ q.op = "release" => q.next \in Outcomes
    /\ q.op \in {"edit", "remove"} => q.item \in Items
    /\ q.op = "finalize" => invitation[q.round] = "submitted"
    /\ q.op = "submit" => invitation[q.round] # "none"

CallsOK == \A a \in Callers: GoodRequest(call[a])
HoldOK == before # "null" <=> status = "on_hold"
\* No invitation is ahead of the newest round.
NoneAhead == \A r \in Rounds: invitation[r] # "none" => r <= latest
Typed == TypeOK /\ CallsOK /\ HoldOK /\ NoneAhead

\* A round that was sent stays sent, and one that was answered stays answered.
InvitationsKept == \A r \in Rounds:
    /\ invitation[r] = "submitted" => invitation'[r] = "submitted"
    /\ invitation[r] # "none" => invitation'[r] # "none"

LEMMA AdvancesFrom ==
    /\ ADVANCES_FROM["invited"] = OpenStatuses
    /\ ADVANCES_FROM["awaiting_submission"] = {"invited"}
    /\ ADVANCES_FROM["review_pending"] = {"invited", "awaiting_submission"}
    /\ ADVANCES_FROM["finalized"] = {"review_pending"}
    /\ ADVANCES_FROM["released"] = {"finalized"}
BY DEF ADVANCES_FROM, Events

LEMMA AdvancesFromOpen == \A e \in Events: ADVANCES_FROM[e] \subseteq OpenStatuses
BY AdvancesFrom DEF Events, OpenStatuses

LEMMA EventsAreOpen == Events \subseteq OpenStatuses
BY DEF Events, OpenStatuses

\* What a progress event, whole or in part, may do to the case.
Moves(e) ==
    /\ \/ status' = status
       \/ status \in ADVANCES_FROM[e] /\ status' = e
    /\ \/ before' = before
       \/ HeldMayAdvance(e) /\ before' = e
    /\ UNCHANGED <<taskDone, closeDecision>>

\* Recording the handoff.
HandsOff ==
    /\ status = "released"
    /\ status' = "handed_off" /\ before' = "null" /\ taskDone' = TRUE
    /\ UNCHANGED <<closeDecision, interviewTask, rounds>>

\* Every step moves the case by an event, or holds, resumes, closes or hands it off.
CaseStep ==
    \/ \E e \in Events: Moves(e)
    \/ Hold
    \/ Resume
    \/ \E reason \in {"passed", "not_passed"}, e \in BOOLEAN: Close(reason, e)
    \/ HandsOff

LEMMA AdvanceMoves ==
    ASSUME NEW e \in Events, Advance(e), UNCHANGED <<taskDone, closeDecision>>
    PROVE  Moves(e)
BY DEF Advance, Moves

LEMMA StayMoves ==
    ASSUME UNCHANGED <<status, before, taskDone, closeDecision>>
    PROVE  \E e \in Events: Moves(e)
<1>1. "invited" \in Events BY DEF Events
<1> QED BY <1>1 DEF Moves

LEMMA CaseSteps == Typed /\ [Next]_vars => CaseStep
<1> SUFFICES ASSUME Typed, [Next]_vars PROVE CaseStep
    OBVIOUS
<1> USE StayMoves DEF CaseStep, case
<1>E. {"invited", "awaiting_submission", "review_pending", "finalized", "released"} \subseteq Events
    BY DEF Events
<1>1. CASE Lifecycle
    BY <1>1 DEF Lifecycle
<1>2. ASSUME NEW a \in Staff, Planning(a) PROVE CaseStep
  <2>1. CASE SendWrite(a)
    <3>1. CASE ~Ended /\ DraftSendable(call[a].flag)
        BY <2>1, <3>1, <1>E, AdvanceMoves DEF SendWrite
    <3>2. CASE ~(~Ended /\ DraftSendable(call[a].flag))
        BY <2>1, <3>2 DEF SendWrite
    <3> QED BY <3>1, <3>2
  <2>2. CASE ~SendWrite(a)
      BY <1>2, <2>2 DEF Planning, OpenDraftRead, OpenDraftWrite, DiscardRead, DiscardWrite, AddItemRead,
         AddItemWrite, ChangeItemRead, EditItemWrite, RemoveItemWrite, SendRead
  <2> QED BY <2>1, <2>2
<1>3. ASSUME NEW a \in Staff, Reviewing(a) PROVE CaseStep
  <2>1. CASE FinalizeWrite(a)
      BY <2>1, <1>E, AdvanceMoves DEF FinalizeWrite
  <2>2. CASE ReleaseWrite(a)
      BY <2>2, <1>E, AdvanceMoves DEF ReleaseWrite
  <2>3. CASE HandoffWrite(a)
      BY <2>3 DEF HandoffWrite, HandsOff
  <2>4. CASE ~(FinalizeWrite(a) \/ ReleaseWrite(a) \/ HandoffWrite(a))
      BY <1>3, <2>4 DEF Reviewing, FinalizeRead, ReleaseRead, HandoffRead, HandoffPost, HandoffFails
  <2> QED BY <2>1, <2>2, <2>3, <2>4
<1>4. ASSUME NEW a \in Visitors, Answering(a) PROVE CaseStep
  <2>1. CASE OpenWrite(a)
      BY <2>1, <1>E, AdvanceMoves DEF OpenWrite
  <2>2. CASE SubmitWrite(a)
      BY <2>2, <1>E, AdvanceMoves DEF SubmitWrite
  <2>3. CASE ~(OpenWrite(a) \/ SubmitWrite(a))
      BY <1>4, <2>3 DEF Answering, OpenRead, SubmitRead
  <2> QED BY <2>1, <2>2, <2>3
<1>5. ASSUME NEW a \in Callers, BringAlong(a) PROVE CaseStep
  <2>1. call[a].next \in Events
      BY <1>5 DEF BringAlong, Typed, CallsOK, GoodRequest
  <2> QED BY <1>5, <2>1 DEF BringAlong, Moves
<1>6. ASSUME NEW a \in Callers, BringAlongHeld(a) PROVE CaseStep
  <2>1. call[a].next \in Events
      BY <1>6 DEF BringAlongHeld, Typed, CallsOK, GoodRequest
  <2> QED BY <1>6, <2>1 DEF BringAlongHeld, Moves
<1>7. ASSUME NEW a \in Callers, Abandon(a) PROVE CaseStep
    BY <1>7 DEF Abandon
<1>9. CASE UNCHANGED vars
    BY <1>9 DEF vars
<1> QED BY <1>1, <1>2, <1>3, <1>4, <1>5, <1>6, <1>7, <1>9 DEF Next

-----------------------------------------------------------------------------
(* Types, and requests that keep what they rely on.                        *)

LEMMA TypedInit == Init => Typed
<1> SUFFICES ASSUME Init PROVE Typed
    OBVIOUS
<1>1. Idle \in Requests
    BY CaseAssumption DEF Idle, Request, Requests, Ops
<1>2. CallsOK
    BY DEF Init, CallsOK, GoodRequest, Idle, Request
<1>3. closeDecision \in Decided
    BY CaseAssumption DEF Init, Decided
<1>4. call \in [Callers -> Requests]
    BY <1>1 DEF Init
<1>5. latest \in 0..MaxRounds /\ sentIn \in [Items -> 0..MaxRounds]
    BY CaseAssumption DEF Init
<1>6. TypeOK
    BY <1>3, <1>4, <1>5, CaseAssumption DEF Init, TypeOK, OpenStatuses, Prompts
<1> QED BY <1>2, <1>6 DEF Typed, HoldOK, NoneAhead, Init

\* The status and the status to resume, from any step of the case.
LEMMA StatusStep ==
    ASSUME Typed, CaseStep
    PROVE  /\ status' \in OpenStatuses \cup TERMINAL_STATUSES \cup {"on_hold"}
           /\ before' \in OpenStatuses \cup {"null"}
           /\ HoldOK'
<1> USE AdvancesFromOpen, EventsAreOpen DEF Typed, TypeOK, HoldOK, TERMINAL_STATUSES
<1>O. "on_hold" \notin OpenStatuses /\ "null" \notin OpenStatuses
    BY DEF OpenStatuses
<1>1. CASE \E e \in Events: Moves(e)
    BY <1>O, <1>1 DEF Moves, HeldMayAdvance
<1>2. CASE Hold
    BY <1>O, <1>2 DEF Hold, Ended
<1>3. CASE Resume
    BY <1>O, <1>3 DEF Resume
<1>4. ASSUME NEW reason \in {"passed", "not_passed"}, NEW e \in BOOLEAN, Close(reason, e)
      PROVE  status' = "closed" /\ before' = "null"
    BY <1>4 DEF Close
<1>5. CASE HandsOff
    BY <1>O, <1>5 DEF HandsOff
<1> QED BY <1>1, <1>2, <1>3, <1>4, <1>5 DEF CaseStep

\* A step on one request: the others still carry what they rely on, as an
\* answered round stays answered.
LEMMA CallStep ==
    ASSUME Typed, NEW a \in Callers, NEW q \in Requests,
           call' = [call EXCEPT ![a] = q],
           GoodRequest(q)',
           InvitationsKept
    PROVE  call' \in [Callers -> Requests] /\ CallsOK'
<1>1. call' \in [Callers -> Requests]
    BY DEF Typed, TypeOK
<1>2. ASSUME NEW b \in Callers PROVE GoodRequest(call[b])'
  <2>1. CASE b = a
      BY <2>1 DEF Typed, TypeOK
  <2>2. CASE b # a
      BY <2>2 DEF Typed, TypeOK, CallsOK, GoodRequest, InvitationsKept
  <2> QED BY <2>1, <2>2
<1> QED BY <1>1, <1>2 DEF CallsOK

LEMMA FinishStep ==
    ASSUME Typed, NEW a \in Callers, Finish(a),
           InvitationsKept
    PROVE  call' \in [Callers -> Requests] /\ CallsOK'
<1>1. Idle \in Requests
    BY CaseAssumption DEF Idle, Request, Requests, Ops
<1>2. GoodRequest(Idle)'
    BY DEF GoodRequest, Idle, Request
<1> QED BY <1>1, <1>2, CallStep DEF Finish

LEMMA BeginStep ==
    ASSUME Typed, NEW a \in Callers, NEW op \in Ops, NEW r \in 0..MaxRounds,
           NEW i \in Items \cup {NoItem}, NEW flag \in BOOLEAN,
           NEW next \in Events \cup Outcomes \cup {"none"},
           call' = [call EXCEPT ![a] = Request(op, r, i, flag, next)],
           UNCHANGED invitation,
           op \in {"along", "alongHeld"} => next \in Events,
           op \in {"open", "submit", "finalize", "release"} => r \in Rounds,
           op = "release" => next \in Outcomes,
           op \in {"edit", "remove"} => i \in Items,
           op = "finalize" => invitation[r] = "submitted",
           op = "submit" => invitation[r] # "none"
    PROVE  call' \in [Callers -> Requests] /\ CallsOK'
<1>1. Request(op, r, i, flag, next) \in Requests
    BY DEF Request, Requests
<1>2. GoodRequest(Request(op, r, i, flag, next))'
    BY DEF GoodRequest, Request
<1>3. InvitationsKept
    BY DEF InvitationsKept
<1> QED BY <1>1, <1>2, <1>3, CallStep

LEMMA TypedStep == Typed /\ [Next]_vars => Typed'
<1> SUFFICES ASSUME Typed, [Next]_vars PROVE Typed'
    OBVIOUS
<1>S. /\ status' \in OpenStatuses \cup TERMINAL_STATUSES \cup {"on_hold"}
      /\ before' \in OpenStatuses \cup {"null"}
      /\ HoldOK'
    BY CaseSteps, StatusStep
<1> DEFINE Rest == /\ NoneAhead'
                   /\ call' \in [Callers -> Requests]
                   /\ CallsOK'
                   /\ draftOpen' \in BOOLEAN
                   /\ taskDone' \in BOOLEAN
                   /\ closeDecision' \in Decided
                   /\ latest' \in 0..MaxRounds
                   /\ invitation' \in [Rounds -> {"none", "sent", "opened", "submitted"}]
                   /\ finalized' \subseteq Rounds
                   /\ release' \in [Rounds -> Outcomes \cup {"none"}]
                   /\ created' \subseteq Items
                   /\ draft' \subseteq Items
                   /\ sentIn' \in [Items -> 0..MaxRounds]
                   /\ prompt' \in [Items -> Prompts]
                   /\ interviewTask' \in BOOLEAN
<1> SUFFICES Rest
    BY <1>S DEF Typed, TypeOK
<1> USE CaseAssumption DEF case, rounds, plan
<1>T. TypeOK /\ NoneAhead
    BY DEF Typed
<1>N. NoItem \in Items \cup {NoItem} /\ 0 \in 0..MaxRounds /\ "none" \in Events \cup Outcomes \cup {"none"}
    OBVIOUS
<1>R. Rounds \subseteq 0..MaxRounds
    BY DEF Rounds
<1>E. {"invited", "awaiting_submission", "review_pending", "finalized", "released"} \subseteq Events
    BY DEF Events
<1>U. ASSUME UNCHANGED call, UNCHANGED invitation PROVE call' \in [Callers -> Requests] /\ CallsOK'
    BY <1>U DEF Typed, TypeOK, CallsOK, GoodRequest
<1>1. CASE Lifecycle
  <2>1. ASSUME NEW reason \in {"passed", "not_passed"}, NEW e \in BOOLEAN, Close(reason, e)
        PROVE  Rest
    <3>1. OutcomeNow \in Outcomes \cup {"unknown"}
        BY <1>T DEF OutcomeNow, TypeOK, Rounds
    <3>2. closeDecision' \in Decided
        BY <2>1, <3>1, <1>T DEF Close, Decided, TypeOK
    <3> QED BY <2>1, <3>2, <1>T, <1>U DEF Close, TypeOK, NoneAhead
  <2>2. CASE Hold
      BY <2>2, <1>T, <1>U DEF Hold, TypeOK, NoneAhead
  <2>3. CASE Resume
      BY <2>3, <1>T, <1>U DEF Resume, TypeOK, NoneAhead
  <2> QED BY <1>1, <2>1, <2>2, <2>3 DEF Lifecycle
<1>2. ASSUME NEW a \in Staff, Planning(a) PROVE Rest
  <2>A. a \in Callers
      BY DEF Callers
  <2>1. CASE OpenDraftRead(a)
    <3>1. call' \in [Callers -> Requests] /\ CallsOK'
        BY <2>1, <2>A, <1>N, BeginStep DEF OpenDraftRead, Begin, Ops
    <3> QED BY <2>1, <3>1, <1>T DEF OpenDraftRead, TypeOK, NoneAhead
  <2>2. CASE OpenDraftWrite(a)
    <3>1. call' \in [Callers -> Requests] /\ CallsOK'
        BY <2>2, <2>A, FinishStep DEF InvitationsKept, OpenDraftWrite
    <3> QED BY <2>2, <3>1, <1>T DEF OpenDraftWrite, TypeOK, NoneAhead
  <2>3. CASE DiscardRead(a)
    <3>1. call' \in [Callers -> Requests] /\ CallsOK'
        BY <2>3, <2>A, <1>N, BeginStep DEF DiscardRead, Begin, Ops
    <3> QED BY <2>3, <3>1, <1>T DEF DiscardRead, TypeOK, NoneAhead
  <2>4. CASE DiscardWrite(a)
    <3>1. call' \in [Callers -> Requests] /\ CallsOK'
        BY <2>4, <2>A, FinishStep DEF InvitationsKept, DiscardWrite
    <3> QED BY <2>4, <3>1, <1>T DEF DiscardWrite, TypeOK, NoneAhead
  <2>5. CASE AddItemRead(a)
    <3>1. call' \in [Callers -> Requests] /\ CallsOK'
        BY <2>5, <2>A, <1>N, BeginStep DEF AddItemRead, Begin, Ops
    <3> QED BY <2>5, <3>1, <1>T DEF AddItemRead, TypeOK, NoneAhead
  <2>6. ASSUME NEW i \in Items, AddItemWrite(a, i) PROVE Rest
    <3>1. call' \in [Callers -> Requests] /\ CallsOK'
        BY <2>6, <2>A, FinishStep DEF InvitationsKept, AddItemWrite
    <3> QED BY <2>6, <3>1, <1>T DEF AddItemWrite, TypeOK, NoneAhead
  <2>7. ASSUME NEW i \in Items, NEW op \in {"edit", "remove"}, ChangeItemRead(a, op, i) PROVE Rest
    <3>1. call' \in [Callers -> Requests] /\ CallsOK'
        BY <2>7, <2>A, <1>N, BeginStep, ZenonT(60) DEF ChangeItemRead, Begin, Ops
    <3> QED BY <2>7, <3>1, <1>T DEF ChangeItemRead, TypeOK, NoneAhead
  <2>8. CASE EditItemWrite(a)
    <3>1. call' \in [Callers -> Requests] /\ CallsOK'
        BY <2>8, <2>A, FinishStep DEF InvitationsKept, EditItemWrite
    <3>2. prompt' \in [Items -> Prompts]
        BY <2>8, <1>T DEF EditItemWrite, TypeOK, NoneAhead, Prompts
    <3> QED BY <2>8, <3>1, <3>2, <1>T DEF EditItemWrite, TypeOK, NoneAhead
  <2>9. CASE RemoveItemWrite(a)
    <3>1. call' \in [Callers -> Requests] /\ CallsOK'
        BY <2>9, <2>A, FinishStep DEF InvitationsKept, RemoveItemWrite
    <3>2. draft' \subseteq Items /\ sentIn' \in [Items -> 0..MaxRounds]
        BY <2>9, <1>T, <1>N DEF RemoveItemWrite, TypeOK
    <3> QED BY <2>9, <3>1, <3>2, <1>T DEF RemoveItemWrite, TypeOK, NoneAhead
  <2>10. CASE SendRead(a)
    <3>1. call' \in [Callers -> Requests] /\ CallsOK'
        BY <2>10, <2>A, <1>N, <1>T, BeginStep, ZenonT(60) DEF SendRead, Begin, Ops, TypeOK
    <3> QED BY <2>10, <3>1, <1>T DEF SendRead, TypeOK, NoneAhead
  <2>11. CASE SendWrite(a)
    <3>1. latest + 1 \in Rounds
        BY <2>11, <1>T DEF SendWrite, TypeOK, Rounds
    <3>2. InvitationsKept
        BY <2>11, <3>1, <1>T DEF SendWrite, TypeOK, NoneAhead, InvitationsKept, Rounds
    <3>3. call' \in [Callers -> Requests] /\ CallsOK'
        BY <2>11, <2>A, <3>2, FinishStep DEF SendWrite
    <3>4. CASE ~Ended /\ DraftSendable(call[a].flag)
      <4>1. sentIn' \in [Items -> 0..MaxRounds] /\ latest' \in 0..MaxRounds
          BY <2>11, <3>1, <3>4, <1>T, <1>R DEF SendWrite, TypeOK
      <4>2. invitation' \in [Rounds -> {"none", "sent", "opened", "submitted"}] /\ NoneAhead'
          BY <2>11, <3>1, <3>4, <1>T, SMTT(30) DEF SendWrite, TypeOK, NoneAhead, Rounds
      <4> QED BY <2>11, <3>3, <3>4, <4>1, <4>2, <1>T DEF SendWrite, TypeOK
    <3>5. CASE ~(~Ended /\ DraftSendable(call[a].flag))
        BY <2>11, <3>3, <3>5, <1>T DEF SendWrite, TypeOK, NoneAhead
    <3> QED BY <3>4, <3>5
  <2> HIDE DEF Rest
  <2> QED BY <1>2, <2>1, <2>2, <2>3, <2>4, <2>5, <2>6, <2>7, <2>8, <2>9, <2>10, <2>11 DEF Planning
<1>3. ASSUME NEW a \in Staff, Reviewing(a) PROVE Rest
  <2>A. a \in Callers
      BY DEF Callers
  <2>1. ASSUME NEW r \in Rounds, FinalizeRead(a, r) PROVE Rest
    <3>1. CASE r \in finalized
      <4>1. call' = [call EXCEPT ![a] = Request("along", 0, NoItem, FALSE, "finalized")]
          BY <2>1, <3>1 DEF FinalizeRead, Begin
      <4>2. call' \in [Callers -> Requests] /\ CallsOK'
          BY <2>1, <4>1, <2>A, <1>N, <1>E, BeginStep DEF FinalizeRead, Ops
      <4> QED BY <2>1, <4>2, <1>T DEF FinalizeRead, TypeOK, NoneAhead
    <3>2. CASE r \notin finalized
      <4> DEFINE newest == r = latest
      <4>1. call' = [call EXCEPT ![a] = Request("finalize", r, NoItem, newest, "none")]
          BY <2>1, <3>2 DEF FinalizeRead, Begin
      <4>3. newest \in BOOLEAN
          OBVIOUS
      <4> HIDE DEF newest
      <4>2. call' \in [Callers -> Requests] /\ CallsOK'
          BY <2>1, <4>1, <4>3, <2>A, <1>N, <1>R, BeginStep DEF FinalizeRead, Ops
      <4> QED BY <2>1, <4>2, <1>T DEF FinalizeRead, TypeOK, NoneAhead
    <3> QED BY <3>1, <3>2
  <2>2. CASE FinalizeWrite(a)
    <3>1. call' \in [Callers -> Requests] /\ CallsOK'
        BY <2>2, <2>A, FinishStep DEF InvitationsKept, FinalizeWrite
    <3>2. call[a].round \in Rounds
        BY <2>2, <2>A DEF FinalizeWrite, Typed, CallsOK, GoodRequest
    <3> QED BY <2>2, <3>1, <3>2, <1>T DEF FinalizeWrite, TypeOK, NoneAhead
  <2>3. ASSUME NEW r \in Rounds, NEW o \in Outcomes, ReleaseRead(a, r, o) PROVE Rest
    <3>1. CASE r \in finalized /\ release[r] # "none"
      <4>1. call' = [call EXCEPT ![a] = Request("along", 0, NoItem, FALSE, "released")]
          BY <2>3, <3>1 DEF ReleaseRead, Begin
      <4>2. call' \in [Callers -> Requests] /\ CallsOK'
          BY <2>3, <4>1, <2>A, <1>N, <1>E, BeginStep DEF ReleaseRead, Ops
      <4> QED BY <2>3, <4>2, <1>T DEF ReleaseRead, TypeOK, NoneAhead
    <3>2. CASE ~(r \in finalized /\ release[r] # "none")
      <4> DEFINE newest == r = latest
      <4>1. call' = [call EXCEPT ![a] = Request("release", r, NoItem, newest, o)]
          BY <2>3, <3>2 DEF ReleaseRead, Begin
      <4>3. newest \in BOOLEAN
          OBVIOUS
      <4> HIDE DEF newest
      <4>2. call' \in [Callers -> Requests] /\ CallsOK'
          BY <2>3, <4>1, <4>3, <2>A, <1>N, <1>R, BeginStep DEF ReleaseRead, Ops
      <4> QED BY <2>3, <4>2, <1>T DEF ReleaseRead, TypeOK, NoneAhead
    <3> QED BY <3>1, <3>2
  <2>4. CASE ReleaseWrite(a)
    <3>1. call' \in [Callers -> Requests] /\ CallsOK'
        BY <2>4, <2>A, FinishStep DEF InvitationsKept, ReleaseWrite
    <3>2. call[a].round \in Rounds /\ call[a].next \in Outcomes
        BY <2>4, <2>A DEF ReleaseWrite, Typed, CallsOK, GoodRequest
    <3>3. release' \in [Rounds -> Outcomes \cup {"none"}]
        BY <2>4, <3>2, <1>T DEF ReleaseWrite, TypeOK
    <3> QED BY <2>4, <3>1, <3>3, <1>T DEF ReleaseWrite, TypeOK, NoneAhead
  <2>5. CASE HandoffRead(a)
    <3>1. call' \in [Callers -> Requests] /\ CallsOK'
        BY <2>5, <2>A, <1>N, BeginStep DEF HandoffRead, Begin, Ops
    <3> QED BY <2>5, <3>1, <1>T DEF HandoffRead, TypeOK, NoneAhead
  <2>6. CASE HandoffPost(a)
    <3>1. call' \in [Callers -> Requests] /\ CallsOK'
        BY <2>6, <2>A, <1>N, BeginStep DEF HandoffPost, Ops
    <3> QED BY <2>6, <3>1, <1>T DEF HandoffPost, TypeOK, NoneAhead
  <2>7. CASE HandoffFails(a)
    <3>1. call' \in [Callers -> Requests] /\ CallsOK'
        BY <2>7, <2>A, FinishStep DEF InvitationsKept, HandoffFails
    <3> QED BY <2>7, <3>1, <1>T DEF HandoffFails, TypeOK, NoneAhead
  <2>8. CASE HandoffWrite(a)
    <3>1. call' \in [Callers -> Requests] /\ CallsOK'
        BY <2>8, <2>A, FinishStep DEF InvitationsKept, HandoffWrite
    <3> QED BY <2>8, <3>1, <1>T DEF HandoffWrite, TypeOK, NoneAhead
  <2> HIDE DEF Rest
  <2> QED BY <1>3, <2>1, <2>2, <2>3, <2>4, <2>5, <2>6, <2>7, <2>8 DEF Reviewing
<1>4. ASSUME NEW a \in Visitors, Answering(a) PROVE Rest
  <2>A. a \in Callers
      BY DEF Callers
  <2>1. ASSUME NEW r \in Rounds, OpenRead(a, r) PROVE Rest
    <3>1. call' \in [Callers -> Requests] /\ CallsOK'
        BY <2>1, <2>A, <1>N, <1>R, BeginStep DEF OpenRead, Begin, Ops
    <3> QED BY <2>1, <3>1, <1>T DEF OpenRead, TypeOK, NoneAhead
  <2>2. CASE OpenWrite(a)
    <3>1. InvitationsKept
        BY <2>2, <1>T DEF OpenWrite, TypeOK, InvitationsKept
    <3>2. call' \in [Callers -> Requests] /\ CallsOK'
        BY <2>2, <2>A, <3>1, FinishStep DEF OpenWrite
    <3>3. invitation' \in [Rounds -> {"none", "sent", "opened", "submitted"}] /\ NoneAhead'
        BY <2>2, <1>T DEF OpenWrite, TypeOK, NoneAhead
    <3> QED BY <2>2, <3>2, <3>3, <1>T DEF OpenWrite, TypeOK
  <2>3. ASSUME NEW r \in Rounds, SubmitRead(a, r) PROVE Rest
    <3>1. CASE Submitted(r)
      <4>1. call' = [call EXCEPT ![a] = Request("along", 0, NoItem, FALSE, "review_pending")]
          BY <2>3, <3>1 DEF SubmitRead, Begin
      <4>2. call' \in [Callers -> Requests] /\ CallsOK'
          BY <2>3, <4>1, <2>A, <1>N, <1>E, BeginStep DEF SubmitRead, Ops
      <4> QED BY <2>3, <4>2, <1>T DEF SubmitRead, TypeOK, NoneAhead
    <3>2. CASE ~Submitted(r)
      <4>1. call' = [call EXCEPT ![a] = Request("submit", r, NoItem, FALSE, "none")]
          BY <2>3, <3>2 DEF SubmitRead, Begin
      <4>2. call' \in [Callers -> Requests] /\ CallsOK'
          BY <2>3, <4>1, <2>A, <1>N, <1>R, BeginStep DEF SubmitRead, Ops
      <4> QED BY <2>3, <4>2, <1>T DEF SubmitRead, TypeOK, NoneAhead
    <3> QED BY <3>1, <3>2
  <2>4. CASE SubmitWrite(a)
    <3>1. InvitationsKept
        BY <2>4, <1>T DEF SubmitWrite, TypeOK, InvitationsKept
    <3>2. call' \in [Callers -> Requests] /\ CallsOK'
        BY <2>4, <2>A, <3>1, FinishStep DEF SubmitWrite
    <3>3. call[a].round \in Rounds /\ invitation[call[a].round] # "none"
        BY <2>4, <2>A DEF SubmitWrite, Typed, CallsOK, GoodRequest
    <3>4. invitation' \in [Rounds -> {"none", "sent", "opened", "submitted"}] /\ NoneAhead'
        BY <2>4, <3>3, <1>T DEF SubmitWrite, TypeOK, NoneAhead
    <3> QED BY <2>4, <3>2, <3>4, <1>T DEF SubmitWrite, TypeOK
  <2> HIDE DEF Rest
  <2> QED BY <1>4, <2>1, <2>2, <2>3, <2>4 DEF Answering
<1>5. ASSUME NEW a \in Callers, BringAlong(a) PROVE Rest
  <2>1. call[a].next \in Events
      BY <1>5 DEF BringAlong, Typed, CallsOK, GoodRequest
  <2>2. CASE status \in ADVANCES_FROM[call[a].next]
    <3>1. call' \in [Callers -> Requests] /\ CallsOK'
        BY <1>5, <2>2, FinishStep DEF BringAlong, InvitationsKept
    <3> QED BY <1>5, <3>1, <1>T DEF BringAlong, TypeOK, NoneAhead
  <2>3. CASE status \notin ADVANCES_FROM[call[a].next]
    <3>1. call' = [call EXCEPT ![a] = Request("alongHeld", 0, NoItem, FALSE, call[a].next)]
        BY <1>5, <2>3 DEF BringAlong
    <3>2. call' \in [Callers -> Requests] /\ CallsOK'
        BY <1>5, <2>1, <3>1, <1>N, BeginStep, ZenonT(60) DEF BringAlong, Ops
    <3> QED BY <1>5, <3>2, <1>T DEF BringAlong, TypeOK, NoneAhead
  <2> QED BY <2>2, <2>3
<1>6. ASSUME NEW a \in Callers, BringAlongHeld(a) PROVE Rest
  <2>1. call' \in [Callers -> Requests] /\ CallsOK'
      BY <1>6, FinishStep DEF BringAlongHeld, InvitationsKept
  <2> QED BY <1>6, <2>1, <1>T DEF BringAlongHeld, TypeOK, NoneAhead
<1>7. ASSUME NEW a \in Callers, Abandon(a) PROVE Rest
  <2>1. call' \in [Callers -> Requests] /\ CallsOK'
      BY <1>7, FinishStep DEF Abandon, InvitationsKept
  <2> QED BY <1>7, <2>1, <1>T DEF Abandon, TypeOK, NoneAhead
<1>9. CASE UNCHANGED vars
    BY <1>9, <1>T, <1>U DEF vars, TypeOK, NoneAhead
<1> HIDE DEF Rest
<1> QED BY <1>1, <1>2, <1>3, <1>4, <1>5, <1>6, <1>7, <1>9 DEF Next

\* Every variable keeps its type, and a held case remembers a status it can
\* resume to, for any number of requests, items and rounds.
THEOREM TypeCorrect == Spec => []TypeOK
<1>1. Typed => TypeOK
    BY DEF Typed
<1> QED BY TypedInit, TypedStep, <1>1, PTL DEF Spec

LEMMA TypedAlways == Spec => []Typed
BY TypedInit, TypedStep, PTL DEF Spec

-----------------------------------------------------------------------------
(* The case follows its documented state machine.                          *)

LEMMA PipelineStep == Typed /\ CaseStep => [Pipeline!Next]_<<Effective, status = "on_hold">>
<1> SUFFICES ASSUME Typed, CaseStep PROVE [Pipeline!Next]_<<Effective, status = "on_hold">>
    OBVIOUS
<1> USE AdvancesFromOpen, EventsAreOpen DEF Typed, HoldOK, Effective
<1>O. /\ "on_hold" \notin OpenStatuses
      /\ "null" \notin OpenStatuses
      /\ \A s \in OpenStatuses: s \notin TERMINAL_STATUSES
    BY DEF OpenStatuses, TERMINAL_STATUSES
<1>1. ASSUME NEW e \in Events, Moves(e) PROVE [Pipeline!Next]_<<Effective, status = "on_hold">>
  <2>1. (status' = "on_hold") = (status = "on_hold")
      BY <1>O, <1>1 DEF Moves
  <2>2. Effective' = Effective \/ (Effective \in ADVANCES_FROM[e] /\ Effective' = e)
      BY <1>O, <1>1 DEF Moves, HeldMayAdvance
  <2>3. CASE Effective \in ADVANCES_FROM[e] /\ Effective' = e
    <3>1. CASE e = "invited"
      <4>1. Effective \notin {"handed_off", "closed"}
          BY <2>3, <1>O DEF TERMINAL_STATUSES
      <4>2. Pipeline!Invite
          BY <4>1, <3>1, <2>1, <2>3 DEF Pipeline!Invite, Pipeline!Ends
      <4> QED BY <4>2 DEF Pipeline!Next
    <3>2. CASE e # "invited"
      <4>1. <<Effective, Effective'>> \in Pipeline!Progress
          BY <2>3, <3>2, AdvancesFrom DEF Pipeline!Progress, Events
      <4>2. Pipeline!Advance
          BY <4>1, <2>1 DEF Pipeline!Advance
      <4> QED BY <4>2 DEF Pipeline!Next
    <3> QED BY <3>1, <3>2
  <2>4. CASE Effective' = Effective
      BY <2>1, <2>4
  <2> QED BY <2>2, <2>3, <2>4
<1>2. CASE Hold
  <2>1. Pipeline!Hold
      BY <1>2, <1>O DEF Hold, Ended, TERMINAL_STATUSES, Pipeline!Hold, Pipeline!Ends
  <2> QED BY <2>1 DEF Pipeline!Next
<1>3. CASE Resume
  <2>1. before \in OpenStatuses
      BY <1>3 DEF Resume, TypeOK
  <2>2. Pipeline!Resume
      BY <1>3, <1>O, <2>1 DEF Resume, Pipeline!Resume
  <2> QED BY <2>2 DEF Pipeline!Next
<1>4. ASSUME NEW reason \in {"passed", "not_passed"}, NEW e \in BOOLEAN, Close(reason, e)
      PROVE  [Pipeline!Next]_<<Effective, status = "on_hold">>
  <2>1. Effective \notin {"handed_off", "closed"}
      BY <1>4, <1>O DEF Close, Ended, TERMINAL_STATUSES, TypeOK
  <2>2. Pipeline!Close
      BY <1>4, <2>1 DEF Close, Pipeline!Close, Pipeline!Ends
  <2> QED BY <2>2 DEF Pipeline!Next
<1>5. CASE HandsOff
  <2>1. Pipeline!HandOff
      BY <1>5 DEF HandsOff, Pipeline!HandOff
  <2> QED BY <2>1 DEF Pipeline!Next
<1> QED BY <1>1, <1>2, <1>3, <1>4, <1>5 DEF CaseStep

\* Whatever requests race, the case moves as its documentation draws it: only
\* a new round takes it back, on hold it keeps moving, ended it stays.
THEOREM CaseImplementsPipeline == Spec => ImplementsPipeline
<1>1. Init => Pipeline!Init
    BY DEF Init, Pipeline!Init, Effective
<1>2. Typed /\ [Next]_vars => [Pipeline!Next]_<<Effective, status = "on_hold">>
    BY CaseSteps, PipelineStep
<1> QED BY <1>1, <1>2, TypedAlways, PTL DEF Spec, ImplementsPipeline, Pipeline!Spec

-----------------------------------------------------------------------------
(* The end of a case.                                                      *)

\* A case's task is completed exactly when the case has ended.
THEOREM TaskEndsWithCase == Spec => []TaskDoneWithCase
<1>1. Init => TaskDoneWithCase
    BY DEF Init, TaskDoneWithCase, Ended, TERMINAL_STATUSES
<1>2. Typed /\ CaseStep /\ TaskDoneWithCase => TaskDoneWithCase'
  <2> SUFFICES ASSUME Typed, CaseStep, TaskDoneWithCase PROVE TaskDoneWithCase'
      OBVIOUS
  <2> USE AdvancesFromOpen, EventsAreOpen DEF TaskDoneWithCase, Ended, TERMINAL_STATUSES
  <2>O. "handed_off" \notin OpenStatuses /\ "closed" \notin OpenStatuses
      BY DEF OpenStatuses
  <2>1. CASE \E e \in Events: Moves(e)
      BY <2>O, <2>1 DEF Moves
  <2>2. CASE Hold
      BY <2>2 DEF Hold
  <2>3. CASE Resume
      BY <2>O, <2>3 DEF Resume, Typed, TypeOK
  <2>4. ASSUME NEW reason \in {"passed", "not_passed"}, NEW e \in BOOLEAN, Close(reason, e)
        PROVE  TaskDoneWithCase'
      BY <2>4 DEF Close
  <2>5. CASE HandsOff
      BY <2>5 DEF HandsOff
  <2> QED BY <2>1, <2>2, <2>3, <2>4, <2>5 DEF CaseStep
<1> QED BY <1>1, <1>2, CaseSteps, TypedAlways, PTL DEF Spec

\* No step changes the status of an ended case.
LEMMA EndedStays == Typed /\ CaseStep /\ Ended => status' = status
<1> SUFFICES ASSUME Typed, CaseStep, Ended PROVE status' = status
    OBVIOUS
<1>O. "handed_off" \notin OpenStatuses /\ "closed" \notin OpenStatuses
    BY DEF OpenStatuses
<1> QED BY <1>O, AdvancesFromOpen DEF CaseStep, Moves, Hold, Resume, Close, HandsOff, Ended, TERMINAL_STATUSES

\* What a step does to the rounds: nothing, or one of the writes.
LEMMA RoundSteps == Typed /\ [Next]_vars =>
    \/ UNCHANGED <<latest, invitation, finalized, release>>
    \/ \E a \in Staff: SendWrite(a) \/ FinalizeWrite(a) \/ ReleaseWrite(a)
    \/ \E a \in Visitors: OpenWrite(a) \/ SubmitWrite(a)
<1> SUFFICES ASSUME [Next]_vars,
                    ~(\E a \in Staff: SendWrite(a) \/ FinalizeWrite(a) \/ ReleaseWrite(a)),
                    ~(\E a \in Visitors: OpenWrite(a) \/ SubmitWrite(a))
             PROVE  UNCHANGED <<latest, invitation, finalized, release>>
    OBVIOUS
<1> USE DEF rounds
<1>1. CASE Lifecycle
    BY <1>1 DEF Lifecycle, Hold, Resume, Close
<1>2. ASSUME NEW a \in Staff, Planning(a) PROVE UNCHANGED <<latest, invitation, finalized, release>>
    BY <1>2 DEF Planning, OpenDraftRead, OpenDraftWrite, DiscardRead, DiscardWrite, AddItemRead,
       AddItemWrite, ChangeItemRead, EditItemWrite, RemoveItemWrite, SendRead
<1>3. ASSUME NEW a \in Staff, Reviewing(a) PROVE UNCHANGED <<latest, invitation, finalized, release>>
    BY <1>3 DEF Reviewing, FinalizeRead, ReleaseRead, HandoffRead, HandoffPost, HandoffFails, HandoffWrite
<1>4. ASSUME NEW a \in Visitors, Answering(a) PROVE UNCHANGED <<latest, invitation, finalized, release>>
    BY <1>4 DEF Answering, OpenRead, SubmitRead
<1>5. ASSUME NEW a \in Callers, BringAlong(a) \/ BringAlongHeld(a) \/ Abandon(a)
      PROVE  UNCHANGED <<latest, invitation, finalized, release>>
    BY <1>5 DEF BringAlong, BringAlongHeld, Abandon
<1>7. CASE UNCHANGED vars
    BY <1>7 DEF vars
<1> QED BY <1>1, <1>2, <1>3, <1>4, <1>5, <1>7 DEF Next

LEMMA QuietStep == Typed /\ [Next]_vars =>
    (Ended => /\ status' = status
              /\ latest' = latest
              /\ \A r \in Rounds: invitation'[r] = "submitted" => invitation[r] = "submitted")
<1> SUFFICES ASSUME Typed, [Next]_vars, Ended
             PROVE  /\ latest' = latest
                    /\ \A r \in Rounds: invitation'[r] = "submitted" => invitation[r] = "submitted"
    BY CaseSteps, EndedStays
<1>1. CASE UNCHANGED <<latest, invitation, finalized, release>>
    BY <1>1
<1>2. ASSUME NEW a \in Staff, SendWrite(a) \/ FinalizeWrite(a) \/ ReleaseWrite(a)
      PROVE  UNCHANGED <<latest, invitation>>
    BY <1>2 DEF SendWrite, FinalizeWrite, ReleaseWrite, rounds
<1>3. ASSUME NEW a \in Visitors, OpenWrite(a) \/ SubmitWrite(a)
      PROVE  /\ latest' = latest
             /\ \A r \in Rounds: invitation'[r] = "submitted" => invitation[r] = "submitted"
    BY <1>3 DEF OpenWrite, SubmitWrite, Typed, TypeOK
<1> QED BY <1>1, <1>2, <1>3, RoundSteps

\* A case that ended takes no answers and sends no round, also when the
\* request had begun before.
THEOREM EndedCaseIsQuiet == Spec => EndedIsQuiet
BY QuietStep, TypedAlways, PTL DEF Spec, EndedIsQuiet

-----------------------------------------------------------------------------
(* The review of a round.                                                  *)

LEMMA KeptStep == Typed /\ [Next]_vars => \A r \in Rounds:
    /\ invitation[r] = "submitted" => invitation'[r] = "submitted"
    /\ r \in finalized => r \in finalized'
    /\ release[r] # "none" => release'[r] = release[r]
<1> SUFFICES ASSUME Typed, [Next]_vars, NEW r \in Rounds
             PROVE  /\ invitation[r] = "submitted" => invitation'[r] = "submitted"
                    /\ r \in finalized => r \in finalized'
                    /\ release[r] # "none" => release'[r] = release[r]
    OBVIOUS
<1> USE DEF Typed, TypeOK, rounds
<1>1. CASE UNCHANGED <<latest, invitation, finalized, release>>
    BY <1>1
<1>2. ASSUME NEW a \in Staff, SendWrite(a)
      PROVE  /\ invitation[r] = "submitted" => invitation'[r] = "submitted"
             /\ UNCHANGED <<finalized, release>>
  <2>1. invitation[r] = "submitted" => r # latest + 1
      BY DEF NoneAhead, Rounds
  <2> QED BY <1>2, <2>1 DEF SendWrite
<1>3. ASSUME NEW a \in Staff, FinalizeWrite(a)
      PROVE  finalized \subseteq finalized' /\ UNCHANGED <<invitation, release>>
    BY <1>3 DEF FinalizeWrite
<1>4. ASSUME NEW a \in Staff, ReleaseWrite(a)
      PROVE  /\ release[r] # "none" => release'[r] = release[r]
             /\ UNCHANGED <<invitation, finalized>>
    BY <1>4 DEF ReleaseWrite, Releasable
<1>5. ASSUME NEW a \in Visitors, OpenWrite(a) \/ SubmitWrite(a)
      PROVE  /\ invitation[r] = "submitted" => invitation'[r] = "submitted"
             /\ UNCHANGED <<finalized, release>>
    BY <1>5 DEF OpenWrite, SubmitWrite
<1> QED BY <1>1, <1>2, <1>3, <1>4, <1>5, RoundSteps

\* Answers, the first finalization and the first release are never undone.
THEOREM ReviewStays == Spec => ReviewIsKept
BY KeptStep, TypedAlways, PTL DEF Spec, ReviewIsKept

LEMMA OrderStep == Typed /\ ReviewOrder /\ [Next]_vars => ReviewOrder'
<1> SUFFICES ASSUME Typed, ReviewOrder, [Next]_vars, NEW r \in Rounds
             PROVE  /\ release'[r] # "none" => r \in finalized'
                    /\ r \in finalized' => invitation'[r] = "submitted"
    BY DEF ReviewOrder
<1>K. /\ invitation[r] = "submitted" => invitation'[r] = "submitted"
      /\ r \in finalized => r \in finalized'
    BY KeptStep
<1>O. /\ release[r] # "none" => r \in finalized
      /\ r \in finalized => invitation[r] = "submitted"
    BY DEF ReviewOrder
<1> USE DEF Typed, TypeOK, rounds
<1>1. CASE UNCHANGED <<finalized, release>>
    BY <1>1, <1>K, <1>O
<1>2. ASSUME NEW a \in Staff, FinalizeWrite(a)
      PROVE  /\ release' = release
             /\ r \in finalized' => invitation[r] = "submitted"
  <2>1. a \in Callers
      BY DEF Callers
  <2>2. invitation[call[a].round] = "submitted"
      BY <1>2, <2>1 DEF FinalizeWrite, CallsOK, GoodRequest
  <2> QED BY <1>2, <1>O, <2>2 DEF FinalizeWrite
<1>3. ASSUME NEW a \in Staff, ReleaseWrite(a)
      PROVE  finalized' = finalized /\ (release'[r] # "none" => r \in finalized)
    BY <1>3, <1>O DEF ReleaseWrite, Releasable
<1>4. ASSUME NEW a \in Staff, SendWrite(a) PROVE UNCHANGED <<finalized, release>>
    BY <1>4 DEF SendWrite
<1>5. ASSUME NEW a \in Visitors, OpenWrite(a) \/ SubmitWrite(a) PROVE UNCHANGED <<finalized, release>>
    BY <1>5 DEF OpenWrite, SubmitWrite
<1> QED BY <1>1, <1>2, <1>3, <1>4, <1>5, <1>K, <1>O, RoundSteps

\* Results are published after the scoring is final, and scorings are final
\* only for answers submitted, although both were checked before the lock.
THEOREM ReviewInOrder == Spec => []ReviewOrder
<1>1. Init => ReviewOrder
    BY DEF Init, ReviewOrder
<1> QED BY <1>1, OrderStep, TypedAlways, PTL DEF Spec

\* A decision is recorded only on a closed case.
DecidedWhenClosed == closeDecision.reason # "none" => status = "closed"

LEMMA MeritStep == Typed /\ DecidedWhenClosed /\ PassedOnMerit /\ [Next]_vars =>
    DecidedWhenClosed' /\ PassedOnMerit'
<1> SUFFICES ASSUME Typed, DecidedWhenClosed, PassedOnMerit, [Next]_vars
             PROVE  DecidedWhenClosed' /\ PassedOnMerit'
    OBVIOUS
<1>1. ASSUME NEW reason \in {"passed", "not_passed"}, NEW e \in BOOLEAN, Close(reason, e)
      PROVE  DecidedWhenClosed' /\ PassedOnMerit'
    BY <1>1 DEF Close, DecidedWhenClosed, PassedOnMerit, OutcomeNow, Typed, TypeOK, rounds
<1>2. CASE closeDecision' = closeDecision
  <2>1. CASE closeDecision.reason = "none"
      BY <1>2, <2>1 DEF DecidedWhenClosed, PassedOnMerit
  <2>2. CASE closeDecision.reason # "none"
    <3>1. Ended
        BY <2>2 DEF DecidedWhenClosed, Ended, TERMINAL_STATUSES
    <3>2. status' = status /\ latest' = latest
        BY <3>1, QuietStep
    <3>3. latest > 0 => latest \in Rounds
        BY DEF Typed, TypeOK, Rounds
    <3> QED BY <1>2, <3>2, <3>3, KeptStep DEF DecidedWhenClosed, PassedOnMerit
  <2> QED BY <2>1, <2>2
<1>3. (\E reason \in {"passed", "not_passed"}, e \in BOOLEAN: Close(reason, e))
      \/ closeDecision' = closeDecision
    BY CaseSteps DEF CaseStep, Moves, Hold, Resume, HandsOff
<1> QED BY <1>1, <1>2, <1>3

\* A candidate passed without an explanation has a newest round whose
\* published outcome is "met", when the case is closed and ever after.
THEOREM PassedMeansMet == Spec => []PassedOnMerit
<1>1. Init => DecidedWhenClosed /\ PassedOnMerit
    BY DEF Init, DecidedWhenClosed, PassedOnMerit
<1> QED BY <1>1, MeritStep, TypedAlways, PTL DEF Spec

-----------------------------------------------------------------------------
(* A case is as far along as its rounds are.                               *)

\* What the rounds must show for a case to have come to s.
Earned(s) ==
    /\ s \in {"review_pending", "finalized", "released", "handed_off"} =>
         \E r \in Rounds: invitation[r] = "submitted"
    /\ s \in {"finalized", "released", "handed_off"} => finalized # {}
    /\ s \in {"released", "handed_off"} => \E r \in Rounds: release[r] # "none"

\* A retry that brings the case along has seen the write it repeats, and a
\* handoff to be recorded has been made.
CallsEarned == \A a \in Callers:
    /\ call[a].op \in {"along", "alongHeld"} => Earned(call[a].next)
    /\ call[a].op = "record" => interviewTask

EarnedInv == Earned(Effective) /\ (status = "handed_off" => interviewTask) /\ CallsEarned

LEMMA EarnedStays == Typed /\ [Next]_vars => \A s: Earned(s) => Earned(s)'
<1> SUFFICES ASSUME Typed, [Next]_vars, NEW s, Earned(s) PROVE Earned(s)'
    OBVIOUS
<1>1. \A r \in Rounds: /\ invitation[r] = "submitted" => invitation'[r] = "submitted"
                       /\ r \in finalized => r \in finalized'
                       /\ release[r] # "none" => release'[r] = release[r]
    BY KeptStep
<1>2. finalized \subseteq Rounds
    BY DEF Typed, TypeOK
<1> QED BY <1>1, <1>2 DEF Earned

LEMMA MovesTo ==
    ASSUME Typed, NEW e \in Events, Moves(e)
    PROVE  (Effective' = Effective \/ Effective' = e) /\ (status' = "handed_off" => status = "handed_off")
<1>O. "on_hold" \notin OpenStatuses /\ "handed_off" \notin OpenStatuses
    BY DEF OpenStatuses
<1> QED BY <1>O, AdvancesFromOpen, EventsAreOpen DEF Typed, HoldOK, Effective, Moves, HeldMayAdvance

\* Requests: what a step begins is earned, and what goes on stays so.
LEMMA CallsEarnedStep ==
    ASSUME Typed, EarnedInv, [Next]_vars, NEW a \in Callers,
           \A b \in Callers: b # a => call'[b] = call[b],
           call'[a].op \in {"along", "alongHeld"} => Earned(call[a].next)',
           call'[a].op = "record" => interviewTask',
           interviewTask => interviewTask'
    PROVE  CallsEarned'
<1> DEFINE Good(q) == /\ q.op \in {"along", "alongHeld"} => Earned(q.next)
                      /\ q.op = "record" => interviewTask
<1>1. \A q: Good(q) => Good(q)'
    BY EarnedStays
<1>2. \A b \in Callers: b # a => Good(call[b])
    BY DEF EarnedInv, CallsEarned
<1>3. \A b \in Callers: b # a => Good(call[b])'
    BY <1>1, <1>2
<1> QED BY <1>3 DEF CallsEarned

\* The case: it stays where it was, moves to what is earned, ends, or is
\* handed off with its task.
LEMMA EarnedCaseStep ==
    ASSUME Typed, EarnedInv, [Next]_vars,
           \/ Effective' = Effective /\ (status' = "handed_off" => status = "handed_off")
           \/ \E e \in Events: Moves(e) /\ Earned(e)'
           \/ status' = "closed",
           interviewTask => interviewTask'
    PROVE  Earned(Effective)' /\ (status' = "handed_off" => interviewTask')
<1>1. \A s: Earned(s) => Earned(s)'
    BY EarnedStays
<1>2. CASE Effective' = Effective /\ (status' = "handed_off" => status = "handed_off")
    BY <1>1, <1>2 DEF EarnedInv
<1>3. ASSUME NEW e \in Events, Moves(e), Earned(e)'
      PROVE  Earned(Effective)' /\ (status' = "handed_off" => interviewTask')
    BY <1>1, <1>3, MovesTo DEF EarnedInv
<1>4. CASE status' = "closed"
    BY <1>4 DEF Earned, Effective
<1> QED BY <1>2, <1>3, <1>4

\* A step on the request of a that leaves the case where it is.
LEMMA StillEarned ==
    ASSUME Typed, EarnedInv, [Next]_vars, NEW a \in Callers,
           UNCHANGED <<status, before, interviewTask>>,
           \A b \in Callers: b # a => call'[b] = call[b],
           call'[a].op \in {"along", "alongHeld"} => Earned(call[a].next)',
           call'[a].op = "record" => interviewTask
    PROVE  EarnedInv'
BY CallsEarnedStep, EarnedCaseStep DEF Effective, EarnedInv

\* A request that finishes having brought the case as far as was earned.
LEMMA FinishEarned ==
    ASSUME Typed, EarnedInv, [Next]_vars, NEW a \in Callers, Finish(a),
           \/ UNCHANGED <<status, before>>
           \/ \E e \in Events: Moves(e) /\ Earned(e)',
           interviewTask => interviewTask'
    PROVE  EarnedInv'
<1>1. call'[a].op = "idle" /\ \A b \in Callers: b # a => call'[b] = call[b]
    BY DEF Finish, Idle, Request, Typed, TypeOK
<1>2. CallsEarned'
    BY <1>1, CallsEarnedStep
<1>3. Earned(Effective)' /\ (status' = "handed_off" => interviewTask')
    BY EarnedCaseStep DEF Effective
<1> QED BY <1>2, <1>3 DEF EarnedInv

\* A request that begins as none of those that rely on the status.
LEMMA BeginEarned ==
    ASSUME Typed, EarnedInv, [Next]_vars, NEW a \in Callers, NEW op, NEW r, NEW i, NEW flag, NEW next,
           Begin(a, op, r, i, flag, next), op # "record",
           op \in {"along", "alongHeld"} => Earned(next),
           UNCHANGED <<status, before, interviewTask>>
    PROVE  EarnedInv'
<1>1. call'[a] = Request(op, r, i, flag, next) /\ \A b \in Callers: b # a => call'[b] = call[b]
    BY DEF Begin, Typed, TypeOK
<1>2. call'[a].op = op /\ call'[a].next = next
    BY <1>1 DEF Request
<1>3. op \in {"along", "alongHeld"} => Earned(next)'
    BY EarnedStays
<1>4. op \in {"along", "alongHeld"} => Earned(call[a].next)'
    BY <1>2, <1>3 DEF Earned
<1> QED BY <1>1, <1>2, <1>4, StillEarned

LEMMA EarnedStep == Typed /\ ReviewOrder /\ EarnedInv /\ [Next]_vars => EarnedInv'
<1> SUFFICES ASSUME Typed, ReviewOrder, EarnedInv, [Next]_vars PROVE EarnedInv'
    OBVIOUS
<1> USE DEF case, rounds, plan
<1>A. Staff \subseteq Callers /\ Visitors \subseteq Callers
    BY DEF Callers
<1>E. {"invited", "awaiting_submission", "review_pending", "finalized", "released"} \subseteq Events
    BY DEF Events
<1>T. TypeOK /\ CallsOK
    BY DEF Typed
<1>K. \A s: Earned(s) => Earned(s)'
    BY EarnedStays
\* Steps of no request.
<1>1. ASSUME UNCHANGED <<call, interviewTask>>,
             \/ Effective' = Effective /\ (status' = "handed_off" => status = "handed_off")
             \/ status' = "closed"
      PROVE  EarnedInv'
  <2>1. CallsEarned'
      BY <1>1, <1>K DEF EarnedInv, CallsEarned
  <2> QED BY <1>1, <2>1, EarnedCaseStep DEF EarnedInv
<1>2. CASE Lifecycle
  <2>1. ASSUME NEW reason \in {"passed", "not_passed"}, NEW e \in BOOLEAN, Close(reason, e)
        PROVE  EarnedInv'
      BY <1>1, <2>1 DEF Close
  <2>2. CASE Hold
      BY <1>1, <2>2 DEF Hold, Effective
  <2>3. CASE Resume
      BY <1>1, <2>3 DEF Resume, Effective, Typed, TypeOK, HoldOK, OpenStatuses
  <2> QED BY <1>2, <2>1, <2>2, <2>3 DEF Lifecycle
<1>3. ASSUME NEW a \in Staff, Planning(a) PROVE EarnedInv'
  <2>1. CASE SendWrite(a)
    <3>1. Earned("invited")'
        BY DEF Earned
    <3>2. UNCHANGED <<status, before>> \/ Moves("invited")
        BY <2>1, <1>E, AdvanceMoves DEF SendWrite
    <3> QED BY <1>A, <1>E, <2>1, <3>1, <3>2, FinishEarned DEF SendWrite
  <2>2. CASE OpenDraftWrite(a) \/ DiscardWrite(a) \/ EditItemWrite(a) \/ RemoveItemWrite(a)
      BY <1>A, <2>2, FinishEarned DEF OpenDraftWrite, DiscardWrite, EditItemWrite, RemoveItemWrite
  <2>3. ASSUME NEW i \in Items, AddItemWrite(a, i) PROVE EarnedInv'
      BY <1>A, <2>3, FinishEarned DEF AddItemWrite
  <2>4. CASE OpenDraftRead(a)
      BY <1>A, <2>4, BeginEarned DEF OpenDraftRead
  <2>5. CASE DiscardRead(a)
      BY <1>A, <2>5, BeginEarned DEF DiscardRead
  <2>6. CASE AddItemRead(a)
      BY <1>A, <2>6, BeginEarned DEF AddItemRead
  <2>7. CASE SendRead(a)
      BY <1>A, <2>7, BeginEarned DEF SendRead
  <2>8. ASSUME NEW i \in Items, NEW op \in {"edit", "remove"}, ChangeItemRead(a, op, i) PROVE EarnedInv'
      BY <1>A, <2>8, BeginEarned DEF ChangeItemRead
  <2> QED BY <1>3, <2>1, <2>2, <2>3, <2>4, <2>5, <2>6, <2>7, <2>8 DEF Planning
<1>4. ASSUME NEW a \in Staff, Reviewing(a) PROVE EarnedInv'
  <2>A. a \in Callers
      BY <1>A
  <2>1. ASSUME NEW r \in Rounds, FinalizeRead(a, r) PROVE EarnedInv'
    <3>1. CASE r \in finalized
      <4>1. Earned("finalized")
          BY <2>1, <3>1 DEF FinalizeRead, Earned
      <4> QED BY <2>A, <2>1, <3>1, <4>1, BeginEarned DEF FinalizeRead
    <3>2. CASE r \notin finalized
        BY <2>A, <2>1, <3>2, BeginEarned DEF FinalizeRead
    <3> QED BY <3>1, <3>2
  <2>2. CASE FinalizeWrite(a)
    <3>1. call[a].round \in Rounds /\ invitation[call[a].round] = "submitted"
        BY <2>A, <2>2, <1>T DEF FinalizeWrite, CallsOK, GoodRequest
    <3>2. Earned("finalized")'
        BY <2>2, <3>1 DEF FinalizeWrite, Earned
    <3>3. UNCHANGED <<status, before>> \/ Moves("finalized")
        BY <2>2, <1>E, AdvanceMoves DEF FinalizeWrite
    <3> QED BY <1>E, <2>A, <2>2, <3>2, <3>3, FinishEarned DEF FinalizeWrite
  <2>3. ASSUME NEW r \in Rounds, NEW o \in Outcomes, ReleaseRead(a, r, o) PROVE EarnedInv'
    <3>1. CASE r \in finalized /\ release[r] # "none"
      <4>1. Earned("released")
          BY <2>3, <3>1 DEF ReleaseRead, Earned
      <4> QED BY <2>A, <2>3, <3>1, <4>1, BeginEarned DEF ReleaseRead
    <3>2. CASE ~(r \in finalized /\ release[r] # "none")
        BY <2>A, <2>3, <3>2, BeginEarned DEF ReleaseRead
    <3> QED BY <3>1, <3>2
  <2>4. CASE ReleaseWrite(a)
    <3>1. call[a].round \in Rounds /\ call[a].next \in Outcomes
        BY <2>A, <2>4, <1>T DEF ReleaseWrite, CallsOK, GoodRequest
    <3>2. CASE Releasable(call[a].round)
      <4>1. release'[call[a].round] # "none"
          BY <2>4, <3>1, <3>2, <1>T DEF ReleaseWrite, TypeOK, Outcomes
      <4>2. call[a].round \in finalized /\ invitation[call[a].round] = "submitted"
            /\ UNCHANGED <<finalized, invitation>>
          BY <2>4, <3>1, <3>2 DEF ReleaseWrite, Releasable, ReviewOrder
      <4>3. Earned("released")'
          BY <3>1, <4>1, <4>2 DEF Earned
      <4>4. UNCHANGED <<status, before>> \/ Moves("released")
          BY <2>4, <1>E, AdvanceMoves DEF ReleaseWrite
      <4> QED BY <1>E, <2>A, <2>4, <4>3, <4>4, FinishEarned DEF ReleaseWrite
    <3>3. CASE ~Releasable(call[a].round)
        BY <2>A, <2>4, <3>3, FinishEarned DEF ReleaseWrite
    <3> QED BY <3>2, <3>3
  <2>5. CASE HandoffRead(a)
      BY <2>A, <2>5, BeginEarned DEF HandoffRead
  <2>6. CASE HandoffPost(a)
    <3>1. call'[a].op = "record" /\ \A b \in Callers: b # a => call'[b] = call[b]
        BY <2>A, <2>6, <1>T DEF HandoffPost, Request, TypeOK
    <3>2. CallsEarned'
        BY <2>A, <2>6, <3>1, CallsEarnedStep DEF HandoffPost
    <3>3. Effective' = Effective /\ status' = status /\ interviewTask'
        BY <2>6 DEF HandoffPost, Effective
    <3> QED BY <3>2, <3>3, EarnedCaseStep DEF EarnedInv
  <2>7. CASE HandoffFails(a)
    <3>1. interviewTask => interviewTask'
        BY <2>7 DEF HandoffFails
    <3> QED BY <2>A, <2>7, <3>1, FinishEarned DEF HandoffFails
  <2>8. CASE HandoffWrite(a)
    <3>1. CASE status = "released"
      <4>1. interviewTask /\ interviewTask' = interviewTask
          BY <2>A, <2>8 DEF HandoffWrite, EarnedInv, CallsEarned
      <4>2. call'[a].op = "idle" /\ \A b \in Callers: b # a => call'[b] = call[b]
          BY <2>A, <2>8, <1>T DEF HandoffWrite, Finish, Idle, Request, TypeOK
      <4>3. CallsEarned'
          BY <2>A, <4>1, <4>2, CallsEarnedStep
      <4>4. Earned("released")'
          BY <3>1, <1>K DEF EarnedInv, Effective
      <4>5. Effective' = "handed_off"
          BY <2>8, <3>1 DEF HandoffWrite, Effective
      <4>6. Earned(Effective)'
          BY <4>4, <4>5 DEF Earned
      <4> QED BY <4>1, <4>3, <4>6 DEF EarnedInv
    <3>2. CASE status # "released"
        BY <2>A, <2>8, <3>2, FinishEarned DEF HandoffWrite
    <3> QED BY <3>1, <3>2
  <2> QED BY <1>4, <2>1, <2>2, <2>3, <2>4, <2>5, <2>6, <2>7, <2>8 DEF Reviewing
<1>5. ASSUME NEW a \in Visitors, Answering(a) PROVE EarnedInv'
  <2>A. a \in Callers
      BY <1>A
  <2>1. ASSUME NEW r \in Rounds, OpenRead(a, r) PROVE EarnedInv'
      BY <2>A, <2>1, BeginEarned DEF OpenRead
  <2>2. CASE OpenWrite(a)
    <3>1. Earned("awaiting_submission")'
        BY DEF Earned
    <3>2. UNCHANGED <<status, before>> \/ Moves("awaiting_submission")
        BY <2>2, <1>E, AdvanceMoves DEF OpenWrite
    <3> QED BY <1>E, <2>A, <2>2, <3>1, <3>2, FinishEarned DEF OpenWrite
  <2>3. ASSUME NEW r \in Rounds, SubmitRead(a, r) PROVE EarnedInv'
    <3>1. CASE Submitted(r)
      <4>1. Earned("review_pending")
          BY <3>1 DEF Submitted, Earned
      <4> QED BY <2>A, <2>3, <3>1, <4>1, BeginEarned DEF SubmitRead
    <3>2. CASE ~Submitted(r)
        BY <2>A, <2>3, <3>2, BeginEarned DEF SubmitRead
    <3> QED BY <3>1, <3>2
  <2>4. CASE SubmitWrite(a)
    <3>1. call[a].round \in Rounds
        BY <2>A, <2>4, <1>T DEF SubmitWrite, CallsOK, GoodRequest
    <3>2. CASE ~Ended /\ invitation[call[a].round] # "submitted"
      <4>1. invitation'[call[a].round] = "submitted"
          BY <2>4, <3>1, <3>2, <1>T DEF SubmitWrite, TypeOK
      <4>2. Earned("review_pending")'
          BY <3>1, <4>1 DEF Earned
      <4>3. UNCHANGED <<status, before>> \/ Moves("review_pending")
          BY <2>4, <1>E, AdvanceMoves DEF SubmitWrite
      <4> QED BY <1>E, <2>A, <2>4, <4>2, <4>3, FinishEarned DEF SubmitWrite
    <3>3. CASE ~(~Ended /\ invitation[call[a].round] # "submitted")
        BY <2>A, <2>4, <3>3, FinishEarned DEF SubmitWrite
    <3> QED BY <3>2, <3>3
  <2> QED BY <1>5, <2>1, <2>2, <2>3, <2>4 DEF Answering
<1>6. ASSUME NEW a \in Callers, BringAlong(a) PROVE EarnedInv'
  <2>1. call[a].next \in Events /\ Earned(call[a].next)
      BY <1>6, <1>T DEF BringAlong, CallsOK, GoodRequest, EarnedInv, CallsEarned
  <2>2. PICK e \in Events: e = call[a].next /\ Earned(e)'
      BY <2>1, <1>K
  <2>3. CASE status \in ADVANCES_FROM[e]
    <3>1. Moves(e)
        BY <1>6, <2>2, <2>3 DEF BringAlong, Moves
    <3> QED BY <1>6, <2>2, <2>3, <3>1, FinishEarned DEF BringAlong
  <2>4. CASE status \notin ADVANCES_FROM[e]
    <3>1. call'[a] = Request("alongHeld", 0, NoItem, FALSE, e) /\ \A b \in Callers: b # a => call'[b] = call[b]
        BY <1>6, <2>2, <2>4, <1>T DEF BringAlong, TypeOK
    <3>2. call'[a].op = "alongHeld" /\ call'[a].next = e
        BY <3>1 DEF Request
    <3>3. Earned(call[a].next)'
        BY <2>2, <3>2 DEF Earned
    <3> QED BY <1>6, <2>2, <2>4, <3>1, <3>2, <3>3, StillEarned DEF BringAlong
  <2> QED BY <2>3, <2>4
<1>7. ASSUME NEW a \in Callers, BringAlongHeld(a) PROVE EarnedInv'
  <2>1. call[a].next \in Events /\ Earned(call[a].next)
      BY <1>7, <1>T DEF BringAlongHeld, CallsOK, GoodRequest, EarnedInv, CallsEarned
  <2>2. PICK e \in Events: e = call[a].next /\ Earned(e)'
      BY <2>1, <1>K
  <2>3. Moves(e)
      BY <1>7, <2>2 DEF BringAlongHeld, Moves
  <2> QED BY <1>7, <2>2, <2>3, FinishEarned DEF BringAlongHeld
<1>8. ASSUME NEW a \in Callers, Abandon(a) PROVE EarnedInv'
    BY <1>8, FinishEarned DEF Abandon
<1>9. CASE UNCHANGED vars
    BY <1>1, <1>9 DEF vars, Effective
<1> QED BY <1>2, <1>3, <1>4, <1>5, <1>6, <1>7, <1>8, <1>9 DEF Next

\* The case awaits review, is finalized, released or handed off only when its
\* rounds and Interview say so, retries and races of old requests included.
THEOREM CaseEarnsItsStatus == Spec => []StatusIsEarned
<1>1. Init => EarnedInv
    BY DEF Init, EarnedInv, Effective, Earned, CallsEarned, Idle, Request
<1>2. EarnedInv => StatusIsEarned
    BY DEF EarnedInv, Earned, StatusIsEarned
<1> QED BY <1>1, <1>2, EarnedStep, ReviewInOrder, TypedAlways, PTL DEF Spec
=============================================================================
