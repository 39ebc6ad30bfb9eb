--------------------------- MODULE CoreRecordProofs ---------------------------
(***************************************************************************)
(* Proofs about CoreRecord for any jobs, candidates, requests and any      *)
(* number of handlers.                                                     *)
(***************************************************************************)
EXTENDS CoreData, SequenceTheorems, TLAPS

(***************************************************************************)
(* The strengthening.  What a handler read is a version there was, and     *)
(* where it is still the current one, the status it read is too; the       *)
(* candidate of an application that was let through is there.              *)
(***************************************************************************)
Reads(s) ==
    pc[s] # "idle" /\ req[s].op \in {"patch", "delete"} =>
        /\ saw[s].version \in 1..version[req[s].rec]
        /\ saw[s].version = version[req[s].rec] /\ Live(req[s].rec) =>
               saw[s].status = status[req[s].rec]
LetThrough(s) ==
    pc[s] = "open" /\ req[s].op = "create" /\ req[s].rec \in Applications =>
        Live(CandidateOf(req[s].rec))
ReadsOK == \A s \in Sessions: Reads(s) /\ LetThrough(s)

NothingBeforeCreation == \A x \in Records: status[x] = "none" => history[x] = <<>>
CandidatesStay == \A c \in Candidates: status[c] # "deleted"
Base == TypeOK /\ ReadsOK /\ CandidatesStay

-----------------------------------------------------------------------------
(* What a step may do to the rows.                                         *)

Stays == UNCHANGED rows
Opens(x, to, entry) ==
    /\ status[x] = "none"
    /\ x \in Applications => Live(JobOf(x)) /\ Live(CandidateOf(x))
    /\ entry \in {<<>>, <<<<"none", to>>>>}
    /\ Write(x, to, 1, entry)
Changes(x, to) ==
    /\ Live(x)
    /\ Write(x, to, version[x] + 1, IF to = status[x] THEN <<>> ELSE <<<<status[x], to>>>>)
Removes(j) ==
    /\ Deletable(j)
    /\ status' = [status EXCEPT ![j] = "deleted"]
    /\ history' = [history EXCEPT ![j] = <<>>]
    /\ \E v \in Nat: events' = [events EXCEPT ![j] = Append(events[j], v)]
    /\ UNCHANGED version
RowStep ==
    \/ Stays
    \/ \E x \in Records, to \in Statuses:
           \/ \E entry \in {<<>>, <<<<"none", to>>>>}: Opens(x, to, entry)
           \/ Changes(x, to)
    \/ \E j \in Jobs: Removes(j)

LEMMA RequestFields ==
    ASSUME NEW r \in Requests
    PROVE  /\ r.op \in {"create", "patch", "delete"} /\ r.rec \in Records
           /\ r.to \in Statuses /\ r.expected \in Nat
           /\ r.op = "delete" => r.rec \in Jobs
BY RecordAssumption DEF RequestType

LEMMA ApplicationParts ==
    ASSUME NEW a \in Applications
    PROVE  JobOf(a) \in Jobs /\ CandidateOf(a) \in Candidates /\ a \in Records
           /\ JobOf(a) \in Records /\ CandidateOf(a) \in Records
BY DEF Applications, JobOf, CandidateOf, Records

\* Every step of a handler does one of these to the rows.
LEMMA EveryRowStep == Base /\ [Next]_vars => RowStep
<1> SUFFICES ASSUME Base, [Next]_vars PROVE RowStep
  OBVIOUS
<1> USE DEF Base
<1>1. CASE UNCHANGED vars
  BY <1>1 DEF vars, rows, RowStep, Stays
<1>2. ASSUME NEW s \in Sessions,
             \/ \E r \in Requests: Look(s, r)
             \/ Repeat(s) \/ Begin(s) \/ Refuse(s) \/ CreateFound(s) \/ RollBack(s)
      PROVE  RowStep
  BY <1>2 DEF Look, Repeat, Begin, Refuse, CreateFound, RollBack, RowStep, Stays
<1>3. ASSUME NEW s \in Sessions, Create(s) PROVE RowStep
  <2>1. req[s] \in Requests
    BY <1>3 DEF TypeOK, Create
  <2> DEFINE x == req[s].rec
             to == req[s].to
  <2>2. x \in Records /\ to \in Statuses /\ x \notin Applications
    BY <1>3, <2>1, RequestFields DEF Create
  <2>3. CASE status[x] = "none"
    <3>1. Opens(x, to, <<>>)
      BY <1>3, <2>2, <2>3 DEF Create, Opens
    <3> QED BY <3>1, <2>2 DEF RowStep
  <2>4. CASE status[x] # "none"
    BY <1>3, <2>4 DEF Create, RowStep, Stays
  <2> QED BY <2>3, <2>4
<1>4. ASSUME NEW s \in Sessions, CreateApplication(s) PROVE RowStep
  <2>1. req[s] \in Requests
    BY <1>4 DEF TypeOK, CreateApplication
  <2> DEFINE x == req[s].rec
             to == req[s].to
  <2>2. x \in Records /\ to \in Statuses
    BY <2>1, RequestFields
  <2>3. Live(JobOf(x)) /\ Live(CandidateOf(x))
    BY <1>4 DEF CreateApplication, ReadsOK, LetThrough
  <2>4. Opens(x, to, <<<<"none", to>>>>)
    BY <1>4, <2>2, <2>3 DEF CreateApplication, Opens
  <2> QED BY <2>4, <2>2 DEF RowStep
<1>5. ASSUME NEW s \in Sessions, Patch(s) PROVE RowStep
  <2>1. req[s] \in Requests
    BY <1>5 DEF TypeOK, Patch
  <2> DEFINE x == req[s].rec
             to == req[s].to
  <2>2. x \in Records /\ to \in Statuses
    BY <2>1, RequestFields
  <2>3. saw[s].version = version[x] /\ saw[s].status = status[x] /\ Live(x)
    BY <1>5 DEF Patch, ReadsOK, Reads
  <2>4. Changes(x, to)
    BY <1>5, <2>3 DEF Patch, Changes
  <2> QED BY <2>4, <2>2 DEF RowStep
<1>6. ASSUME NEW s \in Sessions, Delete(s) PROVE RowStep
  <2>1. req[s] \in Requests /\ saw[s].version \in Nat
    BY <1>6 DEF TypeOK, Delete
  <2> DEFINE j == req[s].rec
  <2>2. j \in Jobs
    BY <1>6, <2>1, RequestFields DEF Delete
  <2>3. Removes(j)
    BY <1>6, <2>1 DEF Delete, Removes
  <2> QED BY <2>2, <2>3 DEF RowStep
<1> QED BY <1>1, <1>2, <1>3, <1>4, <1>5, <1>6 DEF Next

-----------------------------------------------------------------------------
(* Types.                                                                  *)

RowTypes ==
    /\ status \in [Records -> Statuses \cup {"none", "deleted"}]
    /\ version \in [Records -> Nat]
    /\ \A x \in Records: status[x] = "none" <=> version[x] = 0
    /\ history \in [Records -> Seq((Statuses \cup {"none"}) \X Statuses)]
    /\ events \in [Records -> Seq(Nat)]

KeyTypes ==
    /\ answer \in [Requests -> Nat]
    /\ effects \in [Requests -> Nat]
HandlerTypes ==
    /\ pc \in [Sessions -> {"idle", "looked", "open"}]
    /\ req \in [Sessions -> Requests \cup {NoRequest}]
    /\ \A s \in Sessions: pc[s] # "idle" => req[s] \in Requests
    /\ saw \in [Sessions -> [status: Statuses \cup {"none", "deleted"}, version: Nat]]

LEMMA TypeParts == TypeOK <=> RowTypes /\ KeyTypes /\ HandlerTypes
BY DEF TypeOK, RowTypes, KeyTypes, HandlerTypes

LEMMA WriteTyped ==
    ASSUME RowTypes, NEW x \in Records, NEW to \in Statuses, NEW v \in Nat \ {0},
           NEW entry \in Seq((Statuses \cup {"none"}) \X Statuses), Write(x, to, v, entry)
    PROVE  RowTypes'
<1>1. history[x] \o entry \in Seq((Statuses \cup {"none"}) \X Statuses)
  BY DEF RowTypes
<1>2. Append(events[x], v) \in Seq(Nat)
  BY DEF RowTypes
<1>3. status' \in [Records -> Statuses \cup {"none", "deleted"}] /\ version' \in [Records -> Nat]
  BY DEF RowTypes, Write
<1>4. history' \in [Records -> Seq((Statuses \cup {"none"}) \X Statuses)]
  BY <1>1 DEF RowTypes, Write
<1>5. events' \in [Records -> Seq(Nat)]
  BY <1>2 DEF RowTypes, Write
<1>6. \A y \in Records: status'[y] = "none" <=> version'[y] = 0
  BY RecordAssumption DEF RowTypes, Write
<1> QED BY <1>3, <1>4, <1>5, <1>6 DEF RowTypes

LEMMA ChangeEntryTyped ==
    ASSUME RowTypes, NEW x \in Records, Live(x), NEW to \in Statuses
    PROVE  (IF to = status[x] THEN <<>> ELSE <<<<status[x], to>>>>)
               \in Seq((Statuses \cup {"none"}) \X Statuses)
<1>1. status[x] \in Statuses
  BY DEF RowTypes, Live
<1> QED BY <1>1

LEMMA RowsTyped == RowTypes /\ RowStep => RowTypes'
<1> SUFFICES ASSUME RowTypes, RowStep PROVE RowTypes'
  OBVIOUS
<1>1. CASE Stays
  BY <1>1 DEF Stays, rows, RowTypes
<1>2. ASSUME NEW x \in Records, NEW to \in Statuses,
             NEW entry \in {<<>>, <<<<"none", to>>>>}, Opens(x, to, entry)
      PROVE  RowTypes'
  <2> DEFINE Entries == (Statuses \cup {"none"}) \X Statuses
  <2>1. entry \in Seq(Entries)
    <3>1. <<"none", to>> \in Entries
      OBVIOUS
    <3> HIDE DEF Entries
    <3>2. <<>> \in Seq(Entries) /\ <<<<"none", to>>>> \in Seq(Entries)
      BY <3>1
    <3> QED BY <3>2
  <2> QED BY <1>2, <2>1, WriteTyped DEF Opens
<1>3. ASSUME NEW x \in Records, NEW to \in Statuses, Changes(x, to) PROVE RowTypes'
  <2> DEFINE entry == IF to = status[x] THEN <<>> ELSE <<<<status[x], to>>>>
             v == version[x] + 1
  <2>1. v \in Nat \ {0}
    BY DEF RowTypes
  <2>2. Live(x) /\ Write(x, to, v, entry)
    BY <1>3 DEF Changes
  <2>3. entry \in Seq((Statuses \cup {"none"}) \X Statuses)
    BY <2>2, ChangeEntryTyped
  <2> HIDE DEF entry, v
  <2> QED BY <2>1, <2>2, <2>3, WriteTyped
<1>4. ASSUME NEW j \in Jobs, Removes(j) PROVE RowTypes'
  <2>1. j \in Records
    BY DEF Records
  <2>2. PICK v \in Nat: events' = [events EXCEPT ![j] = Append(events[j], v)]
    BY <1>4 DEF Removes
  <2>3. Append(events[j], v) \in Seq(Nat)
    BY <2>1 DEF RowTypes
  <2>4. events' \in [Records -> Seq(Nat)]
    BY <2>2, <2>3 DEF RowTypes
  <2>5. status[j] # "none"
    BY <1>4 DEF Removes, Deletable, Live
  <2>6. history' \in [Records -> Seq((Statuses \cup {"none"}) \X Statuses)]
    <3>1. <<>> \in Seq((Statuses \cup {"none"}) \X Statuses)
      BY EmptySeq
    <3> QED BY <1>4, <3>1 DEF Removes, RowTypes
  <2>7. /\ status' \in [Records -> Statuses \cup {"none", "deleted"}]
        /\ version' \in [Records -> Nat]
        /\ \A x \in Records: status'[x] = "none" <=> version'[x] = 0
    BY <1>4, <2>1, <2>5 DEF Removes, RowTypes
  <2> QED BY <2>4, <2>6, <2>7 DEF RowTypes
<1> QED BY <1>1, <1>2, <1>3, <1>4 DEF RowStep

LEMMA KeysTyped == TypeOK /\ [Next]_vars => KeyTypes'
<1> SUFFICES ASSUME TypeOK, [Next]_vars PROVE KeyTypes'
  OBVIOUS
<1>1. CASE UNCHANGED <<answer, effects>>
  BY <1>1 DEF TypeOK, KeyTypes
<1>2. ASSUME NEW r \in Requests, NEW v \in Nat, Stores(r, v) PROVE KeyTypes'
  BY <1>2 DEF Stores, TypeOK, KeyTypes
<1>3. ASSUME NEW s \in Sessions, CreateFound(s) PROVE KeyTypes'
  BY <1>3 DEF CreateFound, TypeOK, KeyTypes
<1>4. ASSUME NEW s \in Sessions, Create(s) \/ CreateApplication(s) PROVE KeyTypes'
  <2>1. req[s] \in Requests /\ Stores(req[s], 1)
    BY <1>4 DEF Create, CreateApplication, TypeOK
  <2> QED BY <2>1, <1>2
<1>5. ASSUME NEW s \in Sessions, Patch(s) PROVE KeyTypes'
  <2>1. req[s] \in Requests /\ saw[s].version + 1 \in Nat /\ Stores(req[s], saw[s].version + 1)
    BY <1>5 DEF Patch, TypeOK
  <2> QED BY <2>1, <1>2
<1>6. ASSUME NEW s \in Sessions, Delete(s) PROVE KeyTypes'
  <2>1. req[s] \in Requests /\ saw[s].version \in Nat /\ Stores(req[s], saw[s].version)
    BY <1>6 DEF Delete, TypeOK
  <2> QED BY <2>1, <1>2
<1> QED BY <1>1, <1>3, <1>4, <1>5, <1>6
        DEF Next, vars, Look, Repeat, Begin, Refuse, RollBack

LEMMA GoesTyped ==
    ASSUME HandlerTypes, NEW s \in Sessions, NEW step \in {"idle", "looked", "open"},
           NEW r \in Requests \cup {NoRequest}, step # "idle" => r \in Requests,
           NEW row \in [status: Statuses \cup {"none", "deleted"}, version: Nat],
           Goes(s, step, r, row)
    PROVE  HandlerTypes'
BY DEF HandlerTypes, Goes

LEMMA RowTyped ==
    ASSUME TypeOK, NEW x \in Records
    PROVE  Row(x) \in [status: Statuses \cup {"none", "deleted"}, version: Nat]
BY DEF TypeOK, Row

LEMMA HandlersTyped == TypeOK /\ [Next]_vars => HandlerTypes'
<1> SUFFICES ASSUME TypeOK, [Next]_vars PROVE HandlerTypes'
  OBVIOUS
<1> HandlerTypes
  BY TypeParts
<1>1. CASE UNCHANGED vars
  BY <1>1 DEF HandlerTypes, vars
<1>2. ASSUME NEW s \in Sessions, Answers(s) PROVE HandlerTypes'
  BY <1>2, GoesTyped DEF Answers
<1>3. ASSUME NEW s \in Sessions, NEW r \in Requests, Look(s, r) PROVE HandlerTypes'
  <2>1. r.rec \in Records /\ Goes(s, "looked", r, Row(r.rec))
    BY <1>3, RequestFields DEF Look
  <2> QED BY <2>1, RowTyped, GoesTyped
<1>4. ASSUME NEW s \in Sessions, Begin(s) PROVE HandlerTypes'
  <2> DEFINE row == IF req[s].op = "create" THEN Row(req[s].rec) ELSE saw[s]
  <2>1. req[s] \in Requests /\ Goes(s, "open", req[s], row)
    BY <1>4 DEF Begin, HandlerTypes
  <2>2. saw[s] \in [status: Statuses \cup {"none", "deleted"}, version: Nat]
    BY DEF HandlerTypes
  <2>3. row \in [status: Statuses \cup {"none", "deleted"}, version: Nat]
    BY <2>1, <2>2, RequestFields, RowTyped
  <2> HIDE DEF row
  <2> QED BY <2>1, <2>3, GoesTyped
<1> QED BY <1>1, <1>2, <1>3, <1>4
        DEF Next, Repeat, Refuse, Create, CreateFound, CreateApplication, Patch, Delete, RollBack

-----------------------------------------------------------------------------
(* What a handler read.                                                    *)

\* Versions only grow, nothing comes back from deletion, and a row with a
\* version it had before has not been touched, unless it was deleted.
RowsGrow ==
    /\ \A x \in Records:
        /\ version[x] <= version'[x]
        /\ Live(x)' /\ version'[x] = version[x] => status'[x] = status[x]
    /\ \A c \in Candidates:
        /\ Live(c) => Live(c)'
        /\ status[c] # "deleted" => status'[c] # "deleted"

LEMMA WriteKeepsOthers ==
    ASSUME TypeOK, NEW x \in Records, NEW to \in Statuses, NEW v \in Nat, NEW entry,
           Write(x, to, v, entry), version[x] < v
    PROVE  RowsGrow
BY RecordAssumption DEF TypeOK, Write, RowsGrow, Live, Records

LEMMA RowsGrowInSteps == TypeOK /\ RowStep => RowsGrow
<1> SUFFICES ASSUME TypeOK, RowStep PROVE RowsGrow
  OBVIOUS
<1>1. CASE Stays
  BY <1>1 DEF Stays, rows, TypeOK, RowsGrow, Live, Records
<1>2. ASSUME NEW x \in Records, NEW to \in Statuses, NEW entry, Opens(x, to, entry)
      PROVE  RowsGrow
  <2>1. version[x] < 1
    BY <1>2 DEF Opens, TypeOK
  <2> QED BY <1>2, <2>1, WriteKeepsOthers DEF Opens
<1>3. ASSUME NEW x \in Records, NEW to \in Statuses, Changes(x, to) PROVE RowsGrow
  <2>1. version[x] < version[x] + 1 /\ version[x] + 1 \in Nat
    BY DEF TypeOK
  <2> QED BY <1>3, <2>1, WriteKeepsOthers DEF Changes
<1>4. ASSUME NEW j \in Jobs, Removes(j) PROVE RowsGrow
  <2>1. \A c \in Candidates: status'[c] = status[c]
    BY <1>4, RecordAssumption DEF Removes, TypeOK, Records
  <2>2. \A x \in Records: /\ version'[x] = version[x] /\ version[x] \in Nat
                          /\ status'[x] \in {status[x], "deleted"}
    BY <1>4 DEF Removes, TypeOK
  <2> QED BY <2>1, <2>2 DEF RowsGrow, Live
<1> QED BY <1>1, <1>2, <1>3, <1>4 DEF RowStep

LEMMA ReadsKept ==
    ASSUME TypeOK, TypeOK', RowsGrow, NEW s \in Sessions, Reads(s), LetThrough(s),
           UNCHANGED <<pc[s], req[s], saw[s]>>
    PROVE  Reads(s)' /\ LetThrough(s)'
<1>1. ASSUME pc[s] # "idle", req[s].op \in {"patch", "delete"} PROVE Reads(s)'
  <2> DEFINE x == req[s].rec
  <2>1. req[s] \in Requests /\ x \in Records
    BY <1>1, RequestFields DEF TypeOK
  <2>2. saw[s].version \in 1..version[x] /\ version[x] \in Nat /\ version'[x] \in Nat
    BY <1>1, <2>1 DEF Reads, TypeOK
  <2>3. version[x] <= version'[x] /\ (Live(x)' /\ version'[x] = version[x] => status'[x] = status[x])
    BY <2>1 DEF RowsGrow
  <2>4. saw[s].version \in 1..version'[x]
    BY <2>2, <2>3
  <2>5. ASSUME saw[s].version = version'[x], Live(x)' PROVE saw[s].status = status'[x]
    <3>1. version'[x] = version[x] /\ status'[x] = status[x]
      BY <2>2, <2>3, <2>5
    <3> QED BY <1>1, <2>5, <3>1 DEF Reads, Live
  <2> QED BY <2>4, <2>5 DEF Reads, Live
<1>2. ASSUME pc[s] = "open", req[s].op = "create", req[s].rec \in Applications
      PROVE  LetThrough(s)'
  <2>1. CandidateOf(req[s].rec) \in Candidates /\ Live(CandidateOf(req[s].rec))
    BY <1>2, ApplicationParts DEF LetThrough
  <2> QED BY <2>1 DEF RowsGrow, LetThrough, Live
<1> QED BY <1>1, <1>2 DEF Reads, LetThrough

LEMMA ReadsInv == Base /\ TypeOK' /\ [Next]_vars => ReadsOK'
<1> SUFFICES ASSUME Base, TypeOK', [Next]_vars, NEW t \in Sessions
             PROVE  Reads(t)' /\ LetThrough(t)'
  BY DEF ReadsOK
<1>0. TypeOK /\ Reads(t) /\ LetThrough(t) /\ RowsGrow
  BY EveryRowStep, RowsGrowInSteps DEF Base, ReadsOK
<1>1. CASE UNCHANGED <<pc[t], req[t], saw[t]>>
  BY <1>0, <1>1, ReadsKept
<1>2. ASSUME NEW s \in Sessions, Answers(s) PROVE Reads(t)' /\ LetThrough(t)'
  <2>1. CASE s = t
    BY <1>0, <1>2, <2>1 DEF Answers, Goes, Reads, LetThrough, TypeOK
  <2>2. CASE s # t
    BY <1>0, <1>1, <1>2, <2>2 DEF Answers, Goes, TypeOK
  <2> QED BY <2>1, <2>2
<1>3. ASSUME NEW s \in Sessions, NEW r \in Requests, Look(s, r)
      PROVE  Reads(t)' /\ LetThrough(t)'
  <2>1. CASE s = t
    <3>1. pc'[t] = "looked" /\ req'[t] = r /\ saw'[t] = Row(r.rec) /\ r.rec \in Records
      BY <1>0, <1>3, <2>1, RequestFields DEF Look, Goes, TypeOK
    <3>2. r.op # "create" => version[r.rec] \in Nat \ {0}
      BY <1>0, <1>3, <3>1 DEF Look, Live, TypeOK
    <3>3. UNCHANGED <<status, version>>
      BY <1>3 DEF Look, rows
    <3>4. saw'[t].version = version'[r.rec] /\ saw'[t].status = status'[r.rec]
      BY <3>1, <3>3 DEF Row
    <3>5. Reads(t)'
      BY <3>1, <3>2, <3>3, <3>4 DEF Reads
    <3> QED BY <3>1, <3>5 DEF LetThrough
  <2>2. CASE s # t
    BY <1>0, <1>1, <1>3, <2>2 DEF Look, Goes, TypeOK
  <2> QED BY <2>1, <2>2
<1>4. ASSUME NEW s \in Sessions, Begin(s) PROVE Reads(t)' /\ LetThrough(t)'
  <2>1. CASE s = t
    <3>1. pc'[t] = "open" /\ req'[t] = req[t] /\ pc[t] = "looked"
      BY <1>0, <1>4, <2>1 DEF Begin, Goes, TypeOK
    <3>2. req[t].op # "create" => saw'[t] = saw[t]
      BY <1>0, <1>4, <2>1 DEF Begin, Goes, TypeOK
    <3>3. UNCHANGED <<status, version>>
      BY <1>4 DEF Begin, rows
    <3>4. Reads(t)'
      BY <1>0, <3>1, <3>2, <3>3 DEF Reads, Live
    <3>5. req[t].op = "create" /\ req[t].rec \in Applications => Live(CandidateOf(req[t].rec))
      BY <1>4, <2>1 DEF Begin, CanApply
    <3>6. LetThrough(t)'
      BY <3>1, <3>3, <3>5 DEF LetThrough, Live
    <3> QED BY <3>4, <3>6
  <2>2. CASE s # t
    BY <1>0, <1>1, <1>4, <2>2 DEF Begin, Goes, TypeOK
  <2> QED BY <2>1, <2>2
<1>5. CASE UNCHANGED vars
  BY <1>1, <1>5 DEF vars
<1> QED BY <1>2, <1>3, <1>4, <1>5
        DEF Next, Repeat, Refuse, Create, CreateFound, CreateApplication, Patch, Delete, RollBack

-----------------------------------------------------------------------------
(* The invariants of the rows.                                             *)

LEMMA CandidatesStayInv == Base /\ [Next]_vars => CandidatesStay'
BY EveryRowStep, RowsGrowInSteps DEF Base, CandidatesStay, RowsGrow

LEMMA OneMore ==
    ASSUME NEW v \in Nat, NEW e, e = [k \in 1..v |-> k]
    PROVE  Append(e, v + 1) = [k \in 1..(v + 1) |-> k]
<1>1. e \in Seq(Nat) /\ Len(e) = v
  BY LenProperties
<1>2. Append(e, v + 1) \in Seq(Nat) /\ Len(Append(e, v + 1)) = v + 1
  BY <1>1, AppendProperties
<1>3. \A k \in 1..(v + 1): Append(e, v + 1)[k] = k
  BY <1>1, AppendProperties
<1> QED BY <1>2, <1>3

LEMMA EventsInv == TypeOK /\ RowStep /\ OneEventPerVersion => OneEventPerVersion'
<1> SUFFICES ASSUME TypeOK, RowStep, OneEventPerVersion,
                    NEW y \in Records, status'[y] # "deleted"
             PROVE  events'[y] = [k \in 1..version'[y] |-> k]
  BY DEF OneEventPerVersion
<1>1. CASE Stays
  BY <1>1 DEF Stays, rows, OneEventPerVersion
<1>2. ASSUME NEW x \in Records, NEW to \in Statuses, NEW entry, Opens(x, to, entry)
      PROVE  events'[y] = [k \in 1..version'[y] |-> k]
  <2>1. CASE x = y
    <3>1. version[x] = 0 /\ status[x] # "deleted"
      BY <1>2 DEF Opens, TypeOK
    <3>2. events[x] = [k \in 1..0 |-> k]
      BY <3>1 DEF OneEventPerVersion
    <3>3. Append(events[x], 0 + 1) = [k \in 1..(0 + 1) |-> k]
      BY <3>2, OneMore
    <3>4. events'[x] = Append(events[x], 1) /\ version'[x] = 1
      BY <1>2 DEF Opens, Write, TypeOK
    <3> QED BY <2>1, <3>3, <3>4
  <2>2. CASE x # y
    BY <1>2, <2>2 DEF Opens, Write, TypeOK, OneEventPerVersion
  <2> QED BY <2>1, <2>2
<1>3. ASSUME NEW x \in Records, NEW to \in Statuses, Changes(x, to)
      PROVE  events'[y] = [k \in 1..version'[y] |-> k]
  <2>1. CASE x = y
    <3>1. version[x] \in Nat /\ events[x] = [k \in 1..version[x] |-> k]
      BY <1>3 DEF Changes, Live, TypeOK, OneEventPerVersion
    <3>2. Append(events[x], version[x] + 1) = [k \in 1..(version[x] + 1) |-> k]
      BY <3>1, OneMore
    <3>3. events'[x] = Append(events[x], version[x] + 1) /\ version'[x] = version[x] + 1
      BY <1>3 DEF Changes, Write, TypeOK
    <3> QED BY <2>1, <3>2, <3>3
  <2>2. CASE x # y
    BY <1>3, <2>2 DEF Changes, Write, TypeOK, OneEventPerVersion
  <2> QED BY <2>1, <2>2
<1>4. ASSUME NEW j \in Jobs, Removes(j)
      PROVE  events'[y] = [k \in 1..version'[y] |-> k]
  BY <1>4 DEF Removes, TypeOK, OneEventPerVersion
<1> QED BY <1>1, <1>2, <1>3, <1>4 DEF RowStep

\* A history followed by one more entry that starts where it ended.
Chain(h) == \A k \in 2..Len(h): h[k][1] = h[k - 1][2]

LEMMA ChainGoesOn ==
    ASSUME NEW S, NEW h \in Seq(S), NEW e \in S, Chain(h),
           h # <<>> => e[1] = h[Len(h)][2]
    PROVE  /\ Chain(h \o <<e>>) /\ h \o <<e>> # <<>>
           /\ (h \o <<e>>)[Len(h \o <<e>>)] = e
<1> DEFINE n == Len(h)
           g == h \o <<e>>
<1>1. n \in Nat /\ g = Append(h, e)
  BY AppendIsConcat
<1>2. Len(g) = n + 1 /\ (\A k \in 1..n: g[k] = h[k]) /\ g[n + 1] = e /\ g # <<>>
  BY <1>1, AppendProperties
<1>3. ASSUME NEW k \in 2..(n + 1) PROVE g[k][1] = g[k - 1][2]
  <2>1. CASE k = n + 1
    <3>1. h # <<>> /\ n \in 1..n
      BY <1>1, <2>1, <1>3, EmptySeq
    <3> QED BY <1>1, <1>2, <2>1, <3>1
  <2>2. CASE k # n + 1
    <3>1. k \in 2..n /\ k \in 1..n /\ k - 1 \in 1..n
      BY <1>1, <2>2
    <3> QED BY <1>2, <3>1 DEF Chain
  <2> QED BY <2>1, <2>2
<1> QED BY <1>2, <1>3 DEF Chain

\* The part of HistoryIsAChain about one record.
Told(x) ==
    /\ Chain(history[x])
    /\ Live(x) /\ history[x] # <<>> => history[x][Len(history[x])][2] = status[x]

LEMMA HistoryParts == HistoryIsAChain <=> \A x \in Records: Told(x)
BY DEF HistoryIsAChain, Told, Chain

Histories == NothingBeforeCreation /\ HistoryIsAChain

LEMMA HistoryInv == TypeOK /\ RowStep /\ Histories => Histories'
<1> SUFFICES ASSUME TypeOK, RowStep, NothingBeforeCreation, HistoryIsAChain,
                    NEW y \in Records
             PROVE  Told(y)' /\ (status'[y] = "none" => history'[y] = <<>>)
  <2>1. (\A x \in Records: Told(x))' => HistoryIsAChain'
    BY DEF HistoryIsAChain, Told, Chain
  <2> QED BY <2>1 DEF Histories, NothingBeforeCreation
<1> DEFINE Entries == (Statuses \cup {"none"}) \X Statuses
<1>0. history[y] \in Seq(Entries) /\ Told(y) /\ (status[y] = "none" => history[y] = <<>>)
  BY HistoryParts DEF TypeOK, NothingBeforeCreation
<1>1. ASSUME status'[y] = status[y], history'[y] = history[y]
      PROVE  Told(y)' /\ (status'[y] = "none" => history'[y] = <<>>)
  BY <1>0, <1>1 DEF Told, Live
<1>2. CASE Stays
  BY <1>1, <1>2 DEF Stays, rows
<1>3. ASSUME NEW to \in Statuses, NEW e \in Entries, e[2] = to,
             status'[y] = to, history'[y] = history[y] \o <<e>>,
             history[y] # <<>> => e[1] = history[y][Len(history[y])][2]
      PROVE  Told(y)' /\ (status'[y] = "none" => history'[y] = <<>>)
  <2> HIDE DEF Entries
  <2>1. /\ Chain(history[y] \o <<e>>) /\ history[y] \o <<e>> # <<>>
        /\ (history[y] \o <<e>>)[Len(history[y] \o <<e>>)] = e
    BY <1>0, <1>3, ChainGoesOn DEF Told
  <2>2. status'[y] # "none"
    BY <1>3, RecordAssumption
  <2> QED BY <1>3, <2>1, <2>2 DEF Told
<1>4. ASSUME NEW to \in Statuses, status'[y] = to, history'[y] = history[y],
             history[y] # <<>> => to = history[y][Len(history[y])][2]
      PROVE  Told(y)' /\ (status'[y] = "none" => history'[y] = <<>>)
  BY <1>0, <1>4, RecordAssumption DEF Told
<1>5. ASSUME NEW x \in Records, NEW to \in Statuses,
             NEW entry \in {<<>>, <<<<"none", to>>>>}, Opens(x, to, entry)
      PROVE  Told(y)' /\ (status'[y] = "none" => history'[y] = <<>>)
  <2>1. CASE x # y
    <3>1. status'[y] = status[y] /\ history'[y] = history[y]
      BY <1>5, <2>1 DEF Opens, Write, TypeOK
    <3> QED BY <1>1, <3>1
  <2>2. CASE x = y
    <3>1. history[y] = <<>> /\ status'[y] = to /\ history'[y] = history[y] \o entry
      BY <1>0, <1>5, <2>2 DEF Opens, Write, TypeOK
    <3>2. CASE entry = <<>>
      <4>1. history'[y] = history[y]
        BY <1>0, <3>1, <3>2, ConcatEmptySeq
      <4> QED BY <3>1, <4>1, <1>4
    <3>3. CASE entry = <<<<"none", to>>>>
      BY <3>1, <3>3, <1>3
    <3> QED BY <3>2, <3>3
  <2> QED BY <2>1, <2>2
<1>6. ASSUME NEW x \in Records, NEW to \in Statuses, Changes(x, to)
      PROVE  Told(y)' /\ (status'[y] = "none" => history'[y] = <<>>)
  <2>1. CASE x # y
    <3>1. status'[y] = status[y] /\ history'[y] = history[y]
      BY <1>6, <2>1 DEF Changes, Write, TypeOK
    <3> QED BY <1>1, <3>1
  <2>2. CASE x = y
    <3>1. /\ Live(y) /\ status[y] \in Statuses /\ status'[y] = to
          /\ history[y] # <<>> => status[y] = history[y][Len(history[y])][2]
      BY <1>0, <1>6, <2>2 DEF Changes, Write, Live, TypeOK, Told
    <3>2. history'[y] = history[y] \o (IF to = status[y] THEN <<>> ELSE <<<<status[y], to>>>>)
      BY <1>6, <2>2 DEF Changes, Write, TypeOK
    <3>3. CASE to = status[y]
      <4>1. history'[y] = history[y]
        BY <1>0, <3>2, <3>3, ConcatEmptySeq
      <4> QED BY <3>1, <3>3, <4>1, <1>4
    <3>4. CASE to # status[y]
      <4>1. history'[y] = history[y] \o <<<<status[y], to>>>> /\ <<status[y], to>> \in Entries
        BY <3>1, <3>2, <3>4
      <4> QED BY <3>1, <4>1, <1>3
    <3> QED BY <3>3, <3>4
  <2> QED BY <2>1, <2>2
<1>7. ASSUME NEW j \in Jobs, Removes(j)
      PROVE  Told(y)' /\ (status'[y] = "none" => history'[y] = <<>>)
  <2>1. CASE j # y
    <3>1. status'[y] = status[y] /\ history'[y] = history[y]
      BY <1>7, <2>1 DEF Removes, TypeOK
    <3> QED BY <1>1, <3>1
  <2>2. CASE j = y
    BY <1>7, <2>2 DEF Removes, TypeOK, Told, Chain
  <2> QED BY <2>1, <2>2
<1> QED BY <1>2, <1>5, <1>6, <1>7 DEF RowStep

LEMMA KeepJobInv ==
    TypeOK /\ RowStep /\ ApplicationsKeepTheirJob => ApplicationsKeepTheirJob'
<1> SUFFICES ASSUME TypeOK, RowStep, ApplicationsKeepTheirJob,
                    NEW a \in Applications, status'[a] # "none"
             PROVE  Live(JobOf(a))' /\ Live(CandidateOf(a))'
  BY DEF ApplicationsKeepTheirJob
<1>0. /\ JobOf(a) \in Jobs /\ CandidateOf(a) \in Candidates /\ a \in Records
      /\ JobOf(a) \in Records /\ CandidateOf(a) \in Records
      /\ JobOf(a) # a /\ CandidateOf(a) # a
  BY ApplicationParts, RecordAssumption
<1>1. CASE Stays
  BY <1>0, <1>1 DEF Stays, rows, ApplicationsKeepTheirJob, Live, JobOf, CandidateOf
<1>2. ASSUME NEW x \in Records, NEW to \in Statuses, NEW entry, Opens(x, to, entry)
      PROVE  Live(JobOf(a))' /\ Live(CandidateOf(a))'
  <2>1. \A y \in Records \ {x}: status'[y] = status[y]
    BY <1>2 DEF Opens, Write, TypeOK
  <2>2. status'[x] \notin {"none", "deleted"}
    BY <1>2, RecordAssumption DEF Opens, Write, TypeOK
  <2>3. Live(JobOf(a)) /\ Live(CandidateOf(a))
    BY <1>0, <1>2, <2>1 DEF Opens, ApplicationsKeepTheirJob
  <2> QED BY <1>0, <2>1, <2>2, <2>3 DEF Live, JobOf, CandidateOf
<1>3. ASSUME NEW x \in Records, NEW to \in Statuses, Changes(x, to)
      PROVE  Live(JobOf(a))' /\ Live(CandidateOf(a))'
  <2>1. \A y \in Records \ {x}: status'[y] = status[y]
    BY <1>3 DEF Changes, Write, TypeOK
  <2>2. status'[x] \notin {"none", "deleted"}
    BY <1>3, RecordAssumption DEF Changes, Write, TypeOK
  <2>3. Live(JobOf(a)) /\ Live(CandidateOf(a))
    BY <1>0, <1>3, <2>1 DEF Changes, Live, ApplicationsKeepTheirJob
  <2> QED BY <1>0, <2>1, <2>2, <2>3 DEF Live, JobOf, CandidateOf
<1>4. ASSUME NEW j \in Jobs, Removes(j)
      PROVE  Live(JobOf(a))' /\ Live(CandidateOf(a))'
  <2>1. \A y \in Records \ {j}: status'[y] = status[y]
    BY <1>4 DEF Removes, TypeOK
  <2>2. j # a /\ j # CandidateOf(a)
    BY <1>0, RecordAssumption
  <2>3. status[a] # "none"
    BY <1>0, <2>1, <2>2
  <2>4. j # JobOf(a)
    <3> SUFFICES ASSUME j = JobOf(a) PROVE FALSE
      OBVIOUS
    <3>1. a = <<j, CandidateOf(a)>>
      BY DEF Applications, JobOf, CandidateOf
    <3> QED BY <1>0, <1>4, <2>3, <3>1 DEF Removes, Deletable, HasApplications
  <2>5. Live(JobOf(a)) /\ Live(CandidateOf(a))
    BY <2>3 DEF ApplicationsKeepTheirJob
  <2> QED BY <1>0, <2>1, <2>2, <2>4, <2>5 DEF Live, JobOf, CandidateOf
<1> QED BY <1>1, <1>2, <1>3, <1>4 DEF RowStep

-----------------------------------------------------------------------------
(* Keys.                                                                   *)

Unanswered == \A r \in Requests: answer[r] = 0 => effects[r] = 0
Keys == Unanswered /\ OneEffectPerKey

LEMMA StoresOnce ==
    ASSUME TypeOK, Keys, NEW r \in Requests, NEW v \in Nat \ {0}, KeyIsFree(r), Stores(r, v)
    PROVE  Keys'
BY DEF TypeOK, Keys, Unanswered, OneEffectPerKey, KeyIsFree, Stores

LEMMA KeysInv == Base /\ Keys /\ [Next]_vars => Keys'
<1> SUFFICES ASSUME Base, Keys, [Next]_vars PROVE Keys'
  OBVIOUS
<1> USE DEF Base
<1>1. CASE UNCHANGED <<answer, effects>>
  BY <1>1 DEF Keys, Unanswered, OneEffectPerKey
<1>2. ASSUME NEW s \in Sessions, CreateFound(s) PROVE Keys'
  BY <1>2 DEF CreateFound, KeyIsFree, TypeOK, Keys, Unanswered, OneEffectPerKey
<1>3. ASSUME NEW s \in Sessions, Create(s) \/ CreateApplication(s) PROVE Keys'
  <2>1. req[s] \in Requests /\ KeyIsFree(req[s]) /\ Stores(req[s], 1)
    BY <1>3 DEF Create, CreateApplication, TypeOK
  <2> QED BY <2>1, StoresOnce
<1>4. ASSUME NEW s \in Sessions, Patch(s) PROVE Keys'
  <2>1. /\ req[s] \in Requests /\ KeyIsFree(req[s])
        /\ saw[s].version + 1 \in Nat \ {0} /\ Stores(req[s], saw[s].version + 1)
    BY <1>4 DEF Patch, TypeOK
  <2> QED BY <2>1, StoresOnce
<1>5. ASSUME NEW s \in Sessions, Delete(s) PROVE Keys'
  <2>1. req[s] \in Requests /\ KeyIsFree(req[s]) /\ Stores(req[s], saw[s].version)
    BY <1>5 DEF Delete, TypeOK
  <2>2. saw[s].version \in 1..version[req[s].rec] /\ saw[s].version \in Nat
    BY <1>5 DEF Delete, ReadsOK, Reads, TypeOK
  <2>3. saw[s].version \in Nat \ {0}
    BY <2>1, <2>2, RequestFields DEF TypeOK
  <2> QED BY <2>1, <2>3, StoresOnce
<1> QED BY <1>1, <1>2, <1>3, <1>4, <1>5
        DEF Next, vars, Look, Repeat, Begin, Refuse, RollBack

-----------------------------------------------------------------------------
IInv == Base /\ Keys /\ OneEventPerVersion /\ Histories /\ ApplicationsKeepTheirJob

LEMMA InitIInv == Init => IInv
<1> SUFFICES ASSUME Init PROVE IInv
  OBVIOUS
<1>1. \A r \in Requests: answer[r] = 0 /\ effects[r] = 0
  BY DEF Init
<1>2. \A x \in Records: /\ status[x] = "none" /\ version[x] = 0
                        /\ history[x] = <<>> /\ events[x] = <<>>
  BY DEF Init
<1>3. \A s \in Sessions: pc[s] = "idle"
  BY DEF Init
<1>4. TypeOK
  <2>1. \A T: <<>> \in Seq(T)
    BY EmptySeq
  <2>2. /\ history \in [Records -> Seq((Statuses \cup {"none"}) \X Statuses)]
        /\ events \in [Records -> Seq(Nat)]
    BY <2>1 DEF Init
  <2> QED BY <1>2, <1>3, <2>2 DEF Init, TypeOK
<1>5. Base
  BY <1>2, <1>3, <1>4 DEF Base, ReadsOK, Reads, LetThrough, CandidatesStay, Records
<1>6. Keys
  BY <1>1 DEF Keys, Unanswered, OneEffectPerKey
<1>7. OneEventPerVersion
  <2>1. <<>> = [k \in 1..0 |-> k]
    OBVIOUS
  <2> QED BY <1>2, <2>1 DEF OneEventPerVersion
<1>8. Histories
  BY <1>2 DEF Histories, NothingBeforeCreation, HistoryIsAChain
<1>9. ApplicationsKeepTheirJob
  BY <1>2, ApplicationParts DEF ApplicationsKeepTheirJob
<1> QED BY <1>5, <1>6, <1>7, <1>8, <1>9 DEF IInv

LEMMA NextIInv == IInv /\ [Next]_vars => IInv'
<1> SUFFICES ASSUME IInv, [Next]_vars PROVE IInv'
  OBVIOUS
<1>1. TypeOK /\ RowStep
  BY EveryRowStep DEF IInv, Base
<1>2. TypeOK'
  <2>1. RowTypes' /\ KeyTypes' /\ HandlerTypes'
    BY <1>1, TypeParts, RowsTyped, KeysTyped, HandlersTyped
  <2> QED BY <2>1 DEF TypeOK, RowTypes, KeyTypes, HandlerTypes
<1>3. Base'
  BY <1>2, ReadsInv, CandidatesStayInv DEF IInv, Base
<1> QED BY <1>1, <1>3, KeysInv, EventsInv, HistoryInv, KeepJobInv DEF IInv

\* The inductive invariant: what handlers read, keys, outbox and history together.
THEOREM Invariance == Spec => []IInv
BY InitIInv, NextIInv, PTL DEF Spec

\* Rows, keys and handlers keep their types, whatever is sent.
THEOREM TypeCorrect == Spec => []TypeOK
<1>1. IInv => TypeOK
  BY DEF IInv, Base
<1> QED BY <1>1, Invariance, PTL

\* A request takes effect at most once, however often and concurrently it is sent.
THEOREM EffectsCorrect == Spec => []OneEffectPerKey
<1>1. IInv => OneEffectPerKey
  BY DEF IInv, Keys
<1> QED BY <1>1, Invariance, PTL

\* The outbox holds each version of an undeleted record once, in order.
THEOREM EventsCorrect == Spec => []OneEventPerVersion
<1>1. IInv => OneEventPerVersion
  BY DEF IInv
<1> QED BY <1>1, Invariance, PTL

\* The status history is a chain that ends at the record's status.
THEOREM HistoryCorrect == Spec => []HistoryIsAChain
<1>1. IInv => HistoryIsAChain
  BY DEF IInv, Histories
<1> QED BY <1>1, Invariance, PTL

\* No application loses its job or its candidate.
THEOREM ApplicationsCorrect == Spec => []ApplicationsKeepTheirJob
<1>1. IInv => ApplicationsKeepTheirJob
  BY DEF IInv
<1> QED BY <1>1, Invariance, PTL

-----------------------------------------------------------------------------
(***************************************************************************)
(* JdDrafts: the drafts of a job in JD and the role versions here that     *)
(* mirror them.  A request carries the version and the draft it has read,  *)
(* and both only ever gain rows and confirmations; a stored answer names a *)
(* version there is, and that of a confirmation one that is confirmed.     *)
(***************************************************************************)
DraftRows == [status: {"draft", "confirmed"}, text: Texts, role: 1..MaxDrafts]
RoleRows == [status: {"draft", "confirmed"}, text: Texts]
HeldRows == [draft: 0..MaxDrafts, role: 0..MaxDrafts, text: Texts \cup {NoText}]

HeldTrue(e) ==
    /\ at[e] \in {"create", "created", "update", "updating", "updated", "snapshot"} => held[e].text \in Texts
    /\ at[e] \notin {"idle", "create"} => held[e].role \in 1..Len(roles)
    /\ at[e] \in {"update", "updating", "updated", "confirm", "confirmed"} => held[e].draft \in 1..Len(drafts)
    /\ at[e] \in {"confirm", "confirmed"} => drafts[held[e].draft].role = held[e].role
    /\ at[e] \in {"confirmed", "snapshot"} => roles[held[e].role].status = "confirmed"

AnswersTrue == \A a \in answers:
    /\ a.role \in 1..Len(roles)
    /\ a.op = "confirm" => a.on \in 1..Len(roles) /\ roles[a.on].status = "confirmed"

SnapshotsOfRoles == \A s \in snapshots: s.role \in 1..Len(roles)

Bounded == Len(drafts) <= MaxDrafts /\ Len(roles) <= MaxDrafts

DraftsInv == D!TypeOK /\ Bounded /\ AnswersTrue /\ SnapshotsOfRoles /\ ConfirmedInCore
             /\ \A e \in Editors: HeldTrue(e)

\* Role versions are added and confirmed, drafts added and edited.
RolesGrow ==
    /\ Len(roles) <= Len(roles')
    /\ \A v \in 1..Len(roles): roles[v].status = "confirmed" => roles'[v].status = "confirmed"
DraftsGrow ==
    /\ Len(drafts) <= Len(drafts')
    /\ \A r \in 1..Len(drafts): drafts'[r].role = drafts[r].role

LEMMA RowsOfSequences ==
    ASSUME D!TypeOK
    PROVE  /\ drafts \in Seq(DraftRows) /\ Len(drafts) \in Nat /\ \A r \in 1..Len(drafts): drafts[r] \in DraftRows
           /\ roles \in Seq(RoleRows) /\ Len(roles) \in Nat /\ \A v \in 1..Len(roles): roles[v] \in RoleRows
           /\ at \in [Editors -> D!Steps] /\ held \in [Editors -> HeldRows]
           /\ snapshots \subseteq [role: 1..MaxDrafts, text: Texts]
<1>1. drafts \in Seq(DraftRows) /\ roles \in Seq(RoleRows)
    BY DEF D!TypeOK, DraftRows, RoleRows
<1>2. Len(drafts) \in Nat /\ \A r \in 1..Len(drafts): drafts[r] \in DraftRows
    BY <1>1, LenProperties
<1>3. Len(roles) \in Nat /\ \A v \in 1..Len(roles): roles[v] \in RoleRows
    BY <1>1, LenProperties
<1> QED BY <1>1, <1>2, <1>3 DEF D!TypeOK, HeldRows

\* A step of e that adds rows or confirms some leaves the others what they hold.
LEMMA HeldStep ==
    ASSUME DraftsInv, RolesGrow, DraftsGrow, Len(roles') \in Nat, Len(drafts') \in Nat, NEW e \in Editors,
           \A f \in Editors: f # e => at'[f] = at[f] /\ held'[f] = held[f],
           HeldTrue(e)'
    PROVE  \A f \in Editors: HeldTrue(f)'
<1>1. /\ Len(drafts) \in Nat /\ Len(roles) \in Nat
    BY RowsOfSequences DEF DraftsInv
<1>2. ASSUME NEW f \in Editors, f # e PROVE HeldTrue(f)'
  <2>1. HeldTrue(f) /\ at'[f] = at[f] /\ held'[f] = held[f]
      BY <1>2 DEF DraftsInv
  <2>2. 1..Len(roles) \subseteq 1..Len(roles') /\ 1..Len(drafts) \subseteq 1..Len(drafts')
      BY <1>1 DEF RolesGrow, DraftsGrow
  <2> QED BY <2>1, <2>2 DEF HeldTrue, RolesGrow, DraftsGrow
<1> QED BY <1>2

\* The answers stored, and the drafts and snapshots there are, stay right.
LEMMA AnswersStay ==
    ASSUME DraftsInv, RolesGrow, Len(roles') \in Nat
    PROVE  \A a \in answers: /\ a.role \in 1..Len(roles')
                             /\ a.op = "confirm" => a.on \in 1..Len(roles') /\ roles'[a.on].status = "confirmed"
<1>1. Len(roles) \in Nat
    BY RowsOfSequences DEF DraftsInv
<1>2. 1..Len(roles) \subseteq 1..Len(roles')
    BY <1>1 DEF RolesGrow
<1> QED BY <1>2 DEF DraftsInv, AnswersTrue, RolesGrow

LEMMA DraftRowFields ==
    ASSUME NEW c \in DraftRows, NEW t \in Texts
    PROVE  /\ [c EXCEPT !.text = t] \in DraftRows /\ [c EXCEPT !.text = t].role = c.role
           /\ [c EXCEPT !.text = t].status = c.status
           /\ [c EXCEPT !.status = "confirmed"] \in DraftRows /\ [c EXCEPT !.status = "confirmed"].role = c.role
           /\ [c EXCEPT !.status = "confirmed"].status = "confirmed"
BY DEF DraftRows

LEMMA RoleRowFields ==
    ASSUME NEW c \in RoleRows, NEW t \in Texts
    PROVE  /\ [c EXCEPT !.text = t] \in RoleRows /\ [c EXCEPT !.text = t].status = c.status
           /\ [c EXCEPT !.status = "confirmed"] \in RoleRows /\ [c EXCEPT !.status = "confirmed"].status = "confirmed"
BY DEF RoleRows

LEMMA HeldRowFields ==
    ASSUME NEW c \in HeldRows, NEW v \in 0..MaxDrafts
    PROVE  /\ [c EXCEPT !.role = v] \in HeldRows /\ [c EXCEPT !.role = v].role = v
           /\ [c EXCEPT !.role = v].text = c.text /\ [c EXCEPT !.role = v].draft = c.draft
BY DEF HeldRows

AnswerTyped(a) ==
    /\ a.op \in {"create", "update", "confirm"} /\ a.on \in 0..MaxDrafts
    /\ a.text \in Texts \cup {NoText} /\ a.role \in 1..MaxDrafts
AnswerTrue(a) ==
    /\ a.role \in 1..Len(roles)
    /\ a.op = "confirm" => a.on \in 1..Len(roles) /\ roles[a.on].status = "confirmed"

\* The parts of the invariant, and what it takes to restore it.
LEMMA DraftsInvParts ==
    DraftsInv <=>
        /\ drafts \in Seq(DraftRows) /\ roles \in Seq(RoleRows)
        /\ Bounded
        /\ \A a \in answers: AnswerTyped(a) /\ AnswerTrue(a)
        /\ snapshots \subseteq [role: 1..MaxDrafts, text: Texts]
        /\ at \in [Editors -> D!Steps] /\ held \in [Editors -> HeldRows]
        /\ SnapshotsOfRoles /\ ConfirmedInCore
        /\ \A e \in Editors: HeldTrue(e)
BY DEF DraftsInv, D!TypeOK, DraftRows, RoleRows, HeldRows, AnswerTyped, AnswerTrue, AnswersTrue

LEMMA EditorGoes ==
    ASSUME DraftsInv, NEW e \in Editors, NEW step \in D!Steps, NEW h \in HeldRows, D!Goes(e, step, h)
    PROVE  /\ at' \in [Editors -> D!Steps] /\ held' \in [Editors -> HeldRows]
           /\ at'[e] = step /\ held'[e] = h
           /\ \A f \in Editors: f # e => at'[f] = at[f] /\ held'[f] = held[f]
<1>1. at \in [Editors -> D!Steps] /\ held \in [Editors -> HeldRows]
    BY RowsOfSequences DEF DraftsInv
<1>2. at' = [at EXCEPT ![e] = step] /\ held' = [held EXCEPT ![e] = h]
    BY DEF D!Goes
<1> QED BY <1>1, <1>2

\* A step that changes no row.
LEMMA QuietEditor ==
    ASSUME DraftsInv, UNCHANGED D!rows, NEW e \in Editors, NEW step \in D!Steps, NEW h \in HeldRows,
           D!Goes(e, step, h), HeldTrue(e)'
    PROVE  DraftsInv'
<1>1. UNCHANGED <<drafts, roles, answers, snapshots>>
    BY DEF D!rows
<1>2. RolesGrow /\ DraftsGrow /\ Len(roles') \in Nat /\ Len(drafts') \in Nat
    BY <1>1, RowsOfSequences DEF DraftsInv, RolesGrow, DraftsGrow
<1>3. \A f \in Editors: HeldTrue(f)'
    BY <1>2, EditorGoes, HeldStep
<1>4. Bounded' /\ SnapshotsOfRoles' /\ ConfirmedInCore' /\ AnswersTrue'
    BY <1>1 DEF DraftsInv, SnapshotsOfRoles, Bounded, ConfirmedInCore, D!ConfirmedInCore, AnswersTrue
<1>5. D!TypeOK'
    BY <1>1, EditorGoes DEF DraftsInv, D!TypeOK, HeldRows
<1> QED BY <1>3, <1>4, <1>5 DEF DraftsInv

\* A step that changes the role versions, and stores its answer.
LEMMA RolesStep ==
    ASSUME DraftsInv, UNCHANGED <<drafts, snapshots>>, NEW e \in Editors, NEW step \in D!Steps,
           NEW h \in HeldRows, D!Goes(e, step, h), HeldTrue(e)',
           roles' \in Seq(RoleRows), Len(roles') <= MaxDrafts, RolesGrow,
           NEW a, answers' = answers \cup {a}, AnswerTyped(a), AnswerTrue(a)'
    PROVE  DraftsInv'
<1>1. Len(drafts) \in Nat /\ Len(roles) \in Nat
    BY RowsOfSequences DEF DraftsInv
<1>2. Len(roles') \in Nat /\ Len(drafts') \in Nat /\ DraftsGrow
    BY <1>1, LenProperties DEF DraftsGrow
<1>3. \A f \in Editors: HeldTrue(f)'
    BY <1>2, EditorGoes, HeldStep
<1>4. \A b \in answers': AnswerTyped(b) /\ AnswerTrue(b)'
  <2>1. \A b \in answers: AnswerTyped(b)
      BY DraftsInvParts
  <2>2. \A b \in answers: AnswerTrue(b)'
      BY <1>2, AnswersStay DEF AnswerTrue
  <2> QED BY <2>1, <2>2
<1>5. SnapshotsOfRoles' /\ ConfirmedInCore'
  <2>1. 1..Len(roles) \subseteq 1..Len(roles')
      BY <1>1, <1>2 DEF RolesGrow
  <2>2. /\ \A s \in snapshots: s.role \in 1..Len(roles) /\ roles[s.role].status = "confirmed"
        /\ \A r \in 1..Len(drafts): /\ drafts[r].role \in 1..Len(roles)
                                    /\ drafts[r].status = "confirmed" => roles[drafts[r].role].status = "confirmed"
      BY DEF DraftsInv, SnapshotsOfRoles, ConfirmedInCore, D!ConfirmedInCore
  <2> QED BY <2>1, <2>2 DEF SnapshotsOfRoles, ConfirmedInCore, D!ConfirmedInCore, RolesGrow
<1>6. at' \in [Editors -> D!Steps] /\ held' \in [Editors -> HeldRows]
    BY EditorGoes
<1>7. drafts' \in Seq(DraftRows) /\ Bounded' /\ snapshots' \subseteq [role: 1..MaxDrafts, text: Texts]
    BY DraftsInvParts DEF Bounded
<1> QED BY <1>3, <1>4, <1>5, <1>6, <1>7
        DEF DraftsInv, D!TypeOK, DraftRows, RoleRows, HeldRows, AnswerTyped, AnswerTrue, AnswersTrue

\* A step that changes the drafts.
LEMMA DraftsStep ==
    ASSUME DraftsInv, UNCHANGED <<roles, answers, snapshots>>, NEW e \in Editors, D!Ends(e), D!DraftsAssumption,
           drafts' \in Seq(DraftRows), Len(drafts') <= MaxDrafts, DraftsGrow,
           \A r \in 1..Len(drafts'):
               /\ drafts'[r].role \in 1..Len(roles)
               /\ drafts'[r].status = "confirmed" => roles[drafts'[r].role].status = "confirmed"
    PROVE  DraftsInv'
<1>1. Len(drafts) \in Nat /\ Len(roles) \in Nat
    BY RowsOfSequences DEF DraftsInv
<1>2. Len(roles') \in Nat /\ Len(drafts') \in Nat /\ RolesGrow
    BY <1>1, LenProperties DEF RolesGrow
<1>3. D!Goes(e, "idle", D!Nothing) /\ D!Nothing \in HeldRows /\ "idle" \in D!Steps
    BY DEF D!Ends, D!Nothing, HeldRows, D!DraftsAssumption, D!Steps
<1>4. HeldTrue(e)'
    BY <1>3, EditorGoes DEF HeldTrue
<1>5. \A f \in Editors: HeldTrue(f)'
    BY <1>2, <1>3, <1>4, EditorGoes, HeldStep
<1>6. SnapshotsOfRoles' /\ ConfirmedInCore'
    BY DEF DraftsInv, SnapshotsOfRoles, ConfirmedInCore, D!ConfirmedInCore
<1>7. \A a \in answers': AnswerTyped(a) /\ AnswerTrue(a)'
    BY DraftsInvParts DEF AnswerTrue
<1>8. at' \in [Editors -> D!Steps] /\ held' \in [Editors -> HeldRows]
    BY <1>3, EditorGoes
<1>9. roles' \in Seq(RoleRows) /\ Bounded' /\ snapshots' \subseteq [role: 1..MaxDrafts, text: Texts]
    BY DraftsInvParts DEF Bounded
<1> QED BY <1>5, <1>6, <1>7, <1>8, <1>9
        DEF DraftsInv, D!TypeOK, DraftRows, RoleRows, HeldRows, AnswerTyped, AnswerTrue, AnswersTrue

LEMMA DraftsStayTrue ==
    ASSUME D!DraftsAssumption, DraftsInv, [D!Next]_(D!vars)
    PROVE  DraftsInv'
<1>T. /\ drafts \in Seq(DraftRows) /\ Len(drafts) \in Nat /\ \A r \in 1..Len(drafts): drafts[r] \in DraftRows
      /\ roles \in Seq(RoleRows) /\ Len(roles) \in Nat /\ \A v \in 1..Len(roles): roles[v] \in RoleRows
      /\ at \in [Editors -> D!Steps] /\ held \in [Editors -> HeldRows]
      /\ snapshots \subseteq [role: 1..MaxDrafts, text: Texts]
    BY RowsOfSequences DEF DraftsInv
<1>B. Len(drafts) <= MaxDrafts /\ Len(roles) <= MaxDrafts /\ MaxDrafts \in Nat /\ NoText \notin Texts
    BY DEF DraftsInv, Bounded, D!DraftsAssumption
<1>I. 1..Len(drafts) \subseteq 1..MaxDrafts /\ 1..Len(roles) \subseteq 1..MaxDrafts
      /\ 0 \in 0..MaxDrafts /\ 1..MaxDrafts \subseteq 0..MaxDrafts
    BY <1>T, <1>B
<1>C. /\ \A r \in 1..Len(drafts):
            /\ drafts[r].role \in 1..Len(roles)
            /\ drafts[r].status = "confirmed" => roles[drafts[r].role].status = "confirmed"
      /\ \A r \in 1..Len(drafts): drafts[r].text \in Texts
      /\ \A v \in 1..Len(roles): roles[v].text \in Texts
    BY <1>T DEF DraftsInv, ConfirmedInCore, D!ConfirmedInCore, DraftRows, RoleRows
<1>H. \A e \in Editors: HeldTrue(e)
    BY DEF DraftsInv
<1>S. D!Steps = {"idle", "create", "created", "update", "updating", "updated",
                 "confirm", "confirming", "confirmed", "snapshot"}
    BY DEF D!Steps
\* What a request reads of the rows.
<1>1. ASSUME NEW e \in Editors, NEW step \in D!Steps, NEW d \in 0..MaxDrafts, NEW v \in 0..MaxDrafts,
             NEW t \in Texts \cup {NoText}, D!Reads(e, step, d, v, t),
             step \in {"create", "update", "snapshot"} => t \in Texts,
             step \in {"create", "update", "confirm", "snapshot"},
             step # "create" => v \in 1..Len(roles),
             step \in {"update", "confirm"} => d \in 1..Len(drafts),
             step = "confirm" => drafts[d].role = v,
             step = "snapshot" => roles[v].status = "confirmed"
      PROVE  DraftsInv'
  <2>1. PICK h \in HeldRows: h = [draft |-> d, role |-> v, text |-> t]
      BY DEF HeldRows
  <2>2. h.draft = d /\ h.role = v /\ h.text = t
      BY <2>1
  <2>3. D!Goes(e, step, h) /\ UNCHANGED D!rows
      BY <1>1, <2>1 DEF D!Reads
  <2>4. at'[e] = step /\ held'[e] = h /\ roles' = roles /\ drafts' = drafts
      BY <2>3, EditorGoes DEF D!rows
  <2>5. HeldTrue(e)'
      BY <1>1, <2>2, <2>4 DEF HeldTrue
  <2> QED BY <2>3, <2>5, QuietEditor
<1>2. ASSUME NEW e \in Editors, NEW t \in Texts, D!AskCreate(e, t) \/ D!AskUpdate(e, t) PROVE DraftsInv'
  <2>1. CASE D!AskCreate(e, t)
      BY <1>1, <1>I, <1>S, <2>1 DEF D!AskCreate
  <2>2. CASE D!AskUpdate(e, t)
    <3>1. Len(drafts) \in 1..Len(drafts)
        BY <2>2, <1>T DEF D!AskUpdate
    <3>2. D!Reads(e, "update", Len(drafts), drafts[Len(drafts)].role, t)
        BY <2>2 DEF D!AskUpdate, D!Current
    <3>3. drafts[Len(drafts)].role \in 1..Len(roles)
        BY <1>C, <3>1
    <3> QED BY <1>1, <1>I, <1>S, <3>1, <3>2, <3>3
  <2> QED BY <1>2, <2>1, <2>2
<1>3. ASSUME NEW e \in Editors, NEW r \in 1..Len(drafts), D!AskConfirm(e, r) PROVE DraftsInv'
  <2>1. drafts[r].role \in 1..Len(roles) /\ NoText \in Texts \cup {NoText}
      BY <1>C
  <2> QED BY <1>1, <1>3, <1>I, <1>S, <2>1 DEF D!AskConfirm
<1>4. ASSUME NEW e \in Editors, D!AskReopen(e) PROVE DraftsInv'
  <2>1. Len(drafts) \in 1..Len(drafts)
      BY <1>4, <1>T DEF D!AskReopen
  <2>2. D!Reads(e, "create", 0, 0, drafts[Len(drafts)].text) /\ drafts[Len(drafts)].text \in Texts
      BY <1>4, <1>C, <2>1 DEF D!AskReopen, D!Current
  <2> QED BY <1>1, <1>I, <1>S, <2>2
<1>5. ASSUME NEW e \in Editors, NEW v \in 1..Len(roles), D!AskSnapshot(e, v) PROVE DraftsInv'
    BY <1>1, <1>5, <1>C, <1>I, <1>S DEF D!AskSnapshot
\* Core Record.
<1>6. ASSUME NEW e \in Editors, D!CoreCreate(e) PROVE DraftsInv'
  <2>1. /\ at[e] = "create" /\ held[e].text \in Texts /\ held[e] \in HeldRows
      BY <1>6, <1>H, <1>T DEF D!CoreCreate, HeldTrue
  <2>2. ASSUME NEW v \in 1..MaxDrafts
        PROVE  LET h == [held[e] EXCEPT !.role = v] IN h \in HeldRows /\ h.role = v /\ h.text = held[e].text
      BY <1>I, <2>1, HeldRowFields
  <2>3. CASE D!Answered("create", 0, held[e].text) # {}
    <3>1. PICK a \in answers: D!Goes(e, "created", [held[e] EXCEPT !.role = a.role])
        BY <1>6, <2>3 DEF D!CoreCreate, D!Answered
    <3>2. a.role \in 1..Len(roles)
        BY DEF DraftsInv, AnswersTrue
    <3>3. PICK h \in HeldRows: h = [held[e] EXCEPT !.role = a.role] /\ h.role = a.role /\ h.text = held[e].text
        BY <1>I, <2>2, <3>2, ZenonT(60)
    <3>4. UNCHANGED D!rows
        BY <1>6, <2>3 DEF D!CoreCreate, D!rows
    <3>5. D!Goes(e, "created", h) /\ "created" \in D!Steps
        BY <1>S, <3>1, <3>3
    <3>6. at'[e] = "created" /\ held'[e] = h /\ roles' = roles
        BY <3>4, <3>5, EditorGoes DEF D!rows
    <3>7. HeldTrue(e)'
        BY <2>1, <3>2, <3>3, <3>6 DEF HeldTrue
    <3> QED BY <3>4, <3>5, <3>7, QuietEditor
  <2>4. CASE D!Answered("create", 0, held[e].text) = {}
    <3> DEFINE row == [status |-> "draft", text |-> held[e].text]
               n == Len(roles) + 1
    <3>1. row \in RoleRows
        BY <2>1 DEF RoleRows
    <3>2. roles' = Append(roles, row) /\ Len(roles) < MaxDrafts
        BY <1>6, <2>4 DEF D!CoreCreate
    <3>3. /\ roles' \in Seq(RoleRows) /\ Len(roles') = n
          /\ \A v \in 1..Len(roles): roles'[v] = roles[v]
        BY <1>T, <3>1, <3>2, AppendProperties
    <3>4. n \in 1..MaxDrafts /\ RolesGrow /\ n \in 1..Len(roles')
        BY <1>T, <1>B, <3>2, <3>3 DEF RolesGrow
    <3>5. PICK h \in HeldRows: h = [held[e] EXCEPT !.role = n] /\ h.role = n /\ h.text = held[e].text
        BY <2>2, <3>4
    <3>6. PICK a: a = [op |-> "create", on |-> 0, text |-> held[e].text, role |-> n]
        OBVIOUS
    <3>7. D!Goes(e, "created", h) /\ "created" \in D!Steps /\ answers' = answers \cup {a}
          /\ UNCHANGED <<drafts, snapshots>>
        BY <1>6, <1>S, <2>4, <3>3, <3>5, <3>6 DEF D!CoreCreate, D!Answers
    <3>8. at'[e] = "created" /\ held'[e] = h
        BY <3>7, EditorGoes
    <3>9. HeldTrue(e)'
        BY <2>1, <3>4, <3>5, <3>8 DEF HeldTrue
    <3>10. AnswerTyped(a) /\ AnswerTrue(a)'
        BY <1>I, <2>1, <3>4, <3>6 DEF AnswerTyped, AnswerTrue
    <3>11. Len(roles') <= MaxDrafts
        BY <1>T, <1>B, <3>2, <3>3
    <3> QED BY <3>3, <3>4, <3>7, <3>9, <3>10, <3>11, RolesStep
  <2> QED BY <2>3, <2>4
<1>7. ASSUME NEW e \in Editors, D!CoreLook(e) PROVE DraftsInv'
  <2>1. D!Goes(e, "updating", held[e]) /\ UNCHANGED D!rows /\ "updating" \in D!Steps /\ held[e] \in HeldRows
      BY <1>7, <1>S, <1>T DEF D!CoreLook
  <2>2. at'[e] = "updating" /\ held'[e] = held[e] /\ roles' = roles /\ drafts' = drafts
      BY <2>1, EditorGoes DEF D!rows
  <2>3. HeldTrue(e)'
      BY <1>7, <1>H, <2>2 DEF D!CoreLook, HeldTrue
  <2> QED BY <2>1, <2>3, QuietEditor
\* A request that Core Record answers keeps what it holds.
<1>8. ASSUME NEW e \in Editors, NEW step \in {"updated", "confirmed"}, D!Goes(e, step, held[e]),
             UNCHANGED D!rows, at[e] = (IF step = "updated" THEN "updating" ELSE "confirm"),
             step = "confirmed" => roles[held[e].role].status = "confirmed"
      PROVE  DraftsInv'
  <2>1. step \in D!Steps /\ held[e] \in HeldRows
      BY <1>S, <1>T
  <2>2. at'[e] = step /\ held'[e] = held[e] /\ roles' = roles /\ drafts' = drafts
      BY <1>8, <2>1, EditorGoes DEF D!rows
  <2>3. HeldTrue(e)'
      BY <1>8, <1>H, <2>2 DEF HeldTrue
  <2> QED BY <1>8, <2>1, <2>3, QuietEditor
\* A request that edits the version v it holds.
<1>9. ASSUME NEW e \in Editors, NEW step \in {"updated", "confirmed"}, D!Goes(e, step, held[e]),
             UNCHANGED <<drafts, snapshots>>, at[e] = (IF step = "updated" THEN "updating" ELSE "confirm"),
             NEW v \in 1..Len(roles), v = held[e].role, NEW c \in RoleRows, roles' = [roles EXCEPT ![v] = c],
             roles[v].status = "confirmed" => c.status = "confirmed",
             step = "confirmed" => c.status = "confirmed",
             NEW a, answers' = answers \cup {a}, AnswerTyped(a), a.role = v, a.op = "confirm" => step = "confirmed" /\ a.on = v
      PROVE  DraftsInv'
  <2>1. step \in D!Steps /\ held[e] \in HeldRows
      BY <1>S, <1>T
  <2>2. /\ roles' \in Seq(RoleRows) /\ Len(roles') = Len(roles)
        /\ \A w \in 1..Len(roles): roles'[w] = IF w = v THEN c ELSE roles[w]
      BY <1>9, <1>T, ExceptSeq
  <2>3. RolesGrow
      BY <1>9, <1>T, <2>2 DEF RolesGrow
  <2>4. at'[e] = step /\ held'[e] = held[e]
      BY <1>9, <2>1, EditorGoes
  <2>5. HeldTrue(e)'
      BY <1>9, <1>H, <2>2, <2>4 DEF HeldTrue
  <2>6. AnswerTrue(a)'
      BY <1>9, <2>2 DEF AnswerTrue
  <2>7. Len(roles') <= MaxDrafts
      BY <1>B, <2>2
  <2> QED BY <1>9, <2>1, <2>2, <2>3, <2>5, <2>6, <2>7, RolesStep
<1>10. ASSUME NEW e \in Editors, D!CoreUpdate(e) PROVE DraftsInv'
  <2>1. at[e] = "updating" /\ held[e].role \in 1..Len(roles) /\ held[e].text \in Texts
      BY <1>10, <1>H DEF D!CoreUpdate, HeldTrue
  <2>2. CASE D!Answered("update", held[e].role, held[e].text) # {}
      BY <1>8, <1>10, <2>1, <2>2 DEF D!CoreUpdate, D!rows
  <2>3. CASE D!Answered("update", held[e].role, held[e].text) = {}
    <3>1. PICK v \in 1..Len(roles): v = held[e].role
        BY <2>1
    <3>2. PICK c \in RoleRows: c = [roles[v] EXCEPT !.text = held[e].text] /\ c.status = roles[v].status
        BY <1>T, <2>1, RoleRowFields, ZenonT(60)
    <3>3. PICK a: a = [op |-> "update", on |-> v, text |-> held[e].text, role |-> v]
        OBVIOUS
    <3>4. /\ D!Goes(e, "updated", held[e]) /\ UNCHANGED <<drafts, snapshots>>
          /\ roles' = [roles EXCEPT ![v] = c] /\ answers' = answers \cup {a}
        BY <1>10, <2>3, <3>1, <3>2, <3>3 DEF D!CoreUpdate, D!Answers
    <3>5. AnswerTyped(a) /\ a.role = v /\ a.op # "confirm"
        BY <1>I, <2>1, <3>3 DEF AnswerTyped
    <3> QED BY <1>9, <2>1, <3>1, <3>2, <3>4, <3>5
  <2> QED BY <2>2, <2>3
<1>11. ASSUME NEW e \in Editors, D!CoreConfirm(e) PROVE DraftsInv'
  <2>1. at[e] = "confirm" /\ held[e].role \in 1..Len(roles) /\ NoText \in Texts \cup {NoText}
      BY <1>11, <1>H DEF D!CoreConfirm, HeldTrue
  <2>2. PICK v \in 1..Len(roles): v = held[e].role
      BY <2>1
  <2>3. CASE D!Answered("confirm", v, NoText) # {} \/ roles[v].status = "confirmed"
    <3>1. roles[v].status = "confirmed"
        BY <2>3 DEF D!Answered, DraftsInv, AnswersTrue
    <3> QED BY <1>8, <1>11, <2>1, <2>2, <2>3, <3>1 DEF D!CoreConfirm, D!rows
  <2>4. CASE ~(D!Answered("confirm", v, NoText) # {} \/ roles[v].status = "confirmed")
    <3>1. roles[v] \in RoleRows /\ roles[v].text \in Texts
        BY <1>C, <1>T
    <3>2. PICK c \in RoleRows: c = [roles[v] EXCEPT !.status = "confirmed"] /\ c.status = "confirmed"
        BY <3>1, RoleRowFields
    <3>3. PICK a: a = [op |-> "confirm", on |-> v, text |-> NoText, role |-> v]
        OBVIOUS
    <3>4. /\ D!Goes(e, "confirmed", held[e]) /\ UNCHANGED <<drafts, snapshots>>
          /\ roles' = [roles EXCEPT ![v] = c] /\ answers' = answers \cup {a}
        BY <1>11, <2>2, <2>4, <3>2, <3>3 DEF D!CoreConfirm, D!Answers
    <3>5. AnswerTyped(a) /\ a.role = v /\ a.on = v
        BY <1>I, <2>1, <3>3 DEF AnswerTyped
    <3> QED BY <1>9, <2>1, <2>2, <3>2, <3>4, <3>5
  <2> QED BY <2>3, <2>4
\* JD's rows, snapshots, failures.
<1>12. ASSUME NEW e \in Editors, D!JdCreate(e) PROVE DraftsInv'
  <2>1. held[e].text \in Texts /\ held[e].role \in 1..Len(roles) /\ Len(drafts) < MaxDrafts
      BY <1>12, <1>H DEF D!JdCreate, HeldTrue
  <2>2. PICK c \in DraftRows: c = [status |-> "draft", text |-> held[e].text, role |-> held[e].role]
      BY <1>I, <2>1 DEF DraftRows
  <2>3. drafts' = Append(drafts, c) /\ UNCHANGED <<roles, answers, snapshots>> /\ D!Ends(e)
      BY <1>12, <2>2 DEF D!JdCreate
  <2>4. /\ drafts' \in Seq(DraftRows) /\ Len(drafts') = Len(drafts) + 1
        /\ \A r \in 1..Len(drafts): drafts'[r] = drafts[r]
        /\ drafts'[Len(drafts) + 1] = c
      BY <1>T, <2>3, AppendProperties
  <2>5. \A r \in 1..Len(drafts'): r \in 1..Len(drafts) \/ r = Len(drafts) + 1
      BY <1>T, <2>4
  <2>6. Len(drafts') <= MaxDrafts /\ DraftsGrow
      BY <1>T, <1>B, <2>1, <2>4 DEF DraftsGrow
  <2>7. c.role \in 1..Len(roles) /\ c.status # "confirmed"
      BY <2>1, <2>2
  <2>8. \A r \in 1..Len(drafts'): /\ drafts'[r].role \in 1..Len(roles)
                                  /\ drafts'[r].status = "confirmed" => roles[drafts'[r].role].status = "confirmed"
      BY <1>C, <2>4, <2>5, <2>7
  <2> QED BY <2>3, <2>4, <2>6, <2>8, DraftsStep
<1>13. ASSUME NEW e \in Editors, NEW r \in 1..Len(drafts), NEW c \in DraftRows, drafts' = [drafts EXCEPT ![r] = c],
              c.role = drafts[r].role,
              c.status = "confirmed" => drafts[r].status = "confirmed" \/ roles[c.role].status = "confirmed",
              D!Ends(e), UNCHANGED <<roles, answers, snapshots>>
       PROVE  DraftsInv'
  <2>1. /\ drafts' \in Seq(DraftRows) /\ Len(drafts') = Len(drafts)
        /\ \A q \in 1..Len(drafts): drafts'[q] = IF q = r THEN c ELSE drafts[q]
      BY <1>13, <1>T, ExceptSeq
  <2>2. DraftsGrow /\ Len(drafts') <= MaxDrafts
      BY <1>13, <1>B, <1>T, <2>1 DEF DraftsGrow
  <2>3. \A q \in 1..Len(drafts'): /\ drafts'[q].role \in 1..Len(roles)
                                  /\ drafts'[q].status = "confirmed" => roles[drafts'[q].role].status = "confirmed"
      BY <1>13, <1>C, <2>1
  <2> QED BY <1>13, <2>1, <2>2, <2>3, DraftsStep
<1>14. ASSUME NEW e \in Editors, D!JdUpdate(e) PROVE DraftsInv'
  <2>1. held[e].text \in Texts /\ held[e].draft \in 1..Len(drafts)
      BY <1>14, <1>H DEF D!JdUpdate, HeldTrue
  <2>2. PICK r \in 1..Len(drafts): r = held[e].draft
      BY <2>1
  <2>3. PICK c \in DraftRows: /\ c = [drafts[r] EXCEPT !.text = held[e].text]
                              /\ c.role = drafts[r].role /\ c.status = drafts[r].status
      BY <1>T, <2>1, DraftRowFields, ZenonT(60)
  <2>4. drafts' = [drafts EXCEPT ![r] = c] /\ UNCHANGED <<roles, answers, snapshots>> /\ D!Ends(e)
      BY <1>14, <2>2, <2>3 DEF D!JdUpdate
  <2> QED BY <1>13, <2>3, <2>4
<1>15. ASSUME NEW e \in Editors, D!JdConfirm(e) PROVE DraftsInv'
  <2>1. /\ held[e].draft \in 1..Len(drafts) /\ drafts[held[e].draft].role = held[e].role
        /\ roles[held[e].role].status = "confirmed"
      BY <1>15, <1>H DEF D!JdConfirm, HeldTrue
  <2>2. PICK r \in 1..Len(drafts): r = held[e].draft
      BY <2>1
  <2>3. drafts[r] \in DraftRows /\ drafts[r].text \in Texts
      BY <1>C, <1>T
  <2>4. PICK c \in DraftRows: c = [drafts[r] EXCEPT !.status = "confirmed"] /\ c.role = drafts[r].role
      BY <2>3, DraftRowFields
  <2>5. drafts' = [drafts EXCEPT ![r] = c] /\ UNCHANGED <<roles, answers, snapshots>> /\ D!Ends(e)
      BY <1>15, <2>2, <2>4 DEF D!JdConfirm
  <2> QED BY <1>13, <2>1, <2>2, <2>4, <2>5
<1>16. ASSUME NEW e \in Editors, D!Ends(e), UNCHANGED <<drafts, roles, answers>>,
              \/ UNCHANGED snapshots
              \/ \E s \in [role: 1..MaxDrafts, text: Texts]:
                     /\ s.role \in 1..Len(roles) /\ roles[s.role].status = "confirmed"
                     /\ snapshots' = snapshots \cup {s}
       PROVE  DraftsInv'
  <2>1. D!Goes(e, "idle", D!Nothing) /\ D!Nothing \in HeldRows /\ "idle" \in D!Steps
      BY <1>16 DEF D!Ends, D!Nothing, HeldRows, D!DraftsAssumption, D!Steps
  <2>2. at'[e] = "idle" /\ at' \in [Editors -> D!Steps] /\ held' \in [Editors -> HeldRows]
        /\ \A f \in Editors: f # e => at'[f] = at[f] /\ held'[f] = held[f]
      BY <2>1, EditorGoes
  <2>3. \A f \in Editors: HeldTrue(f)'
      BY <1>16, <1>H, <2>2 DEF HeldTrue
  <2>4. /\ snapshots' \subseteq [role: 1..MaxDrafts, text: Texts]
        /\ \A s \in snapshots': s.role \in 1..Len(roles) /\ roles[s.role].status = "confirmed"
      BY <1>16, <1>T DEF DraftsInv, SnapshotsOfRoles, ConfirmedInCore, D!ConfirmedInCore
  <2>5. SnapshotsOfRoles' /\ ConfirmedInCore'
      BY <1>16, <1>C, <2>4 DEF SnapshotsOfRoles, ConfirmedInCore, D!ConfirmedInCore
  <2>6. Bounded' /\ AnswersTrue'
      BY <1>16 DEF DraftsInv, Bounded, AnswersTrue
  <2>7. D!TypeOK'
      BY <1>16, <2>2, <2>4 DEF DraftsInv, D!TypeOK, HeldRows
  <2> QED BY <2>3, <2>5, <2>6, <2>7 DEF DraftsInv
<1>17. ASSUME NEW e \in Editors, D!CoreSnapshot(e) PROVE DraftsInv'
  <2>1. held[e].role \in 1..Len(roles) /\ roles[held[e].role].status = "confirmed" /\ held[e].text \in Texts
      BY <1>17, <1>H DEF D!CoreSnapshot, HeldTrue
  <2>2. PICK s \in [role: 1..MaxDrafts, text: Texts]: s = [role |-> held[e].role, text |-> held[e].text]
      BY <1>I, <2>1
  <2> QED BY <1>16, <1>17, <2>1, <2>2 DEF D!CoreSnapshot
<1>18. ASSUME NEW e \in Editors, D!Fail(e) PROVE DraftsInv'
    BY <1>16, <1>18 DEF D!Fail, D!rows
<1>19. CASE UNCHANGED D!vars
  <2>1. UNCHANGED <<drafts, roles, answers, snapshots, at, held>>
      BY <1>19 DEF D!vars, D!rows
  <2> QED BY <2>1 DEF DraftsInv, D!TypeOK, Bounded, AnswersTrue, SnapshotsOfRoles, ConfirmedInCore,
             D!ConfirmedInCore, HeldTrue
<1> QED BY <1>2, <1>3, <1>4, <1>5, <1>6, <1>7, <1>10, <1>11, <1>12, <1>14, <1>15, <1>17, <1>18, <1>19 DEF D!Next

LEMMA DraftsAlways == D!DraftsAssumption => (D!Spec => []DraftsInv)
<1> SUFFICES ASSUME D!DraftsAssumption PROVE D!Spec => []DraftsInv
    OBVIOUS
<1>1. D!Init => DraftsInv
  <2> SUFFICES ASSUME D!Init PROVE DraftsInv
      OBVIOUS
  <2> USE DEF D!Init, D!DraftsAssumption
  <2>1. D!TypeOK
      BY DEF D!TypeOK, D!Nothing, D!Steps
  <2> QED BY <2>1 DEF DraftsInv, Bounded, AnswersTrue, SnapshotsOfRoles, ConfirmedInCore, D!ConfirmedInCore, HeldTrue
<1>2. DraftsInv /\ [D!Next]_(D!vars) => DraftsInv'
    BY DraftsStayTrue
<1> QED BY <1>1, <1>2, PTL DEF D!Spec

\* What JD shows as confirmed is confirmed in Core Record, and every draft and
\* snapshot has its version there, wherever requests fail between the two services.
THEOREM ConfirmedThere == D!DraftsAssumption => (D!Spec => []ConfirmedInCore)
<1> SUFFICES ASSUME D!DraftsAssumption PROVE D!Spec => []ConfirmedInCore
    OBVIOUS
<1>1. DraftsInv => ConfirmedInCore
    BY DEF DraftsInv
<1>2. D!Spec => []DraftsInv
    BY DraftsAlways
<1> QED BY <1>1, <1>2, PTL
=============================================================================
