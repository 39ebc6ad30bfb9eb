--------------------------------- MODULE JdProofs ---------------------------------
(***************************************************************************)
(* Proofs about jobs and their documents: intake (JdIntake), publication   *)
(* (JdPublishing) and editing (DocumentEditing), for any number of         *)
(* requests, people, windows, texts and revisions.                         *)
(***************************************************************************)
EXTENDS Jd, SequenceTheorems, TLAPS

-----------------------------------------------------------------------------
(***************************************************************************)
(* Intake.  A source row names a job that was made for its text and has    *)
(* its draft, and as long as a job that a request was answered with, or    *)
(* has found, is live, the row of the text names that job: it is deleted   *)
(* only when the job was seen deleted, and never written over.             *)
(***************************************************************************)
Made(r, t) == /\ r \in Requests
              /\ r \in drafted
              /\ TextOf[r] = t
              /\ jobs[r] # "none"

Resolves(r, t) == Made(r, t) /\ (jobs[r] = "live" => source[t] = r)

IntakeInv ==
    /\ I!TypeOK
    /\ \A t \in Pasted: source[t] # NoRequest => Made(source[t], t)
    /\ \A r \in Requests:
        /\ told[r] # NoRequest => Resolves(told[r], TextOf[r])
        /\ stage[r] \in {"found", "winner"} => Resolves(found[r], TextOf[r])
        /\ stage[r] = "drafted" => Made(r, TextOf[r])
        /\ r \in drafted => jobs[r] # "none"

LEMMA IntakeStep == I!IntakeAssumption /\ IntakeInv /\ [I!Next]_(I!vars) => IntakeInv'
<1> SUFFICES ASSUME I!IntakeAssumption, IntakeInv, [I!Next]_(I!vars) PROVE IntakeInv'
    OBVIOUS
<1> USE DEF I!IntakeAssumption, IntakeInv, I!TypeOK, Made, Resolves, I!At, I!Goes, I!Forgets
<1>1. ASSUME NEW r \in Requests, I!FindSource(r) PROVE IntakeInv'
    BY <1>1 DEF I!FindSource
<1>2. ASSUME NEW r \in Requests, I!AnswerDuplicate(r) PROVE IntakeInv'
    BY <1>2 DEF I!AnswerDuplicate
<1>3. ASSUME NEW r \in Requests, I!ForgetSource(r) PROVE IntakeInv'
    BY <1>3 DEF I!ForgetSource
<1>4. ASSUME NEW r \in Requests, I!CreateJob(r) PROVE IntakeInv'
    BY <1>4 DEF I!CreateJob
<1>5. ASSUME NEW r \in Requests, I!CreateDraft(r) PROVE IntakeInv'
    BY <1>5 DEF I!CreateDraft
<1>6. ASSUME NEW r \in Requests, I!CreateSource(r) PROVE IntakeInv'
    BY <1>6 DEF I!CreateSource
<1>7. ASSUME NEW r \in Requests, I!LoseSource(r) PROVE IntakeInv'
    BY <1>7 DEF I!LoseSource
<1>8. ASSUME NEW r \in Requests, I!Fail(r) PROVE IntakeInv'
    BY <1>8 DEF I!Fail
<1>9. ASSUME NEW r \in Requests, I!DeleteJob(r) PROVE IntakeInv'
    BY <1>9 DEF I!DeleteJob
<1>10. CASE UNCHANGED I!vars
    BY <1>10 DEF I!vars
<1> QED BY <1>1, <1>2, <1>3, <1>4, <1>5, <1>6, <1>7, <1>8, <1>9, <1>10 DEF I!Next

\* However requests with the same text race, fail, are repeated or find their job
\* deleted, they are all answered with one live job, and it has its draft.
THEOREM TextsResolve == I!IntakeAssumption => (I!Spec => []OneJobPerText)
<1> SUFFICES ASSUME I!IntakeAssumption PROVE I!Spec => []OneJobPerText
    OBVIOUS
<1>1. I!Init => IntakeInv
    BY DEF I!IntakeAssumption, I!Init, IntakeInv, I!TypeOK
<1>2. IntakeInv /\ [I!Next]_(I!vars) => IntakeInv'
    BY IntakeStep
<1>3. IntakeInv => OneJobPerText
    BY DEF IntakeInv, OneJobPerText, I!OneJobPerText, Resolves, Made
<1> QED BY <1>1, <1>2, <1>3, PTL DEF I!Spec

-----------------------------------------------------------------------------
(***************************************************************************)
(* Publication.  A revision names one text as long as the migration has    *)
(* not deleted the document: whoever holds a revision that is the          *)
(* document's own holds its text.  A publication passes its gates on one   *)
(* row, so that what it takes to the lock was reviewed and analysed.       *)
(***************************************************************************)
SomeTexts == Texts \cup {NoText}
VersionRows == [text: Texts, baseline: BOOLEAN, reviewed: SomeTexts, analysed: SomeTexts]

\* What a row read of the document has to do with the document; gone: it was
\* deleted once.
RowOK(row, now, gone) ==
    /\ row.revision \in Nat /\ row.text \in SomeTexts
    /\ row.revision > 0 => row.text \in Texts
    /\ ~gone => /\ row.revision <= now.revision
                /\ row.revision = now.revision => row.text = now.text

\* What a handler holds, by where it is.
HeldOK(at, read, now, gone) ==
    /\ at = "analyzing" => RowOK(read.row, now, gone)
    /\ at \in {"reviewed", "opened", "from document", "from draft"} => read.row.text \in Texts
    /\ at \in {"reviewed", "opened"} =>
        /\ read.reviewed \in SomeTexts /\ read.analysed \in SomeTexts
        /\ ~gone => read.reviewed = read.row.text /\ read.analysed = read.row.text

VersionOK(v, gone) == gone \/ v.baseline \/ (v.reviewed = v.text /\ v.analysed = v.text)

PublishingInv ==
    /\ removed \in BOOLEAN
    /\ RowOK(doc, doc, removed)
    /\ RowOK(analysis, doc, removed)
    /\ DOMAIN view = People /\ \A p \in People: RowOK(view[p], doc, removed)
    /\ DOMAIN pc = Handlers /\ DOMAIN saw = Handlers
    /\ \A h \in Handlers: HeldOK(pc[h], saw[h], doc, removed)
    /\ versions \in Seq(VersionRows)
    /\ \A i \in 1..Len(versions): VersionOK(versions[i], removed)

LEMMA OneVersionMore ==
    ASSUME versions \in Seq(VersionRows), NEW v \in VersionRows, VersionOK(v, removed),
           \A i \in 1..Len(versions): VersionOK(versions[i], removed)
    PROVE  /\ Append(versions, v) \in Seq(VersionRows)
           /\ \A i \in 1..Len(Append(versions, v)): VersionOK(Append(versions, v)[i], removed)
<1> DEFINE more == Append(versions, v)
<1>1. /\ more \in Seq(VersionRows) /\ Len(more) = Len(versions) + 1 /\ more[Len(versions) + 1] = v
      /\ \A i \in 1..Len(versions): more[i] = versions[i]
    OBVIOUS
<1>2. Len(versions) \in Nat
    OBVIOUS
<1> HIDE DEF more
<1>3. ASSUME NEW i \in 1..Len(more) PROVE VersionOK(more[i], removed)
  <2>1. i \in 1..Len(versions) \/ i = Len(versions) + 1
      BY <1>1, <1>2
  <2>2. CASE i \in 1..Len(versions)
      BY <2>2, <1>1
  <2>3. CASE i = Len(versions) + 1
      BY <2>3, <1>1
  <2> QED BY <2>1, <2>2, <2>3
<1> QED BY <1>1, <1>3 DEF more

LEMMA PublishingStep == PublishingInv /\ [Next]_vars => PublishingInv'
<1> SUFFICES ASSUME PublishingInv, [Next]_vars PROVE PublishingInv'
    OBVIOUS
<1> USE DEF Handlers
\* A handler moves on, or ends, with what it has read.
<1>1. ASSUME NEW h \in Handlers, NEW at, NEW read, Goes(h, at, read), HeldOK(at, read, doc, removed),
             UNCHANGED <<doc, analysis, versions, view, removed>>
      PROVE  PublishingInv'
  <2>1. DOMAIN pc' = Handlers /\ DOMAIN saw' = Handlers
      BY <1>1 DEF Goes, PublishingInv
  <2>2. ASSUME NEW g \in Handlers PROVE HeldOK(pc'[g], saw'[g], doc', removed')
      BY <1>1 DEF Goes, PublishingInv
  <2> QED BY <1>1, <2>1, <2>2 DEF PublishingInv
<1>2. \A now, gone: HeldOK("idle", Nothing, now, gone)
    BY DEF HeldOK
\* The document changes: what is read of it stays as good, or better.
<1>3. ASSUME NEW now, doc' = now, now.revision \in Nat, now.text \in Texts,
             now.revision > doc.revision, UNCHANGED removed
      PROVE  /\ RowOK(doc', doc', removed')
             /\ \A row: RowOK(row, doc, removed) => RowOK(row, doc', removed')
             /\ \A at, read: HeldOK(at, read, doc, removed) => HeldOK(at, read, doc', removed')
  <2>1. doc.revision \in Nat
      BY DEF PublishingInv, RowOK
  <2>2. RowOK(doc', doc', removed')
      BY <1>3 DEF RowOK, SomeTexts
  <2>3. \A row: RowOK(row, doc, removed) => RowOK(row, doc', removed')
      BY <1>3, <2>1 DEF RowOK
  <2> QED BY <1>3, <2>2, <2>3 DEF HeldOK
<1>4. ASSUME NEW p \in People, Load(p) PROVE PublishingInv'
  <2>1. view' = [view EXCEPT ![p] = doc] /\ UNCHANGED <<doc, analysis, versions, pc, saw, removed>>
      BY <1>4 DEF Load
  <2>2. DOMAIN view' = People /\ \A q \in People: RowOK(view'[q], doc, removed)
      BY <2>1 DEF PublishingInv
  <2> QED BY <2>1, <2>2 DEF PublishingInv
<1>5. ASSUME NEW p \in People, NEW t \in Texts, NEW unkept \in BOOLEAN, NEW based \in BOOLEAN,
             Save(p, t, unkept, based)
      PROVE  PublishingInv'
  <2> DEFINE now == [revision |-> doc.revision + 1, text |-> t, unkept |-> unkept, migrated |-> FALSE]
  <2>1. /\ doc' = now /\ analysis' = NoAnalysis /\ view' = [view EXCEPT ![p] = now]
        /\ UNCHANGED <<versions, pc, saw, removed>>
      BY <1>5 DEF Save
  <2>2. doc.revision \in Nat
      BY DEF PublishingInv, RowOK
  <2>3. now.revision \in Nat /\ now.text \in Texts /\ now.revision > doc.revision /\ now.revision > 0
      BY <2>2
  <2> HIDE DEF now
  <2>4. /\ RowOK(now, now, removed')
        /\ \A row: RowOK(row, doc, removed) => RowOK(row, now, removed')
        /\ \A at, read: HeldOK(at, read, doc, removed) => HeldOK(at, read, now, removed')
      BY <1>3, <2>1, <2>3
  <2>5. RowOK(analysis', now, removed')
      BY <2>1, <2>3 DEF RowOK, NoAnalysis, SomeTexts
  <2>6. DOMAIN view' = People /\ \A q \in People: RowOK(view'[q], now, removed')
      BY <2>1, <2>4 DEF PublishingInv
  <2>7. \A h \in Handlers: HeldOK(pc'[h], saw'[h], now, removed')
      BY <2>1, <2>4 DEF PublishingInv
  <2> QED BY <2>1, <2>4, <2>5, <2>6, <2>7 DEF PublishingInv
<1>6. ASSUME NEW p \in People, Analyze(p) PROVE PublishingInv'
  <2> DEFINE read == Read(doc, NoText, NoText)
  <2>1. Goes(p, "analyzing", read) /\ UNCHANGED <<doc, analysis, versions, view, removed>>
      BY <1>6 DEF Analyze
  <2>2. HeldOK("analyzing", read, doc, removed)
      BY DEF HeldOK, Read, PublishingInv
  <2> HIDE DEF read
  <2> QED BY <2>1, <2>2, <1>1
<1>7. ASSUME NEW p \in People, NEW ready \in BOOLEAN, StoreAnalysis(p, ready) PROVE PublishingInv'
  <2>1. /\ Goes(p, "idle", Nothing) /\ UNCHANGED <<doc, versions, view, removed>>
        /\ analysis' = [revision |-> saw[p].row.revision, ready |-> ready, text |-> saw[p].row.text]
      BY <1>7 DEF StoreAnalysis, Ends
  <2>2. RowOK(saw[p].row, doc, removed)
      BY <1>7 DEF StoreAnalysis, PublishingInv, HeldOK
  <2>3. RowOK(analysis', doc, removed)
      BY <2>1, <2>2 DEF RowOK
  <2>4. DOMAIN pc' = Handlers /\ DOMAIN saw' = Handlers
      BY <2>1 DEF Goes, PublishingInv
  <2>5. ASSUME NEW g \in Handlers PROVE HeldOK(pc'[g], saw'[g], doc, removed)
      BY <2>1, <1>2 DEF Goes, PublishingInv
  <2> QED BY <2>1, <2>3, <2>4, <2>5 DEF PublishingInv
<1>8. ASSUME NEW p \in People, Publish(p) PROVE PublishingInv'
  <2> DEFINE read == Read(doc, view[p].text, analysis.text)
  <2>1. Goes(p, "reviewed", read) /\ UNCHANGED <<doc, analysis, versions, view, removed>>
      BY <1>8 DEF Publish
  <2>2. doc.revision > 0 /\ view[p].revision = doc.revision /\ analysis.revision = doc.revision
      BY <1>8 DEF Publish, Saved
  <2>3. HeldOK("reviewed", read, doc, removed)
    <3>1. doc.text \in Texts /\ view[p].text \in SomeTexts /\ analysis.text \in SomeTexts
        BY <2>2 DEF PublishingInv, RowOK
    <3>2. ~removed => view[p].text = doc.text /\ analysis.text = doc.text
        BY <2>2 DEF PublishingInv, RowOK
    <3> QED BY <3>1, <3>2 DEF HeldOK, Read
  <2> HIDE DEF read
  <2> QED BY <2>1, <2>3, <1>1
<1>9. ASSUME NEW p \in People, OpenJob(p) PROVE PublishingInv'
  <2>1. Goes(p, "opened", saw[p]) /\ UNCHANGED <<doc, analysis, versions, view, removed>> /\ pc[p] = "reviewed"
      BY <1>9 DEF OpenJob
  <2>2. HeldOK("opened", saw[p], doc, removed)
      BY <2>1 DEF PublishingInv, HeldOK
  <2> QED BY <2>1, <2>2, <1>1
<1>10. ASSUME NEW p \in People, WriteVersion(p) PROVE PublishingInv'
  <2>1. /\ Goes(p, "idle", Nothing) /\ UNCHANGED <<doc, analysis, view, removed>>
        /\ versions' = Append(versions, NewVersion(p)) /\ pc[p] = "opened"
      BY <1>10 DEF WriteVersion, Ends
  <2>2. NewVersion(p) \in VersionRows /\ VersionOK(NewVersion(p), removed)
      BY <2>1 DEF PublishingInv, HeldOK, NewVersion, VersionRows, VersionOK
  <2>3. /\ versions' \in Seq(VersionRows)
        /\ \A i \in 1..Len(versions'): VersionOK(versions'[i], removed)
      BY <2>1, <2>2, OneVersionMore DEF PublishingInv
  <2>4. DOMAIN pc' = Handlers /\ DOMAIN saw' = Handlers
      BY <2>1 DEF Goes, PublishingInv
  <2>5. ASSUME NEW g \in Handlers PROVE HeldOK(pc'[g], saw'[g], doc, removed)
      BY <2>1, <1>2 DEF Goes, PublishingInv
  <2> QED BY <2>1, <2>3, <2>4, <2>5 DEF PublishingInv
<1>11. ASSUME NEW m \in Migrators, LookForBaseline(m) PROVE PublishingInv'
  <2>1. UNCHANGED <<doc, analysis, versions, view, removed>>
      BY <1>11 DEF LookForBaseline
  <2>2. CASE Saved /\ Goes(m, "from document", Read(doc, NoText, NoText))
    <3>1. HeldOK("from document", Read(doc, NoText, NoText), doc, removed)
        BY <2>2 DEF Saved, HeldOK, Read, PublishingInv, RowOK
    <3> QED BY <2>1, <2>2, <3>1, <1>1
  <2>3. ASSUME NEW t \in Texts, Goes(m, "from draft", Read([NoRow EXCEPT !.text = t], NoText, NoText))
        PROVE  PublishingInv'
    <3>1. HeldOK("from draft", Read([NoRow EXCEPT !.text = t], NoText, NoText), doc, removed)
        BY DEF HeldOK, Read, NoRow
    <3> QED BY <2>1, <2>3, <3>1, <1>1
  <2> QED BY <1>11, <2>2, <2>3 DEF LookForBaseline
<1>12. ASSUME NEW m \in Migrators, WriteBaseline(m) PROVE PublishingInv'
  <2> DEFINE t == saw[m].row.text
             v == [text |-> t, baseline |-> TRUE, reviewed |-> NoText, analysed |-> NoText]
             now == [revision |-> 1, text |-> t, unkept |-> FALSE, migrated |-> TRUE]
  <2>1. /\ Goes(m, "idle", Nothing) /\ UNCHANGED <<analysis, view, removed>>
        /\ versions' = <<v>>
        /\ \/ doc' = now /\ ~Saved
           \/ doc' = doc
      BY <1>12 DEF WriteBaseline, Ends, BaselineVersion
  <2>2. t \in Texts
      BY <1>12 DEF WriteBaseline, PublishingInv, HeldOK
  <2>3. v \in VersionRows /\ VersionOK(v, removed)
      BY <2>2 DEF VersionRows, VersionOK, SomeTexts
  <2>4. /\ RowOK(doc', doc', removed')
        /\ \A row: RowOK(row, doc, removed) => RowOK(row, doc', removed')
        /\ \A at, read: HeldOK(at, read, doc, removed) => HeldOK(at, read, doc', removed')
    <3>1. CASE doc' = doc
        BY <3>1, <2>1 DEF PublishingInv
    <3>2. CASE doc' = now /\ ~Saved
      <4>1. now.revision \in Nat /\ now.text \in Texts /\ now.revision > doc.revision
          BY <2>2, <3>2 DEF PublishingInv, RowOK, Saved
      <4> HIDE DEF now
      <4> QED BY <2>1, <3>2, <4>1, <1>3
    <3> QED BY <2>1, <3>1, <3>2
  <2> HIDE DEF v, now, t
  <2>5. versions' \in Seq(VersionRows) /\ \A i \in 1..Len(versions'): VersionOK(versions'[i], removed)
      BY <2>1, <2>3
  <2>6. DOMAIN pc' = Handlers /\ DOMAIN saw' = Handlers
      BY <2>1 DEF Goes, PublishingInv
  <2>7. ASSUME NEW g \in Handlers PROVE HeldOK(pc'[g], saw'[g], doc', removed')
      BY <2>1, <1>2, <2>4 DEF Goes, PublishingInv
  <2> QED BY <2>1, <2>4, <2>5, <2>6, <2>7 DEF PublishingInv
<1>13. ASSUME RollBackBaseline PROVE PublishingInv'
  <2>1. /\ versions' = <<>> /\ UNCHANGED <<view, pc, saw>>
        /\ \/ doc' = NoRow /\ analysis' = NoAnalysis /\ removed' = TRUE
           \/ UNCHANGED <<doc, analysis, removed>>
      BY <1>13 DEF RollBackBaseline
  <2>2. versions' \in Seq(VersionRows) /\ Len(versions') = 0
      BY <2>1
  <2>3. \A i \in 1..Len(versions'): VersionOK(versions'[i], removed')
      BY <2>2
  <2>4. CASE UNCHANGED <<doc, analysis, removed>>
      BY <2>1, <2>2, <2>3, <2>4 DEF PublishingInv
  <2>5. CASE doc' = NoRow /\ analysis' = NoAnalysis /\ removed' = TRUE
    <3>1. /\ \A row: RowOK(row, doc, removed) => RowOK(row, doc', removed')
          /\ \A at, read: HeldOK(at, read, doc, removed) => HeldOK(at, read, doc', removed')
        BY <2>5 DEF RowOK, HeldOK
    <3>2. RowOK(doc', doc', removed') /\ RowOK(analysis', doc', removed')
        BY <2>5 DEF RowOK, NoRow, NoAnalysis, SomeTexts
    <3>3. /\ \A p \in People: RowOK(view'[p], doc', removed')
          /\ \A h \in Handlers: HeldOK(pc'[h], saw'[h], doc', removed')
        BY <2>1, <3>1 DEF PublishingInv
    <3> QED BY <2>1, <2>2, <2>3, <2>5, <3>2, <3>3 DEF PublishingInv
  <2> QED BY <2>1, <2>4, <2>5
<1>14. ASSUME NEW h \in Handlers, Fail(h) PROVE PublishingInv'
    BY <1>14, <1>1, <1>2 DEF Fail, Ends
<1>15. ASSUME NEW to \in {"draft", "open"}, SetStatus(to) PROVE PublishingInv'
    BY <1>15 DEF SetStatus, PublishingInv
<1>16. CASE UNCHANGED vars
    BY <1>16 DEF vars, PublishingInv
<1> DEFINE Goal == PublishingInv'
<1> HIDE DEF Goal
<1>17. Goal
    BY <1>4, <1>5, <1>6, <1>7, <1>8, <1>9, <1>10, <1>11, <1>12, <1>13, <1>14, <1>15, <1>16 DEF Next, Goal
<1> QED BY <1>17 DEF Goal

LEMMA PublishingInitial == Init => PublishingInv
<1> SUFFICES ASSUME Init PROVE PublishingInv
    OBVIOUS
<1>1. doc = NoRow /\ analysis = NoAnalysis /\ versions = <<>> /\ removed = FALSE
    BY DEF Init
<1>2. RowOK(NoRow, NoRow, FALSE) /\ RowOK(NoAnalysis, NoRow, FALSE)
    BY DEF RowOK, NoRow, NoAnalysis, SomeTexts
<1>3. DOMAIN view = People /\ \A p \in People: view[p] = NoRow
    BY DEF Init
<1>4. DOMAIN pc = Handlers /\ DOMAIN saw = Handlers /\ \A h \in Handlers: pc[h] = "idle"
    BY DEF Init
<1>5. \A h \in Handlers: HeldOK(pc[h], saw[h], doc, removed)
    BY <1>4 DEF HeldOK
<1>6. versions \in Seq(VersionRows) /\ \A i \in 1..Len(versions): VersionOK(versions[i], removed)
    BY <1>1
<1> QED BY <1>1, <1>2, <1>3, <1>4, <1>5, <1>6 DEF PublishingInv

\* Whatever is saved, analysed and published meanwhile, and however the migration
\* and its roll-back meet it, a published version is the text that its publisher
\* reviewed and the AI analysed, unless a roll-back has deleted the document.
THEOREM PublishedWasReviewed == Spec => []PublishedAsReviewed
<1>1. PublishingInv => PublishedAsReviewed
    BY DEF PublishingInv, PublishedAsReviewed, VersionOK
<1> QED BY <1>1, PublishingInitial, PublishingStep, PTL DEF Spec

-----------------------------------------------------------------------------
(***************************************************************************)
(* The list of versions implements VersionLog.                             *)
(***************************************************************************)
EntryOf(v) == [text |-> v.text, baseline |-> v.baseline]
LogOf(vs) == [i \in 1..Len(vs) |-> EntryOf(vs[i])]

LEMMA LogRows ==
    ASSUME NEW S, NEW vs \in Seq(S)
    PROVE  /\ LogOf(vs) \in Seq({EntryOf(v): v \in S})
           /\ Len(LogOf(vs)) = Len(vs) /\ Len(vs) \in Nat
           /\ \A i \in 1..Len(vs): LogOf(vs)[i] = EntryOf(vs[i])
<1> DEFINE Entries == {EntryOf(v): v \in S}
<1>1. Len(vs) \in Nat /\ \A i \in 1..Len(vs): vs[i] \in S
    OBVIOUS
<1>2. \A i \in 1..Len(vs): EntryOf(vs[i]) \in Entries
    BY <1>1
<1> HIDE DEF Entries
<1>3. LogOf(vs) \in [1..Len(vs) -> Entries]
    BY <1>2 DEF LogOf
<1>4. LogOf(vs) \in Seq(Entries) /\ Len(LogOf(vs)) = Len(vs)
    BY <1>1, <1>3
<1>5. \A i \in 1..Len(vs): LogOf(vs)[i] = EntryOf(vs[i])
    BY DEF LogOf
<1> QED BY <1>1, <1>4, <1>5 DEF Entries

LEMMA LogGrows ==
    ASSUME NEW S, NEW vs \in Seq(S), NEW v \in S
    PROVE  LogOf(Append(vs, v)) = Append(LogOf(vs), EntryOf(v))
<1> DEFINE more == Append(vs, v)
           Entries == {EntryOf(w): w \in S}
           log == LogOf(vs)
           e == EntryOf(v)
<1>1. /\ more \in Seq(S) /\ Len(more) = Len(vs) + 1 /\ more[Len(vs) + 1] = v /\ Len(vs) \in Nat
      /\ \A i \in 1..Len(vs): more[i] = vs[i]
    OBVIOUS
<1>2. e \in Entries
    OBVIOUS
<1>3. /\ log \in Seq(Entries) /\ Len(log) = Len(vs)
      /\ \A i \in 1..Len(vs): log[i] = EntryOf(vs[i])
    BY LogRows
<1>4. /\ LogOf(more) \in Seq(Entries) /\ Len(LogOf(more)) = Len(vs) + 1
      /\ \A i \in 1..(Len(vs) + 1): LogOf(more)[i] = EntryOf(more[i])
  <2> HIDE DEF more
  <2> QED BY <1>1, LogRows
<1> HIDE DEF Entries, log, more
<1>5. /\ Append(log, e) \in Seq(Entries) /\ Len(Append(log, e)) = Len(vs) + 1
      /\ Append(log, e)[Len(vs) + 1] = e
      /\ \A i \in 1..Len(vs): Append(log, e)[i] = log[i]
  <2> HIDE DEF e
  <2> QED BY <1>1, <1>2, <1>3
<1>6. ASSUME NEW i \in 1..(Len(vs) + 1) PROVE LogOf(more)[i] = Append(log, e)[i]
  <2>1. i \in 1..Len(vs) \/ i = Len(vs) + 1
      BY <1>1
  <2>2. CASE i \in 1..Len(vs)
      BY <2>2, <1>1, <1>3, <1>4, <1>5
  <2>3. CASE i = Len(vs) + 1
      BY <2>3, <1>1, <1>4, <1>5
  <2> QED BY <2>1, <2>2, <2>3
<1>7. LogOf(more) = Append(log, e)
    BY <1>4, <1>5, <1>6, SeqEqual
<1> QED BY <1>7 DEF log, more

THEOREM VersionsImplementLog == Spec => ImplementsVersionLog
<1>1. Init => Log!Init
    BY DEF Init, Log!Init
<1>2. PublishingInv /\ [Next]_vars => [Log!Next]_(LogOf(versions))
  <2> SUFFICES ASSUME PublishingInv, [Next]_vars PROVE [Log!Next]_(LogOf(versions))
      OBVIOUS
  <2>0. /\ Len(LogOf(versions)) = Len(versions)
        /\ \A i \in 1..Len(versions): LogOf(versions)[i].text = versions[i].text
                                      /\ LogOf(versions)[i].baseline = versions[i].baseline
    <3>1. \A v: EntryOf(v).text = v.text /\ EntryOf(v).baseline = v.baseline
        BY DEF EntryOf
    <3>2. versions \in Seq(VersionRows)
        BY DEF PublishingInv
    <3> QED BY <3>1, <3>2, LogRows
  <2>1. CASE UNCHANGED versions
      BY <2>1
  <2>2. ASSUME NEW p \in People, WriteVersion(p) PROVE Log!Next
    <3> DEFINE t == saw[p].row.text
    <3>1. t \in Texts /\ versions' = Append(versions, NewVersion(p))
          /\ (versions # <<>> => versions[Len(versions)].text # t)
        BY <2>2 DEF WriteVersion, IsLatest, PublishingInv, HeldOK, Handlers
    <3>2. NewVersion(p) \in VersionRows
        BY <2>2 DEF WriteVersion, PublishingInv, HeldOK, NewVersion, VersionRows, Handlers
    <3>3. LogOf(versions') = Append(LogOf(versions), EntryOf(NewVersion(p)))
        BY <3>1, <3>2, LogGrows DEF PublishingInv
    <3>4. EntryOf(NewVersion(p)) = [text |-> t, baseline |-> FALSE]
        BY DEF EntryOf, NewVersion
    <3>5. LogOf(versions) # <<>> => LogOf(versions)[Len(LogOf(versions))].text # t
      <4>1. CASE versions = <<>>
          BY <4>1 DEF LogOf
      <4>2. CASE versions # <<>>
        <5>1. Len(versions) \in Nat /\ Len(versions) \in 1..Len(versions)
            BY <4>2 DEF PublishingInv
        <5>2. Len(LogOf(versions)) = Len(versions)
            BY LogRows DEF PublishingInv
        <5>3. LogOf(versions)[Len(versions)].text = versions[Len(versions)].text
            BY <5>1, <2>0
        <5> QED BY <5>2, <5>3, <4>2, <3>1
      <4> QED BY <4>1, <4>2
    <3> HIDE DEF t
    <3> QED BY <3>1, <3>3, <3>4, <3>5 DEF Log!Next, Log!Publish, LogOf, EntryOf
  <2>3. ASSUME NEW m \in Migrators, WriteBaseline(m) PROVE Log!Next
    <3> DEFINE t == saw[m].row.text
    <3>1. t \in Texts /\ versions = <<>> /\ versions' = BaselineVersion(t)
        BY <2>3 DEF WriteBaseline, PublishingInv, HeldOK, Handlers
    <3>2. LogOf(versions) = <<>>
        BY <3>1 DEF LogOf
    <3>3. LogOf(versions') = <<[text |-> t, baseline |-> TRUE]>>
      <4> DEFINE v == [text |-> t, baseline |-> TRUE, reviewed |-> NoText, analysed |-> NoText]
      <4>1. versions' = Append(<<>>, v) /\ EntryOf(v) = [text |-> t, baseline |-> TRUE]
          BY <3>1 DEF BaselineVersion, EntryOf
      <4> HIDE DEF v
      <4>2. LogOf(Append(<<>>, v)) = Append(LogOf(<<>>), EntryOf(v))
        <5>1. <<>> \in Seq({v}) /\ v \in {v}
            OBVIOUS
        <5> QED BY <5>1, LogGrows
      <4>3. LogOf(<<>>) = <<>>
          BY DEF LogOf
      <4> QED BY <4>1, <4>2, <4>3
    <3> HIDE DEF t
    <3> QED BY <3>1, <3>2, <3>3 DEF Log!Next, Log!Baseline, LogOf, EntryOf
  <2>4. ASSUME RollBackBaseline PROVE Log!Next
    <3>1. Len(versions) = 1 /\ versions[1].baseline /\ versions' = <<>>
        BY <2>4 DEF RollBackBaseline
    <3>2. Len(LogOf(versions)) = 1 /\ LogOf(versions)[1].baseline
        BY <3>1, <2>0
    <3>3. LogOf(versions') = <<>>
        BY <3>1 DEF LogOf
    <3> QED BY <3>2, <3>3 DEF Log!Next, Log!Retract, LogOf, EntryOf
  <2> QED BY <2>1, <2>2, <2>3, <2>4 DEF Next, vars, Load, Save, Analyze, StoreAnalysis, Publish, OpenJob,
            LookForBaseline, Fail, SetStatus
<1> QED BY <1>1, <1>2, PublishingInitial, PublishingStep, PTL DEF Spec, ImplementsVersionLog, Log!Spec, LogOf, EntryOf

-----------------------------------------------------------------------------
(***************************************************************************)
(* Editing.  As long as no save was blind, what a window is based on, and  *)
(* what it has sent and stored, is part of what it shows: edits are only   *)
(* ever added to a draft, and no save is under way while another text is   *)
(* being loaded over it.  A draft that shows as saved is the text of its   *)
(* base, and a publication under way was shown the text of its revision.   *)
(***************************************************************************)
EditTexts == SUBSET Nat

\* The draft l of a window and the texts tx of the document.
LocalOK(l, tx) ==
    /\ DOMAIN l = {"text", "count", "base", "state", "shown"}
    /\ l.text \in EditTexts /\ l.count \in Nat
    /\ l.base # NoBase => /\ l.base \in 1..Len(tx)
                          /\ tx[l.base] \subseteq l.text
                          /\ l.state = "saved" => tx[l.base] = l.text

\* A save under way: x is what it has sent, or stored.
Within(x, count, l) == x \in EditTexts /\ count \in Nat /\ x \subseteq l.text
                       /\ count <= l.count /\ (count = l.count => x = l.text)

SentOK(sv, l, tx) ==
    /\ Within(sv.text, sv.count, l)
    /\ sv.base # NoBase => sv.base \in 1..Len(tx) /\ tx[sv.base] \subseteq sv.text

SaveOK(sv, l, tx) ==
    /\ sv.at = "sent" => SentOK(sv, l, tx)
    /\ sv.at = "stored" => sv.revision \in 1..Len(tx) /\ Within(tx[sv.revision], sv.count, l)

TabOK(tb, svs, tx) == tb.at = "loading" =>
    tb.revision \in 0..Len(tx) /\ \A s \in E!Savers: svs[s] = E!Resting

PublicationOK(pub, tx) == pub.at = "asked" => pub.revision \in 1..Len(tx) /\ pub.shown = tx[pub.revision]

WindowOK(l, svs, tb, pub, tx) ==
    /\ LocalOK(l, tx)
    /\ DOMAIN svs = E!Savers /\ \A s \in E!Savers: SaveOK(svs[s], l, tx)
    /\ TabOK(tb, svs, tx)
    /\ PublicationOK(pub, tx)

WindowsOK ==
    /\ texts \in Seq(EditTexts)
    /\ edits \in Nat
    /\ misled = FALSE
    /\ DOMAIN local = Windows /\ DOMAIN saves = Windows /\ DOMAIN tab = Windows /\ DOMAIN publishing = Windows
    /\ \A w \in Windows: WindowOK(local[w], saves[w], tab[w], publishing[w], texts)

EditingInv == ~blind => WindowsOK

Kept == texts # <<>> => texts[Len(texts)] \subseteq texts'[Len(texts')]

LEMMA TextsGrow ==
    ASSUME NEW tx \in Seq(EditTexts), NEW x \in EditTexts
    PROVE  /\ Append(tx, x) \in Seq(EditTexts) /\ Len(Append(tx, x)) = Len(tx) + 1 /\ Len(tx) \in Nat
           /\ Append(tx, x)[Len(tx) + 1] = x
           /\ \A r \in 1..Len(tx): Append(tx, x)[r] = tx[r] /\ r \in 1..(Len(tx) + 1)
    OBVIOUS

\* A text more in the document disturbs nobody.
LEMMA WindowStays ==
    ASSUME NEW tx \in Seq(EditTexts), NEW x \in EditTexts, NEW l, NEW svs, NEW tb, NEW pub,
           WindowOK(l, svs, tb, pub, tx)
    PROVE  WindowOK(l, svs, tb, pub, Append(tx, x))
<1> DEFINE more == Append(tx, x)
<1>1. /\ Len(more) = Len(tx) + 1 /\ Len(tx) \in Nat
      /\ \A r \in 1..Len(tx): more[r] = tx[r] /\ r \in 1..Len(more)
    BY TextsGrow
<1> HIDE DEF more
<1>2. LocalOK(l, more)
    BY <1>1 DEF WindowOK, LocalOK
<1>3. \A s \in E!Savers: SaveOK(svs[s], l, more)
    BY <1>1 DEF WindowOK, SaveOK, SentOK
<1>4. TabOK(tb, svs, more)
    BY <1>1 DEF WindowOK, TabOK
<1>5. PublicationOK(pub, more)
    BY <1>1 DEF WindowOK, PublicationOK
<1> QED BY <1>2, <1>3, <1>4, <1>5 DEF WindowOK, more

\* A draft that is marked unsaved, or whose marks alone change.
LEMMA DraftMarked ==
    ASSUME NEW tx, NEW l, NEW m, LocalOK(l, tx), DOMAIN m = DOMAIN l,
           m.text = l.text, m.count = l.count, m.base = l.base, m.state = "saved" => l.state = "saved"
    PROVE  LocalOK(m, tx) /\ \A sv: SaveOK(sv, l, tx) => SaveOK(sv, m, tx)
    BY DEF LocalOK, SaveOK, SentOK, Within

\* A draft that has an edit more.
LEMMA DraftGrows ==
    ASSUME NEW tx, NEW l, NEW m, LocalOK(l, tx), DOMAIN m = DOMAIN l,
           NEW n \in Nat, m.text = l.text \cup {n}, m.count = l.count + 1, m.base = l.base, m.state # "saved"
    PROVE  LocalOK(m, tx) /\ \A sv: SaveOK(sv, l, tx) => SaveOK(sv, m, tx)
<1>1. l.text \in EditTexts /\ l.count \in Nat /\ m.text \in EditTexts /\ m.count \in Nat
      /\ m.count > l.count /\ l.text \subseteq m.text
    BY DEF LocalOK, EditTexts
<1>2. LocalOK(m, tx)
    BY <1>1 DEF LocalOK
<1>3. \A x, count: Within(x, count, l) => Within(x, count, m)
    BY <1>1 DEF Within
<1>4. \A sv: SaveOK(sv, l, tx) => SaveOK(sv, m, tx)
    BY <1>3 DEF SaveOK, SentOK
<1> QED BY <1>2, <1>4

\* What a save sends when it has waited.
LEMMA DraftSent ==
    ASSUME NEW tx, NEW l, LocalOK(l, tx), NEW sv,
           sv.text = l.text, sv.base = l.base, sv.count = l.count
    PROVE  SentOK(sv, l, tx)
    BY DEF LocalOK, SentOK, Within

LEMMA EditingStep == E!EditingAssumption /\ EditingInv /\ [E!Next]_(E!vars)
                        => EditingInv' /\ (~blind' => Kept)
<1> SUFFICES ASSUME E!EditingAssumption, EditingInv, [E!Next]_(E!vars)
             PROVE  EditingInv' /\ (~blind' => Kept)
    OBVIOUS
<1> DEFINE Goal == EditingInv' /\ (~blind' => Kept)
<1> HIDE DEF Goal
<1>1. ASSUME blind' PROVE Goal
    BY <1>1 DEF Goal, EditingInv
\* One window moves, and the document stays.
<1>2. ASSUME NEW w \in Windows, ~blind, ~blind', UNCHANGED texts, edits' \in Nat, misled' = FALSE,
             NEW l, NEW svs, NEW tb, NEW pub,
             \/ local' = [local EXCEPT ![w] = l]
             \/ local' = local /\ l = local[w],
             \/ saves' = [saves EXCEPT ![w] = svs]
             \/ saves' = saves /\ svs = saves[w],
             \/ tab' = [tab EXCEPT ![w] = tb]
             \/ tab' = tab /\ tb = tab[w],
             \/ publishing' = [publishing EXCEPT ![w] = pub]
             \/ publishing' = publishing /\ pub = publishing[w],
             WindowOK(l, svs, tb, pub, texts)
      PROVE  Goal
  <2>1. WindowsOK
      BY <1>2 DEF EditingInv
  <2>2. DOMAIN local' = Windows /\ local'[w] = l /\ \A v \in Windows \ {w}: local'[v] = local[v]
      BY <1>2, <2>1 DEF WindowsOK
  <2>3. DOMAIN saves' = Windows /\ saves'[w] = svs /\ \A v \in Windows \ {w}: saves'[v] = saves[v]
      BY <1>2, <2>1 DEF WindowsOK
  <2>4. DOMAIN tab' = Windows /\ tab'[w] = tb /\ \A v \in Windows \ {w}: tab'[v] = tab[v]
      BY <1>2, <2>1 DEF WindowsOK
  <2>5. DOMAIN publishing' = Windows /\ publishing'[w] = pub /\ \A v \in Windows \ {w}: publishing'[v] = publishing[v]
      BY <1>2, <2>1 DEF WindowsOK
  <2>6. \A v \in Windows: WindowOK(local'[v], saves'[v], tab'[v], publishing'[v], texts)
      BY <1>2, <2>1, <2>2, <2>3, <2>4, <2>5 DEF WindowsOK
  <2>7. WindowsOK'
      BY <1>2, <2>1, <2>2, <2>3, <2>4, <2>5, <2>6 DEF WindowsOK
  <2>8. Kept
      BY <1>2 DEF Kept
  <2> QED BY <1>2, <2>7, <2>8 DEF Goal, EditingInv
\* What holds of a window before its step.
<1>3. ASSUME NEW w \in Windows, ~blind
      PROVE  /\ WindowOK(local[w], saves[w], tab[w], publishing[w], texts) /\ LocalOK(local[w], texts)
             /\ \A s \in E!Savers: SaveOK(saves[w][s], local[w], texts)
             /\ DOMAIN saves[w] = E!Savers
             /\ TabOK(tab[w], saves[w], texts) /\ PublicationOK(publishing[w], texts)
             /\ texts \in Seq(EditTexts) /\ edits \in Nat /\ misled = FALSE
    BY <1>3 DEF EditingInv, WindowsOK, WindowOK
<1>0. ASSUME ~blind PROVE texts \in Seq(EditTexts) /\ Len(texts) \in Nat /\ edits \in Nat /\ edits + 1 \in Nat
                          /\ \A r \in 1..Len(texts): texts[r] \in EditTexts
  <2>1. texts \in Seq(EditTexts) /\ edits \in Nat
      BY <1>0 DEF EditingInv, WindowsOK
  <2> QED BY <2>1
<1>4. ASSUME NEW w \in Windows, E!OpenTab(w), ~blind' PROVE Goal
  <2> DEFINE l == [local[w] EXCEPT !.shown = suggestion]
             tb == IF local[w].state = "dirty" THEN E!Open ELSE [at |-> "loading", revision |-> E!Revision]
  <2>1. /\ local' = [local EXCEPT ![w] = l] /\ tab' = [tab EXCEPT ![w] = tb]
        /\ UNCHANGED <<texts, saves, publishing, misled, edits>> /\ ~blind
        /\ blind' = (blind \/ (E!Saving(w) /\ local[w].state # "dirty"))
      BY <1>4 DEF E!OpenTab
  <2>2. LocalOK(l, texts) /\ \A s \in E!Savers: SaveOK(saves[w][s], l, texts)
    <3>1. DOMAIN l = DOMAIN local[w] /\ l.text = local[w].text /\ l.count = local[w].count
          /\ l.base = local[w].base /\ l.state = local[w].state
        BY <1>3, <2>1 DEF LocalOK
    <3> HIDE DEF l
    <3> QED BY <1>3, <2>1, <3>1, DraftMarked
  <2>3. TabOK(tb, saves[w], texts)
    <3>1. CASE local[w].state = "dirty"
        BY <3>1 DEF TabOK, E!Open
    <3>2. CASE local[w].state # "dirty"
      <4>1. ~E!Saving(w)
          BY <1>4, <2>1, <3>2
      <4>2. Len(texts) \in Nat
          BY <1>3, <2>1
      <4> QED BY <3>2, <4>1, <4>2 DEF TabOK, E!Saving, E!Revision
    <3> QED BY <3>1, <3>2
  <2>4. WindowOK(l, saves[w], tb, publishing[w], texts)
      BY <1>3, <2>1, <2>2, <2>3 DEF WindowOK
  <2> HIDE DEF l, tb
  <2> QED BY <1>2, <1>3, <1>4, <2>1, <2>4
<1>5. ASSUME NEW w \in Windows, E!ShowLoaded(w), ~blind' PROVE Goal
  <2> DEFINE r == tab[w].revision
             a == [local[w] EXCEPT !.text = texts[r], !.base = r, !.state = "saved"]
             b == [local[w] EXCEPT !.text = {}, !.count = 1, !.base = NoBase, !.state = "saved"]
  <2>1. /\ tab[w].at = "loading" /\ tab' = [tab EXCEPT ![w] = E!Open] /\ ~blind
        /\ UNCHANGED <<texts, saves, publishing, misled, edits, blind>>
        /\ \/ r > 0 /\ local' = [local EXCEPT ![w] = a]
           \/ local' = [local EXCEPT ![w] = b]
           \/ UNCHANGED local
      BY <1>5 DEF E!ShowLoaded
  <2>2. /\ r \in 0..Len(texts) /\ \A s \in E!Savers: saves[w][s] = E!Resting
        /\ DOMAIN local[w] = {"text", "count", "base", "state", "shown"} /\ local[w].count \in Nat
      BY <1>3, <2>1 DEF TabOK, LocalOK
  <2>3. \A l: \A s \in E!Savers: SaveOK(saves[w][s], l, texts)
      BY <2>2 DEF SaveOK, E!Resting
  <2>4. TabOK(E!Open, saves[w], texts)
      BY DEF TabOK, E!Open
  <2>5. ASSUME NEW l, LocalOK(l, texts) PROVE WindowOK(l, saves[w], E!Open, publishing[w], texts)
      BY <1>3, <2>1, <2>3, <2>4, <2>5 DEF WindowOK
  <2>6. CASE r > 0 /\ local' = [local EXCEPT ![w] = a]
    <3>1. LocalOK(a, texts)
      <4>1. r \in 1..Len(texts) /\ texts[r] \in EditTexts
          BY <1>0, <2>1, <2>2, <2>6
      <4> HIDE DEF r
      <4> QED BY <2>2, <4>1 DEF LocalOK
    <3> HIDE DEF a, r
    <3> QED BY <1>2, <1>3, <2>1, <2>5, <2>6, <3>1
  <2>7. CASE local' = [local EXCEPT ![w] = b]
    <3>1. LocalOK(b, texts)
        BY <2>2 DEF LocalOK, EditTexts
    <3> HIDE DEF b, r, a
    <3> QED BY <1>2, <1>3, <2>1, <2>5, <2>7, <3>1
  <2>8. CASE UNCHANGED local
    <3> HIDE DEF a, b, r
    <3> QED BY <1>2, <1>3, <2>1, <2>5, <2>8
  <2> HIDE DEF a, b, r
  <2> QED BY <2>1, <2>6, <2>7, <2>8
<1>6. ASSUME NEW w \in Windows, E!Edit(w), ~blind' PROVE Goal
  <2> DEFINE l == [local[w] EXCEPT !.text = local[w].text \cup {edits + 1}, !.count = local[w].count + 1,
                                   !.state = IF local[w].state = "saving" THEN "saving" ELSE "dirty"]
  <2>1. /\ local' = [local EXCEPT ![w] = l] /\ edits' = edits + 1
        /\ UNCHANGED <<texts, tab, saves, publishing, misled, blind>> /\ ~blind
      BY <1>6 DEF E!Edit
  <2>2. LocalOK(l, texts) /\ \A s \in E!Savers: SaveOK(saves[w][s], l, texts)
    <3>1. DOMAIN l = DOMAIN local[w] /\ l.text = local[w].text \cup {edits + 1} /\ l.count = local[w].count + 1
          /\ l.base = local[w].base /\ l.state # "saved"
        BY <1>3, <2>1 DEF LocalOK
    <3>2. edits + 1 \in Nat
        BY <1>0, <2>1
    <3> HIDE DEF l
    <3> QED BY <1>3, <2>1, <3>1, <3>2, DraftGrows
  <2>3. WindowOK(l, saves[w], tab[w], publishing[w], texts)
      BY <1>3, <2>1, <2>2 DEF WindowOK
  <2>4. edits' \in Nat
      BY <1>0, <2>1
  <2> HIDE DEF l
  <2> QED BY <1>2, <1>3, <2>1, <2>3, <2>4
\* A save begins: nothing is being loaded.
<1>7. ASSUME NEW w \in Windows, NEW s \in E!Savers, NEW then, E!Begins(w, s, then), ~blind, ~blind',
             UNCHANGED <<texts, tab, publishing, misled, edits>>, NEW l, local' = [local EXCEPT ![w] = l],
             LocalOK(l, texts), \A sv: SaveOK(sv, local[w], texts) => SaveOK(sv, l, texts)
      PROVE  Goal
  <2> DEFINE new == [at |-> "waits", then |-> then]
             svs == [saves[w] EXCEPT ![s] = new]
  <2>1. saves' = [saves EXCEPT ![w] = svs] /\ blind' = (blind \/ tab[w].at = "loading")
      BY <1>7 DEF E!Begins
  <2>2. tab[w].at # "loading" /\ ~blind'
      BY <1>7, <2>1
  <2>3. SaveOK(new, l, texts)
      BY DEF SaveOK
  <2> HIDE DEF new
  <2>4. DOMAIN svs = E!Savers /\ \A t \in E!Savers: SaveOK(svs[t], l, texts)
      BY <1>3, <1>7, <2>3
  <2> HIDE DEF svs
  <2>5. WindowOK(l, svs, tab[w], publishing[w], texts)
      BY <1>3, <1>7, <2>2, <2>4 DEF WindowOK, TabOK
  <2>6. edits' \in Nat /\ misled' = FALSE
      BY <1>3, <1>7
  <2> QED BY <1>2, <1>7, <2>1, <2>2, <2>5, <2>6
\* The draft is marked as being saved, or as unsaved.
<1>8. ASSUME NEW w \in Windows, ~blind, NEW state, state # "saved"
      PROVE  LET l == [local[w] EXCEPT !.state = state] IN
             LocalOK(l, texts) /\ \A sv: SaveOK(sv, local[w], texts) => SaveOK(sv, l, texts)
  <2> DEFINE l == [local[w] EXCEPT !.state = state]
  <2>1. DOMAIN l = DOMAIN local[w] /\ l.text = local[w].text /\ l.count = local[w].count
        /\ l.base = local[w].base /\ l.state = state
      BY <1>3, <1>8 DEF LocalOK
  <2> HIDE DEF l
  <2>2. LocalOK(l, texts) /\ \A sv: SaveOK(sv, local[w], texts) => SaveOK(sv, l, texts)
      BY <1>3, <1>8, <2>1, DraftMarked
  <2> QED BY <2>2 DEF l
<1>9. ASSUME NEW w \in Windows, NEW s \in E!Savers, E!Save(w, s), ~blind' PROVE Goal
  <2> DEFINE l == [local[w] EXCEPT !.state = "saving"]
  <2>1. E!Begins(w, s, "rest") /\ ~blind /\ UNCHANGED <<texts, tab, publishing, misled, edits>>
        /\ local' = [local EXCEPT ![w] = l]
      BY <1>9 DEF E!Save, E!Begins
  <2>2. LocalOK(l, texts) /\ \A sv: SaveOK(sv, local[w], texts) => SaveOK(sv, l, texts)
      BY <1>8, <2>1
  <2> HIDE DEF l
  <2> QED BY <1>7, <1>9, <2>1, <2>2
<1>10. ASSUME NEW w \in Windows, NEW s \in E!Savers, E!ConfirmUnsaved(w, s), ~blind' PROVE Goal
  <2> DEFINE l == [local[w] EXCEPT !.state = "saving"]
  <2>1. E!Begins(w, s, "publish") /\ ~blind /\ UNCHANGED <<texts, tab, publishing, misled, edits>>
        /\ local' = [local EXCEPT ![w] = l]
      BY <1>10 DEF E!ConfirmUnsaved, E!Begins
  <2>2. LocalOK(l, texts) /\ \A sv: SaveOK(sv, local[w], texts) => SaveOK(sv, l, texts)
      BY <1>8, <2>1
  <2> HIDE DEF l
  <2> QED BY <1>7, <1>10, <2>1, <2>2
\* What a save has sent, whether it has waited until now or not.
<1>11. ASSUME NEW w \in Windows, NEW s \in E!Savers, ~blind
       PROVE  /\ saves[w][s].at \in {"waits", "sent"} => SentOK(E!Sent(w, s), local[w], texts)
              /\ SaveOK(E!Sent(w, s), local[w], texts)
  <2> DEFINE new == [at |-> "sent", then |-> saves[w][s].then, text |-> local[w].text,
                     base |-> local[w].base, count |-> local[w].count]
  <2>1. E!Sent(w, s) = IF saves[w][s].at = "waits" THEN new ELSE saves[w][s]
      BY DEF E!Sent
  <2>2. SentOK(new, local[w], texts)
      BY <1>3, <1>11, DraftSent
  <2>3. SaveOK(new, local[w], texts)
      BY <2>2 DEF SaveOK
  <2>4. SaveOK(saves[w][s], local[w], texts)
      BY <1>3, <1>11
  <2> HIDE DEF new
  <2> QED BY <2>1, <2>2, <2>3, <2>4 DEF SaveOK
<1>12. ASSUME NEW w \in Windows, NEW then, E!Leaves(w, then), UNCHANGED <<texts, local, publishing, misled, edits, blind>>,
              NEW tb, tab' = [tab EXCEPT ![w] = tb] \/ (tab' = tab /\ tb = tab[w]), tb.at # "loading" \/ tb = tab[w],
              ~blind
       PROVE  Goal
  <2> DEFINE svs == [s \in E!Savers |-> IF saves[w][s] # E!Resting /\ saves[w][s].then = then
                                          THEN E!Sent(w, s) ELSE saves[w][s]]
  <2>1. saves' = [saves EXCEPT ![w] = svs]
      BY <1>12 DEF E!Leaves
  <2>2. DOMAIN svs = E!Savers /\ \A s \in E!Savers: SaveOK(svs[s], local[w], texts)
      BY <1>3, <1>11, <1>12
  <2>3. TabOK(tb, svs, texts)
      BY <1>3, <1>12 DEF TabOK
  <2> HIDE DEF svs
  <2>4. WindowOK(local[w], svs, tb, publishing[w], texts)
      BY <1>3, <1>12, <2>2, <2>3 DEF WindowOK
  <2>5. edits' \in Nat /\ misled' = FALSE /\ ~blind'
      BY <1>3, <1>12
  <2> QED BY <1>2, <1>12, <2>1, <2>4, <2>5
<1>13. ASSUME NEW w \in Windows, E!CloseTab(w), ~blind' PROVE Goal
  <2>1. /\ E!Leaves(w, "rest") /\ tab' = [tab EXCEPT ![w] = E!Closed] /\ ~blind
        /\ UNCHANGED <<texts, local, publishing, misled, edits, blind>>
      BY <1>13 DEF E!CloseTab
  <2>2. E!Closed.at # "loading"
      BY DEF E!Closed
  <2> QED BY <1>12, <2>1, <2>2
<1>14. ASSUME NEW w \in Windows, E!CloseDialog(w), ~blind' PROVE Goal
  <2>1. /\ E!Leaves(w, "publish") /\ tab' = tab /\ ~blind
        /\ UNCHANGED <<texts, local, publishing, misled, edits, blind>>
      BY <1>14 DEF E!CloseDialog
  <2> QED BY <1>12, <2>1
\* The one step that changes the document.
<1>15. ASSUME NEW w \in Windows, NEW s \in E!Savers, E!Store(w, s), ~blind' PROVE Goal
  <2> DEFINE sent == E!Sent(w, s)
             x == sent.text
             new == [at |-> "stored", then |-> saves[w][s].then, revision |-> Len(texts) + 1, count |-> sent.count]
             svs == [saves[w] EXCEPT ![s] = new]
  <2>1. /\ saves[w][s].at \in {"waits", "sent"} /\ texts' = Append(texts, x)
        /\ blind' = (blind \/ (sent.base = NoBase /\ Len(texts) > 0))
        /\ sent.base \in {NoBase, Len(texts)}
        /\ saves' = [saves EXCEPT ![w] = svs]
        /\ UNCHANGED <<local, tab, publishing, misled, edits>>
      BY <1>15 DEF E!Store, E!Accepts, E!Revision
  <2>2. ~blind
      BY <1>15, <2>1
  <2>3. SentOK(sent, local[w], texts)
      BY <1>11, <2>1, <2>2
  <2> HIDE DEF sent
  <2>4. x \in EditTexts /\ Within(x, sent.count, local[w])
      BY <2>3 DEF SentOK, Within
  <2>5. /\ texts \in Seq(EditTexts)
        /\ texts' \in Seq(EditTexts) /\ Len(texts') = Len(texts) + 1 /\ Len(texts) \in Nat
        /\ texts'[Len(texts) + 1] = x
    <3> HIDE DEF x
    <3> QED BY <1>0, <2>1, <2>2, <2>4, TextsGrow
  <2> HIDE DEF x
  <2>6. ASSUME texts # <<>> PROVE texts[Len(texts)] \subseteq x
    <3>1. Len(texts) > 0
        BY <2>5, <2>6
    <3>2. sent.base # NoBase
        BY <1>15, <2>1, <3>1
    <3> QED BY <2>1, <2>3, <3>2 DEF SentOK, x
  <2>7. Kept
      BY <2>5, <2>6 DEF Kept
  <2>8. \A v \in Windows: WindowOK(local[v], saves[v], tab[v], publishing[v], texts')
      BY <1>3, <2>1, <2>2, <2>4, <2>5, WindowStays
  <2>9. SaveOK(new, local[w], texts')
      BY <2>4, <2>5 DEF SaveOK
  <2>10. saves[w][s] # E!Resting
      BY <2>1 DEF E!Resting
  <2> HIDE DEF new
  <2>11. DOMAIN svs = E!Savers /\ \A t \in E!Savers: SaveOK(svs[t], local[w], texts')
      BY <2>8, <2>9 DEF WindowOK
  <2>12. TabOK(tab[w], svs, texts')
      BY <2>8, <2>10 DEF WindowOK, TabOK
  <2> HIDE DEF svs
  <2>13. WindowOK(local[w], svs, tab[w], publishing[w], texts')
      BY <2>8, <2>11, <2>12 DEF WindowOK
  <2>14. DOMAIN saves = Windows /\ DOMAIN local = Windows /\ DOMAIN tab = Windows /\ DOMAIN publishing = Windows
      BY <2>2 DEF EditingInv, WindowsOK
  <2>15. \A v \in Windows: WindowOK(local'[v], saves'[v], tab'[v], publishing'[v], texts')
      BY <2>1, <2>8, <2>13, <2>14
  <2>16. edits' \in Nat /\ misled' = FALSE
      BY <1>3, <1>15, <2>1, <2>2
  <2>17. DOMAIN saves' = Windows
      BY <2>1, <2>14
  <2>18. WindowsOK'
      BY <2>1, <2>5, <2>14, <2>15, <2>16, <2>17 DEF WindowsOK
  <2> QED BY <2>7, <2>16, <2>18 DEF Goal, EditingInv
<1>16. ASSUME NEW w \in Windows, NEW s \in E!Savers, E!Answered(w, s), ~blind' PROVE Goal
  <2> DEFINE r == saves[w][s].revision
             state == IF E!AsSent(w, s) THEN "saved" ELSE "dirty"
             l == [local[w] EXCEPT !.base = r, !.state = state]
             pub == IF saves[w][s].then = "publish" THEN [at |-> "asked", revision |-> r, shown |-> texts[r]]
                    ELSE publishing[w]
             svs == [saves[w] EXCEPT ![s] = E!Resting]
  <2>1. /\ saves[w][s].at = "stored" /\ local' = [local EXCEPT ![w] = l]
        /\ publishing' = [publishing EXCEPT ![w] = pub] /\ saves' = [saves EXCEPT ![w] = svs]
        /\ UNCHANGED <<texts, tab, misled, edits, blind>> /\ ~blind
      BY <1>16 DEF E!Answered
  <2>2. r \in 1..Len(texts) /\ Within(texts[r], saves[w][s].count, local[w])
      BY <1>3, <2>1 DEF SaveOK
  <2>3. state = "saved" => texts[r] = local[w].text
      BY <2>2 DEF E!AsSent, Within
  <2>4. PublicationOK(pub, texts)
      BY <1>3, <2>1, <2>2 DEF PublicationOK
  <2> HIDE DEF r, pub, state
  <2>5. DOMAIN l = DOMAIN local[w] /\ l.text = local[w].text /\ l.count = local[w].count
        /\ l.base = r /\ l.state = state
      BY <1>3, <2>1 DEF LocalOK
  <2>6. LocalOK(l, texts)
    <3> HIDE DEF l
    <3> QED BY <1>3, <2>1, <2>2, <2>3, <2>5 DEF LocalOK, Within
  <2>7. \A sv: SaveOK(sv, local[w], texts) => SaveOK(sv, l, texts)
    <3> HIDE DEF l
    <3> QED BY <2>5 DEF SaveOK, SentOK, Within
  <2> HIDE DEF l
  <2>8. SaveOK(E!Resting, l, texts)
      BY DEF SaveOK, E!Resting
  <2>9. DOMAIN svs = E!Savers /\ \A t \in E!Savers: SaveOK(svs[t], l, texts)
      BY <1>3, <2>1, <2>7, <2>8
  <2>10. TabOK(tab[w], svs, texts)
      BY <1>3, <2>1 DEF TabOK, E!Resting
  <2> HIDE DEF svs
  <2>11. WindowOK(l, svs, tab[w], pub, texts)
      BY <2>4, <2>6, <2>9, <2>10 DEF WindowOK
  <2>12. edits' \in Nat /\ misled' = FALSE /\ ~blind'
      BY <1>3, <2>1
  <2> QED BY <1>2, <2>1, <2>11, <2>12
<1>17. ASSUME NEW w \in Windows, NEW s \in E!Savers, E!SaveFails(w, s), ~blind' PROVE Goal
  <2> DEFINE l == [local[w] EXCEPT !.state = "dirty"]
             svs == [saves[w] EXCEPT ![s] = E!Resting]
  <2>1. /\ local' = [local EXCEPT ![w] = l] /\ saves' = [saves EXCEPT ![w] = svs] /\ saves[w][s] # E!Resting
        /\ UNCHANGED <<texts, tab, publishing, misled, edits, blind>> /\ ~blind
      BY <1>17 DEF E!SaveFails
  <2>2. LocalOK(l, texts) /\ \A sv: SaveOK(sv, local[w], texts) => SaveOK(sv, l, texts)
      BY <1>8, <2>1
  <2> HIDE DEF l
  <2>3. SaveOK(E!Resting, l, texts)
      BY DEF SaveOK, E!Resting
  <2>4. DOMAIN svs = E!Savers /\ \A t \in E!Savers: SaveOK(svs[t], l, texts)
      BY <1>3, <2>1, <2>2, <2>3
  <2>5. TabOK(tab[w], svs, texts)
      BY <1>3, <2>1 DEF TabOK
  <2> HIDE DEF svs
  <2>6. WindowOK(l, svs, tab[w], publishing[w], texts)
      BY <1>3, <2>1, <2>2, <2>4, <2>5 DEF WindowOK
  <2>7. edits' \in Nat /\ misled' = FALSE /\ ~blind'
      BY <1>3, <2>1
  <2> QED BY <1>2, <2>1, <2>6, <2>7
<1>18. ASSUME NEW w \in Windows, E!Confirm(w), ~blind' PROVE Goal
  <2> DEFINE pub == [at |-> "asked", revision |-> local[w].base, shown |-> local[w].text]
  <2>1. /\ publishing' = [publishing EXCEPT ![w] = pub] /\ local[w].state = "saved" /\ local[w].base # NoBase
        /\ UNCHANGED <<texts, local, tab, saves, misled, edits, blind>> /\ ~blind
      BY <1>18 DEF E!Confirm
  <2>2. PublicationOK(pub, texts)
      BY <1>3, <2>1 DEF PublicationOK, LocalOK
  <2> HIDE DEF pub
  <2>3. WindowOK(local[w], saves[w], tab[w], pub, texts)
      BY <1>3, <2>1, <2>2 DEF WindowOK
  <2>4. edits' \in Nat /\ misled' = FALSE /\ ~blind'
      BY <1>3, <2>1
  <2> QED BY <1>2, <2>1, <2>3, <2>4
<1>19. ASSUME NEW w \in Windows, E!Publish(w), ~blind' PROVE Goal
  <2>1. /\ publishing[w].at = "asked" /\ publishing' = [publishing EXCEPT ![w] = E!Resting]
        /\ misled' = (misled \/ (publishing[w].revision = Len(texts) /\ publishing[w].shown # texts[Len(texts)]))
        /\ UNCHANGED <<texts, local, tab, saves, edits, blind>> /\ ~blind
      BY <1>19 DEF E!Publish, E!Meant, E!Revision
  <2>2. PublicationOK(E!Resting, texts)
      BY DEF PublicationOK, E!Resting
  <2>3. WindowOK(local[w], saves[w], tab[w], E!Resting, texts)
      BY <1>3, <2>1, <2>2 DEF WindowOK
  <2>4. edits' \in Nat /\ misled' = FALSE /\ ~blind'
      BY <1>3, <2>1 DEF PublicationOK
  <2> QED BY <1>2, <2>1, <2>3, <2>4
\* Nothing changes that matters here.
<1>20. ASSUME UNCHANGED <<texts, local, tab, saves, publishing, misled, edits, blind>> PROVE Goal
    BY <1>20 DEF Goal, EditingInv, WindowsOK, Kept
<1>21. ASSUME NEW w \in Windows, NEW to \in {"accepted", "rejected"}, E!Decide(w, to) PROVE Goal
    BY <1>21, <1>20 DEF E!Decide
<1>22. ASSUME NEW w \in Windows, E!DecisionLost(w) PROVE Goal
    BY <1>22, <1>20 DEF E!DecisionLost, E!Written
<1>23. ASSUME NEW w \in Windows, E!Noted(w), ~blind' PROVE Goal
  <2> DEFINE l == [local[w] EXCEPT !.shown = deciding[w]]
  <2>1. /\ local' = [local EXCEPT ![w] = l] /\ ~blind
        /\ UNCHANGED <<texts, saves, tab, publishing, misled, edits, blind>>
      BY <1>23 DEF E!Noted, E!Written
  <2>2. DOMAIN l = DOMAIN local[w] /\ l.text = local[w].text /\ l.count = local[w].count
        /\ l.base = local[w].base /\ l.state = local[w].state
      BY <1>3, <2>1 DEF LocalOK
  <2> HIDE DEF l
  <2>3. LocalOK(l, texts) /\ \A sv: SaveOK(sv, local[w], texts) => SaveOK(sv, l, texts)
      BY <1>3, <2>1, <2>2, DraftMarked
  <2>4. WindowOK(l, saves[w], tab[w], publishing[w], texts)
      BY <1>3, <2>1, <2>3 DEF WindowOK
  <2>5. edits' \in Nat /\ misled' = FALSE /\ ~blind'
      BY <1>3, <2>1
  <2> QED BY <1>2, <2>1, <2>4, <2>5
\* The suggestion is one more edit of the draft.
<1>24. ASSUME NEW w \in Windows, ~blind, NEW state \in {"dirty", "saving"}
       PROVE  /\ LocalOK(E!Applied(w, state), texts)
              /\ \A sv: SaveOK(sv, local[w], texts) => SaveOK(sv, E!Applied(w, state), texts)
  <2> DEFINE l == E!Applied(w, state)
  <2>1. DOMAIN l = DOMAIN local[w] /\ l.text = local[w].text \cup {0} /\ l.count = local[w].count + 1
        /\ l.base = local[w].base /\ l.state # "saved"
      BY <1>3, <1>24 DEF LocalOK, E!Applied, E!Suggested
  <2> HIDE DEF l
  <2>2. LocalOK(l, texts) /\ \A sv: SaveOK(sv, local[w], texts) => SaveOK(sv, l, texts)
      BY <1>3, <1>24, <2>1, DraftGrows
  <2> QED BY <2>2 DEF l
<1>25. ASSUME NEW w \in Windows, E!Apply(w), ~blind' PROVE Goal
  <2> DEFINE l == E!Applied(w, "dirty")
  <2>1. /\ local' = [local EXCEPT ![w] = l] /\ ~blind
        /\ UNCHANGED <<texts, saves, tab, publishing, misled, edits, blind>>
      BY <1>25 DEF E!Apply, E!Written
  <2>2. LocalOK(l, texts) /\ \A sv: SaveOK(sv, local[w], texts) => SaveOK(sv, l, texts)
      BY <1>24, <2>1
  <2> HIDE DEF l
  <2>3. WindowOK(l, saves[w], tab[w], publishing[w], texts)
      BY <1>3, <2>1, <2>2 DEF WindowOK
  <2>4. edits' \in Nat /\ misled' = FALSE /\ ~blind'
      BY <1>3, <2>1
  <2> QED BY <1>2, <2>1, <2>3, <2>4
<1>26. ASSUME NEW w \in Windows, NEW s \in E!Savers, E!ApplyAndSave(w, s), ~blind' PROVE Goal
  <2> DEFINE l == E!Applied(w, "saving")
  <2>1. E!Begins(w, s, "rest") /\ ~blind /\ UNCHANGED <<texts, tab, publishing, misled, edits>>
        /\ local' = [local EXCEPT ![w] = l]
      BY <1>26 DEF E!ApplyAndSave, E!Written, E!Begins
  <2>2. LocalOK(l, texts) /\ \A sv: SaveOK(sv, local[w], texts) => SaveOK(sv, l, texts)
      BY <1>24, <2>1
  <2> HIDE DEF l
  <2> QED BY <1>7, <1>26, <2>1, <2>2
<1>27. ASSUME UNCHANGED E!vars PROVE Goal
    BY <1>27, <1>20 DEF E!vars
<1>28. Goal
  <2>1. CASE blind'
      BY <1>1, <2>1
  <2>2. CASE ~blind'
      BY <2>2, <1>4, <1>5, <1>6, <1>9, <1>10, <1>13, <1>14, <1>15, <1>16, <1>17, <1>18, <1>19, <1>21, <1>22,
         <1>23, <1>25, <1>26, <1>27 DEF E!Next
  <2> QED BY <2>1, <2>2
<1> QED BY <1>28 DEF Goal

LEMMA EditingInitial == E!EditingAssumption /\ E!Init => EditingInv
<1> SUFFICES ASSUME E!EditingAssumption, E!Init PROVE EditingInv
    OBVIOUS
<1>1. texts \in Seq(EditTexts) /\ edits \in Nat /\ misled = FALSE
  <2>1. {} \in EditTexts
      BY DEF EditTexts
  <2>2. <<>> \in Seq(EditTexts) /\ <<{}>> \in Seq(EditTexts)
      BY <2>1
  <2> QED BY <2>2 DEF E!Init
<1>2. /\ DOMAIN local = Windows /\ DOMAIN saves = Windows /\ DOMAIN tab = Windows /\ DOMAIN publishing = Windows
    BY DEF E!Init
<1>3. ASSUME NEW w \in Windows PROVE WindowOK(local[w], saves[w], tab[w], publishing[w], texts)
  <2>1. LocalOK(local[w], texts)
      BY <1>3 DEF E!Init, LocalOK, EditTexts
  <2>2. DOMAIN saves[w] = E!Savers /\ \A s \in E!Savers: SaveOK(saves[w][s], local[w], texts)
      BY <1>3 DEF E!Init, SaveOK, E!Resting
  <2>3. TabOK(tab[w], saves[w], texts) /\ PublicationOK(publishing[w], texts)
      BY <1>3 DEF E!Init, TabOK, PublicationOK, E!Closed, E!Resting
  <2> QED BY <2>1, <2>2, <2>3 DEF WindowOK
<1> QED BY <1>1, <1>2, <1>3 DEF EditingInv, WindowsOK

\* However many windows and saves overlap, and whatever fails: unless a save was
\* blind, the text that is published is the one its publisher was shown ...
THEOREM PublishedWasShown == E!EditingAssumption => (E!Spec => []PublishedAsShown)
<1> SUFFICES ASSUME E!EditingAssumption PROVE E!Spec => []PublishedAsShown
    OBVIOUS
<1>1. E!Init => EditingInv
    BY EditingInitial
<1>2. EditingInv /\ [E!Next]_(E!vars) => EditingInv'
    BY EditingStep
<1>3. EditingInv => PublishedAsShown
    BY DEF EditingInv, WindowsOK, PublishedAsShown, E!PublishedAsShown
<1> QED BY <1>1, <1>2, <1>3, PTL DEF E!Spec

\* ... and a save keeps every edit that the document had.
THEOREM StoredEditsAreKept == E!EditingAssumption => (E!Spec => StoredEditsStay)
<1> SUFFICES ASSUME E!EditingAssumption PROVE E!Spec => StoredEditsStay
    OBVIOUS
<1>1. E!Init => EditingInv
    BY EditingInitial
<1>2. EditingInv /\ [E!Next]_(E!vars) => EditingInv'
    BY EditingStep
<1>3. EditingInv /\ [E!Next]_(E!vars) =>
        [~blind' /\ texts # <<>> => texts[Len(texts)] \subseteq texts'[Len(texts')]]_(E!vars)
    BY EditingStep DEF Kept
<1> QED BY <1>1, <1>2, <1>3, PTL DEF E!Spec, StoredEditsStay, E!StoredEditsStay
=============================================================================
