------------------------------- MODULE JdPublishing -------------------------------
(***************************************************************************)
(* The document of a job, its analysis and its published versions          *)
(* (DocumentsService, DocAiService.analyze, VersionsService and the        *)
(* baseline migration of scripts/backfill-jd-baseline.ts).                 *)
(*                                                                         *)
(* People load a document, save it against the revision they loaded, have  *)
(* it analysed, and publish it.  A publication reads the document, opens   *)
(* the job in Core Record and writes the version under the job's lock; an  *)
(* analysis is stored long after the document was read.  Meanwhile others  *)
(* save, publish and change the status of the job, and the migration may   *)
(* write a first version or take it back.                                  *)
(***************************************************************************)
EXTENDS Naturals, Sequences

CONSTANTS
    People,          \* each with one request under way at a time
    Migrators,       \* runs of the baseline script
    Texts,           \* contents of a document, as sameContent compares them
    NoText,
    MaxRevision,     \* bounds the revisions of the document
    MaxVersions      \* bounds the published versions

ASSUME PublishingAssumption ==
    /\ NoText \notin Texts
    /\ People \cap Migrators = {}
    /\ MaxRevision \in Nat /\ MaxVersions \in Nat

VARIABLES
    doc,         \* the JobDocument row; revision 0 while there is none
    analysis,    \* aiAnalysis and aiAnalysisRevision (0: none), and the text it is of
    versions,    \* the JobDocumentVersion rows, in the order of versionNo
    job,         \* the status of the job in Core Record
    opened,      \* revisions whose key jd-publish-<job>-<revision> Core Record has answered
    view,        \* People -> the document as they have loaded it
    pc, saw,     \* handlers -> where they are, and the row they read, with the
                 \* texts its publisher had reviewed and its analysis is of
    removed      \* a document was deleted (history)

vars == <<doc, analysis, versions, job, opened, view, pc, saw, removed>>

Handlers == People \cup Migrators

\* unkept: some block holds AI-written text that nobody has kept or edited.
Rows == [revision: 0..MaxRevision, text: Texts \cup {NoText}, unkept: BOOLEAN, migrated: BOOLEAN]
NoRow == [revision |-> 0, text |-> NoText, unkept |-> FALSE, migrated |-> FALSE]
NoAnalysis == [revision |-> 0, ready |-> FALSE, text |-> NoText]
Saved == doc.revision > 0
Read(row, reviewed, analysed) == [row |-> row, reviewed |-> reviewed, analysed |-> analysed]
Nothing == Read(NoRow, NoText, NoText)

Init ==
    /\ doc = NoRow
    /\ analysis = NoAnalysis
    /\ versions = <<>>
    /\ job \in {"draft", "open"}
    /\ opened = {}
    /\ view = [p \in People |-> NoRow]
    /\ pc = [h \in Handlers |-> "idle"]
    /\ saw = [h \in Handlers |-> Nothing]
    /\ removed = FALSE

Goes(h, step, read) ==
    /\ pc' = [pc EXCEPT ![h] = step]
    /\ saw' = [saw EXCEPT ![h] = read]
\* The handler answers, fails or dies; it has no state but what it read.
Ends(h) == Goes(h, "idle", Nothing)

-----------------------------------------------------------------------------
(* Documents.                                                              *)

Load(p) ==
    /\ Saved
    /\ view' = [view EXCEPT ![p] = doc]
    /\ UNCHANGED <<doc, analysis, versions, job, opened, pc, saw, removed>>

\* The first save creates the document; a later one that names the revision
\* it was based on is refused when there is another.  The update is on the
\* condition of the revision read, so that the transaction is one step.
Save(p, t, unkept, based) ==
    /\ doc.revision < MaxRevision
    /\ based /\ Saved => view[p].revision = doc.revision
    /\ doc' = [revision |-> doc.revision + 1, text |-> t, unkept |-> unkept, migrated |-> FALSE]
    /\ analysis' = NoAnalysis
    /\ view' = [view EXCEPT ![p] = doc']
    /\ UNCHANGED <<versions, job, opened, pc, saw, removed>>

\* Only the blocks as they were saved are analysed.
Analyze(p) ==
    /\ pc[p] = "idle" /\ Saved
    /\ view[p].text = doc.text /\ view[p].unkept = doc.unkept
    /\ Goes(p, "analyzing", Read(doc, NoText, NoText))
    /\ UNCHANGED <<doc, analysis, versions, job, opened, view, removed>>

\* Mutant: the result is stored for the revision there is now.
StoreForCurrent(p, ready) ==
    /\ pc[p] = "analyzing" /\ Saved
    /\ analysis' = [revision |-> doc.revision, ready |-> ready, text |-> saw[p].row.text]
    /\ Ends(p)
    /\ UNCHANGED <<doc, versions, job, opened, view, removed>>

\* Whatever the document has become, the result is stored with the revision it
\* is of; ready: it holds nothing but suggestions.
StoreAnalysis(p, ready) ==
    /\ pc[p] = "analyzing" /\ Saved
    /\ analysis' = [revision |-> saw[p].row.revision, ready |-> ready, text |-> saw[p].row.text]
    /\ Ends(p)
    /\ UNCHANGED <<doc, versions, job, opened, view, removed>>

-----------------------------------------------------------------------------
(* Publishing.                                                             *)

IsLatest(t) == versions # <<>> /\ versions[Len(versions)].text = t

\* The gates, all on what is read now: the revision the publisher reviewed, no
\* unkept AI text, an analysis of this revision with nothing open, new content.
Publish(p) ==
    /\ pc[p] = "idle" /\ Saved
    /\ view[p].revision = doc.revision
    /\ ~doc.unkept
    /\ analysis.revision = doc.revision /\ analysis.ready
    /\ ~IsLatest(doc.text)
    /\ Goes(p, "reviewed", Read(doc, view[p].text, analysis.text))
    /\ UNCHANGED <<doc, analysis, versions, job, opened, view, removed>>

\* getJob, and updateJob with a key of this revision: a key used before is
\* answered again, and opens nothing.
OpenJob(p) ==
    /\ pc[p] = "reviewed"
    /\ IF job = "open" \/ saw[p].row.revision \in opened
       THEN UNCHANGED <<job, opened>>
       ELSE /\ job' = "open"
            /\ opened' = opened \cup {saw[p].row.revision}
    /\ Goes(p, "opened", saw[p])
    /\ UNCHANGED <<doc, analysis, versions, view, removed>>

NewVersion(p) == [text |-> saw[p].row.text, baseline |-> FALSE,
                  reviewed |-> saw[p].reviewed, analysed |-> saw[p].analysed]

\* Mutant: the content is not compared again under the lock.
PublishUnchecked(p) ==
    /\ pc[p] = "opened" /\ Len(versions) < MaxVersions
    /\ versions' = Append(versions, NewVersion(p))
    /\ Ends(p)
    /\ UNCHANGED <<doc, analysis, job, opened, view, removed>>

\* Under the job's lock: what was read before it becomes the next version,
\* unless its content is the newest version's by now.
WriteVersion(p) ==
    /\ pc[p] = "opened" /\ Len(versions) < MaxVersions
    /\ ~IsLatest(saw[p].row.text)
    /\ versions' = Append(versions, NewVersion(p))
    /\ Ends(p)
    /\ UNCHANGED <<doc, analysis, job, opened, view, removed>>

-----------------------------------------------------------------------------
(* The baseline migration.                                                 *)

\* A job without versions, open in Core Record, with a document or a draft;
\* drafts are written at any time, so that the draft's text is any.
LookForBaseline(m) ==
    /\ pc[m] = "idle"
    /\ versions = <<>> /\ job = "open"
    /\ \/ Saved /\ Goes(m, "from document", Read(doc, NoText, NoText))
       \/ ~Saved /\ \E t \in Texts: Goes(m, "from draft", Read([NoRow EXCEPT !.text = t], NoText, NoText))
    /\ UNCHANGED <<doc, analysis, versions, job, opened, view, removed>>

BaselineVersion(t) == <<[text |-> t, baseline |-> TRUE, reviewed |-> NoText, analysed |-> NoText]>>

\* Mutant: a publication that landed meanwhile is not looked for.
WriteBaselineAnyway(m) ==
    /\ pc[m] \in {"from document", "from draft"}
    /\ pc[m] = "from draft" => ~Saved
    /\ versions' = BaselineVersion(saw[m].row.text)
    /\ doc' = IF pc[m] = "from draft"
              THEN [revision |-> 1, text |-> saw[m].row.text, unkept |-> FALSE, migrated |-> TRUE]
              ELSE doc
    /\ Ends(m)
    /\ UNCHANGED <<analysis, job, opened, view, removed>>

\* Under the job's lock: v1, and with it the document when it is the draft's.
\* A document that someone saved meanwhile is in the way (P2002).
WriteBaseline(m) ==
    /\ pc[m] \in {"from document", "from draft"}
    /\ versions = <<>>
    /\ pc[m] = "from draft" => ~Saved
    /\ versions' = BaselineVersion(saw[m].row.text)
    /\ doc' = IF pc[m] = "from draft"
              THEN [revision |-> 1, text |-> saw[m].row.text, unkept |-> FALSE, migrated |-> TRUE]
              ELSE doc
    /\ Ends(m)
    /\ UNCHANGED <<analysis, job, opened, view, removed>>

Untouched == doc.migrated /\ doc.revision = 1

\* One transaction under the job's lock.  Only a document of the migration can be
\* untouched, so that where the baseline came from need not be remembered.
RollBackBaseline ==
    /\ Len(versions) = 1 /\ versions[1].baseline
    /\ versions' = <<>>
    /\ IF Untouched
       THEN doc' = NoRow /\ analysis' = NoAnalysis /\ removed' = TRUE
       ELSE UNCHANGED <<doc, analysis, removed>>
    /\ UNCHANGED <<job, opened, view, pc, saw>>

-----------------------------------------------------------------------------
(* What else happens.                                                      *)

\* An error on the way, a gate or a condition that refuses, the end of a process.
Fail(h) ==
    /\ pc[h] # "idle"
    /\ Ends(h)
    /\ UNCHANGED <<doc, analysis, versions, job, opened, view, removed>>

\* The status of the job is set, with a key of its own.  (When the job is deleted,
\* requests fail.)
SetStatus(to) ==
    /\ job' = to
    /\ UNCHANGED <<doc, analysis, versions, opened, view, pc, saw, removed>>

Next ==
    \/ \E p \in People:
        \/ Load(p)
        \/ \E t \in Texts, unkept, based \in BOOLEAN: Save(p, t, unkept, based)
        \/ Analyze(p)
        \/ \E ready \in BOOLEAN: StoreAnalysis(p, ready)
        \/ Publish(p)
        \/ OpenJob(p)
        \/ WriteVersion(p)
    \/ \E m \in Migrators: LookForBaseline(m) \/ WriteBaseline(m)
    \/ RollBackBaseline
    \/ \E h \in Handlers: Fail(h)
    \/ \E to \in {"draft", "open"}: SetStatus(to)

Spec == Init /\ [][Next]_vars
-----------------------------------------------------------------------------
TypeOK ==
    /\ doc \in Rows
    /\ analysis \in [revision: 0..MaxRevision, ready: BOOLEAN, text: Texts \cup {NoText}]
    /\ versions \in Seq([text: Texts, baseline: BOOLEAN,
                        reviewed: Texts \cup {NoText}, analysed: Texts \cup {NoText}])
    /\ job \in {"draft", "open"}
    /\ opened \in SUBSET (1..MaxRevision)
    /\ view \in [People -> Rows]
    /\ pc \in [Handlers -> {"idle", "analyzing", "reviewed", "opened", "from document", "from draft"}]
    /\ saw \in [Handlers -> [row: Rows, reviewed: Texts \cup {NoText}, analysed: Texts \cup {NoText}]]
    /\ removed \in BOOLEAN

\* A published version is the text its publisher reviewed and the AI analysed,
\* although both name a revision only and the version is written long after
\* ("refuses to publish anything else").  A roll-back that deletes the document
\* begins its revisions anew; until then, they name its texts.
PublishedAsReviewed ==
    removed \/ \A i \in 1..Len(versions):
        LET v == versions[i] IN
        ~v.baseline => v.reviewed = v.text /\ v.analysed = v.text

\* The list of versions is as VersionLog says, however publications, the
\* migration and its roll-back overlap.
Log == INSTANCE VersionLog WITH
    log <- [i \in 1..Len(versions) |-> [text |-> versions[i].text, baseline |-> versions[i].baseline]]

ImplementsVersionLog == Log!Spec

\* Not so: publications of different revisions overtake each other between the
\* reading of the document and the lock, and the newest version is an older text.
NewestIsLatest ==
    [][Len(versions') > Len(versions) => versions'[Len(versions')].text = doc.text]_vars

\* Not so: a publication that failed after opening the job, repeated after the
\* job went back to finds its key answered and opens nothing.
PublishedIsOpen ==
    [][\A p \in People: pc[p] = "reviewed" /\ pc'[p] = "opened" => job' = "open"]_vars
=============================================================================
