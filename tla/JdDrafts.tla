--------------------------------- MODULE JdDrafts ---------------------------------
(***************************************************************************)
(* The drafts of a job in JD and the role versions in Core Record that     *)
(* mirror them (DraftsService; RoleVersionsService).                       *)
(*                                                                         *)
(* Every write goes to Core Record first and to JD's own row after, in     *)
(* two transactions of two services; a request may fail, or its process    *)
(* end, between them.  Both sides read their row before their transaction  *)
(* and update it by its id.  JD derives the idempotency keys of its calls  *)
(* from the content they carry, and Core Record answers a key it has       *)
(* answered before from its store, without looking at the version again.   *)
(* The deletion of the job, after which requests fail, is left out.        *)
(***************************************************************************)
EXTENDS Naturals, Sequences

CONSTANTS
    Editors,         \* requests under way
    Texts,           \* contents of a draft or of a role version
    NoText,
    MaxDrafts        \* bounds the revisions of the draft

DraftsAssumption == NoText \notin Texts /\ MaxDrafts \in Nat

VARIABLES
    drafts,      \* JobDraft rows by revision: [status, text, role]
    roles,       \* RoleDefinitionVersion rows by versionNo: [status, text]
    answers,     \* Core Record's idempotency keys: [op, on, text], with the version answered
    snapshots,   \* JobRequirementSnapshot rows: the version and the text projected
    at, held      \* Editors -> where the request is, and what it has read

rows == <<drafts, roles, answers, snapshots>>
vars == <<rows, at, held>>

Steps == {"idle", "create", "created", "update", "updating", "updated",
          "confirm", "confirming", "confirmed", "snapshot"}
Nothing == [draft |-> 0, role |-> 0, text |-> NoText]

Init ==
    /\ drafts = <<>>
    /\ roles = <<>>
    /\ answers = {}
    /\ snapshots = {}
    /\ at = [e \in Editors |-> "idle"]
    /\ held = [e \in Editors |-> Nothing]

Goes(e, step, read) ==
    /\ at' = [at EXCEPT ![e] = step]
    /\ held' = [held EXCEPT ![e] = read]
Reads(e, step, draft, role, text) ==
    /\ Goes(e, step, [draft |-> draft, role |-> role, text |-> text])
    /\ UNCHANGED rows
Ends(e) == Goes(e, "idle", Nothing)

\* The answers Core Record has stored under a key: none or one.
Answered(op, on, text) == {a \in answers: a.op = op /\ a.on = on /\ a.text = text}
Answers(op, on, text, role) ==
    answers' = answers \cup {[op |-> op, on |-> on, text |-> text, role |-> role]}

-----------------------------------------------------------------------------
(* What the requests read in JD.                                           *)

Current == drafts[Len(drafts)]

AskCreate(e, t) == at[e] = "idle" /\ Reads(e, "create", 0, 0, t)

AskUpdate(e, t) ==
    /\ at[e] = "idle" /\ drafts # <<>> /\ Current.status = "draft"
    /\ Reads(e, "update", Len(drafts), Current.role, t)

AskConfirm(e, r) ==
    /\ at[e] = "idle" /\ drafts[r].status = "draft"
    /\ Reads(e, "confirm", r, drafts[r].role, NoText)

\* A confirmed draft is reopened as a new one with its text.
AskReopen(e) ==
    /\ at[e] = "idle" /\ drafts # <<>> /\ Current.status = "confirmed"
    /\ Reads(e, "create", 0, 0, Current.text)

-----------------------------------------------------------------------------
(* Core Record.                                                            *)

\* One transaction: the next version number is unique per job.
CoreCreate(e) ==
    LET t == held[e].text IN
    /\ at[e] = "create"
    /\ IF Answered("create", 0, t) # {}
       THEN /\ \E a \in Answered("create", 0, t): Goes(e, "created", [held[e] EXCEPT !.role = a.role])
            /\ UNCHANGED <<roles, answers>>
       ELSE /\ Len(roles) < MaxDrafts
            /\ roles' = Append(roles, [status |-> "draft", text |-> t])
            /\ Answers("create", 0, t, Len(roles'))
            /\ Goes(e, "created", [held[e] EXCEPT !.role = Len(roles')])
    /\ UNCHANGED <<drafts, snapshots>>

\* The version is read, and must be a draft ...
CoreLook(e) ==
    /\ at[e] = "update" /\ roles[held[e].role].status = "draft"
    /\ Goes(e, "updating", held[e])
    /\ UNCHANGED rows

\* ... and then written by its id, unless the key was answered before.
CoreUpdate(e) ==
    LET v == held[e].role
        t == held[e].text
    IN
    /\ at[e] = "updating"
    /\ IF Answered("update", v, t) # {}
       THEN UNCHANGED <<roles, answers>>
       ELSE /\ roles' = [roles EXCEPT ![v].text = t]
            /\ Answers("update", v, t, v)
    /\ Goes(e, "updated", held[e])
    /\ UNCHANGED <<drafts, snapshots>>

\* A confirmed version is answered as it is; an update by id otherwise, which
\* depends on nothing read before, so that both are one step.
CoreConfirm(e) ==
    LET v == held[e].role IN
    /\ at[e] = "confirm"
    /\ IF Answered("confirm", v, NoText) # {} \/ roles[v].status = "confirmed"
       THEN UNCHANGED <<roles, answers>>
       ELSE /\ roles' = [roles EXCEPT ![v].status = "confirmed"]
            /\ Answers("confirm", v, NoText, v)
    /\ Goes(e, "confirmed", held[e])
    /\ UNCHANGED <<drafts, snapshots>>

-----------------------------------------------------------------------------
(* JD's own row, after Core Record has answered.  A request whose key JD has  *)
(* answered before writes nothing, as one that fails.                       *)

JdCreate(e) ==
    /\ at[e] = "created" /\ Len(drafts) < MaxDrafts
    /\ drafts' = Append(drafts, [status |-> "draft", text |-> held[e].text, role |-> held[e].role])
    /\ Ends(e)
    /\ UNCHANGED <<roles, answers, snapshots>>

\* By its id, whatever has become of it.
JdUpdate(e) ==
    /\ at[e] = "updated"
    /\ drafts' = [drafts EXCEPT ![held[e].draft].text = held[e].text]
    /\ Ends(e)
    /\ UNCHANGED <<roles, answers, snapshots>>

\* Mutant: JD confirms its draft without waiting for Core Record.
JdConfirmFirst(e) ==
    /\ at[e] \in {"confirm", "confirmed"}
    /\ drafts' = [drafts EXCEPT ![held[e].draft].status = "confirmed"]
    /\ Ends(e)
    /\ UNCHANGED <<roles, answers, snapshots>>

\* The version is read again for the answer: without it the transaction fails.
JdConfirm(e) ==
    /\ at[e] = "confirmed"
    /\ drafts' = [drafts EXCEPT ![held[e].draft].status = "confirmed"]
    /\ Ends(e)
    /\ UNCHANGED <<roles, answers, snapshots>>

-----------------------------------------------------------------------------
(* Snapshots, failures.                                                    *)

AskSnapshot(e, v) ==
    /\ at[e] = "idle" /\ roles[v].status = "confirmed"
    /\ Reads(e, "snapshot", 0, v, roles[v].text)

\* What was read is projected; one snapshot of a version for a purpose.
CoreSnapshot(e) ==
    /\ at[e] = "snapshot"
    /\ \A s \in snapshots: s.role # held[e].role
    /\ snapshots' = snapshots \cup {[role |-> held[e].role, text |-> held[e].text]}
    /\ Ends(e)
    /\ UNCHANGED <<drafts, roles, answers>>

Fail(e) ==
    /\ at[e] # "idle"
    /\ Ends(e)
    /\ UNCHANGED rows

Next ==
    \E e \in Editors:
        \/ \E t \in Texts: AskCreate(e, t) \/ AskUpdate(e, t)
        \/ \E r \in 1..Len(drafts): AskConfirm(e, r)
        \/ AskReopen(e)
        \/ CoreCreate(e)
        \/ CoreLook(e)
        \/ CoreUpdate(e)
        \/ CoreConfirm(e)
        \/ JdCreate(e)
        \/ JdUpdate(e)
        \/ JdConfirm(e)
        \/ \E v \in 1..Len(roles): AskSnapshot(e, v)
        \/ CoreSnapshot(e)
        \/ Fail(e)

Spec == Init /\ [][Next]_vars
-----------------------------------------------------------------------------
TypeOK ==
    /\ drafts \in Seq([status: {"draft", "confirmed"}, text: Texts, role: 1..MaxDrafts])
    /\ roles \in Seq([status: {"draft", "confirmed"}, text: Texts])
    /\ \A a \in answers:
        /\ a.op \in {"create", "update", "confirm"} /\ a.on \in 0..MaxDrafts
        /\ a.text \in Texts \cup {NoText} /\ a.role \in 1..MaxDrafts
    /\ snapshots \subseteq [role: 1..MaxDrafts, text: Texts]
    /\ at \in [Editors -> Steps]
    /\ held \in [Editors -> [draft: 0..MaxDrafts, role: 0..MaxDrafts, text: Texts \cup {NoText}]]

\* A draft that JD shows as confirmed is a confirmed version in Core Record,
\* wherever a confirmation fails between the two; and every draft and every
\* snapshot has its version there.
ConfirmedInCore ==
    /\ \A r \in 1..Len(drafts):
        /\ drafts[r].role \in 1..Len(roles)
        /\ drafts[r].status = "confirmed" => roles[drafts[r].role].status = "confirmed"
    /\ \A s \in snapshots: roles[s.role].status = "confirmed"

\* Not so: the key of a creation is its content, so that a text reopened for the
\* second time is answered with the version that was confirmed since, and the
\* new draft cannot be edited; nor can one whose confirmation failed half-way.
DraftsCanBeEdited ==
    \A r \in 1..Len(drafts):
        drafts[r].status = "draft" /\ (\A e \in Editors: at[e] = "idle")
            => roles[drafts[r].role].status = "draft"

\* Not so: the key of an update is its content, too.  A text that is restored
\* is answered from the store; concurrent updates reach the two services in
\* different orders; and an update may pass a confirmation.
SameText ==
    \A r \in 1..Len(drafts):
        (\A e \in Editors: at[e] = "idle") => roles[drafts[r].role].text = drafts[r].text

\* Not so: an update that read the version as a draft writes it after it was confirmed.
SnapshotsAreTrue == \A s \in snapshots: s.text = roles[s.role].text
=============================================================================
