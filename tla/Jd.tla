----------------------------------- MODULE Jd -----------------------------------
(***************************************************************************)
(* A job's description: the jobs started from a pasted text, the document  *)
(* with its analysis and published versions as the server keeps them, and  *)
(* the document as windows of the front-end edit it.  These parts share no *)
(* state (DocumentEditing has a simpler server of its own), so a behaviour *)
(* is of one of them.                                                      *)
(***************************************************************************)
EXTENDS JdPublishing, TLC

CONSTANTS
    Requests, Pasted, TextOf, NoRequest,                        \* of JdIntake
    Windows, MaxSaves, NoBase, MaxEdits, MaxTexts, MaxOpenings, MaxConfirms, Beyond   \* of DocumentEditing

VARIABLES
    part,      \* the part this behaviour is of
    jobs, drafted, source, stage, found, told,
    texts, suggestion, local, tab, saves, publishing, deciding, misled,
    edits, openings, confirms, blind

I == INSTANCE JdIntake WITH Texts <- Pasted
E == INSTANCE DocumentEditing WITH MaxRevision <- MaxTexts

ASSUME I!IntakeAssumption /\ E!EditingAssumption

intakevars == <<jobs, drafted, source, stage, found, told>>
editingvars == <<texts, suggestion, local, tab, saves, publishing, deciding, misled,
                 edits, openings, confirms, blind>>
parts == <<part, vars, intakevars, editingvars>>

JdInit ==
    /\ part \in {"publishing", "intake", "editing"}
    /\ Init
    /\ part # "publishing" => job = "draft"
    /\ I!Init
    /\ E!Init
    /\ part # "editing" => texts = <<>>

JdNext ==
    /\ UNCHANGED part
    /\ \/ part = "publishing" /\ Next /\ UNCHANGED <<intakevars, editingvars>>
       \/ part = "intake" /\ I!Next /\ UNCHANGED <<vars, editingvars>>
       \/ part = "editing" /\ E!Next /\ UNCHANGED <<vars, intakevars>>

JdSpec == JdInit /\ [][JdNext]_parts

\* JdIntake: a text resolves to one live job.
OneJobPerText == I!OneJobPerText

\* DocumentEditing: no save drops unseen what another one stored ...
StoredEditsStay == E!StoredEditsStay

\* ... and what is published is what its publisher was shown.
PublishedAsShown == E!PublishedAsShown

-----------------------------------------------------------------------------
(* For TLC: every request brings the same text.                            *)
OneText == [r \in Requests |-> CHOOSE t \in Pasted: TRUE]
Symmetry == Permutations(People) \cup Permutations(Texts)
=============================================================================
