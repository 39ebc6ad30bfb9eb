--------------------------- MODULE DocumentEditing ---------------------------
(***************************************************************************)
(* The document of a job as windows of the JD front-end edit it            *)
(* (useDocumentSaver, DocumentTab, docActions, PublishModal), against the  *)
(* document that the server keeps.                                         *)
(*                                                                         *)
(* A window loads the document when its tab opens, and shows what it       *)
(* loaded when the answer comes, also over edits made meanwhile.  A save   *)
(* waits for the editors to commit, sends the text with the revision it is *)
(* based on, and marks the window as saved if nothing was edited since.    *)
(* An accepted suggestion marks the window as unsaved at once, which lets  *)
(* a second save start next to the first.                                  *)
(*                                                                         *)
(* A text is the set of edits in it; the suggestion is one of them.        *)
(***************************************************************************)
EXTENDS Naturals, Sequences

CONSTANTS
  Windows,      \* each with the store of one browser tab
  MaxSaves,     \* bound: saves of a window under way at a time
  NoBase,       \* no revision: the document was never saved or loaded
  MaxEdits,     \* bound: edits typed
  MaxRevision,  \* bound: revisions of the document
  MaxOpenings,  \* bound: openings of tabs
  MaxConfirms,  \* bound: publications asked for
  Beyond        \* bound: whether behaviours go on after a blind save

EditingAssumption ==
  /\ {MaxSaves, MaxEdits, MaxRevision, MaxOpenings, MaxConfirms} \subseteq Nat
  /\ NoBase \notin Nat
  /\ Beyond \in BOOLEAN

VARIABLES
  texts,       \* the texts of the document by revision; its length is the revision
  suggestion,  \* status of the JobDocumentSuggestion row
  local,       \* by window, the draft in its store: text, edits counted, base, saveState
  tab,         \* by window, whether the document tab is open, and the answer on its way to it
  saves,       \* by window and saver, a save under way
  publishing,  \* by window, a publication under way
  deciding,    \* by window, a decision on the suggestion under way
  misled,      \* history: a text was published that its publisher was not shown
  edits,       \* history: how many edits were typed
  openings,    \* history: how often a tab was opened
  confirms,    \* history: how often a publication was asked for
  blind        \* history: a save ran next to a load of its window, or was the first of two

vars == <<texts, suggestion, local, tab, saves, publishing, deciding, misled, edits, openings, confirms, blind>>

Savers == 1..MaxSaves
Resting == [at |-> "rest"]
Closed == [at |-> "closed"]
Open == [at |-> "open"]
Suggested == 0

Revision == Len(texts)

Init ==
  /\ texts \in {<<>>, <<{}>>}
  /\ suggestion = "proposed"
  /\ local = [w \in Windows |-> [text |-> {}, count |-> 1, base |-> NoBase, state |-> "saved", shown |-> "proposed"]]
  /\ tab = [w \in Windows |-> Closed]
  /\ saves = [w \in Windows |-> [s \in Savers |-> Resting]]
  /\ publishing = [w \in Windows |-> Resting]
  /\ deciding = [w \in Windows |-> "none"]
  /\ misled = FALSE
  /\ edits = 0
  /\ openings = 0
  /\ confirms = 0
  /\ blind = FALSE

Saving(w) == \E s \in Savers : saves[w][s] # Resting

-----------------------------------------------------------------------------
(* Loading.                                                                *)

\* A window with unsaved edits keeps them; else the document is asked for, and
\* the suggestions.  That the server reads it at once leaves out nothing: a
\* later reading is a later opening.
OpenTab(w) ==
  /\ tab[w] = Closed
  /\ openings < MaxOpenings
  /\ openings' = openings + 1
  /\ tab' = [tab EXCEPT ![w] = IF local[w].state = "dirty" THEN Open
                               ELSE [at |-> "loading", revision |-> Revision]]
  /\ local' = [local EXCEPT ![w].shown = suggestion]
  /\ blind' = (blind \/ (Saving(w) /\ local[w].state # "dirty"))
  /\ UNCHANGED <<texts, suggestion, saves, publishing, deciding, misled, edits, confirms>>

\* The answer replaces the draft, whatever was edited meanwhile.  A document
\* that was never saved is seeded from the content of the job, if it has any.
ShowLoaded(w) ==
  /\ tab[w].at = "loading"
  /\ tab' = [tab EXCEPT ![w] = Open]
  /\ LET r == tab[w].revision IN
       \/ r > 0 /\ local' = [local EXCEPT ![w] = [@ EXCEPT !.text = texts[r], !.base = r, !.state = "saved"]]
       \/ r = 0 /\ local' = [local EXCEPT ![w] = [@ EXCEPT !.text = {}, !.count = 1, !.base = NoBase, !.state = "saved"]]
       \/ r = 0 /\ UNCHANGED local
  /\ UNCHANGED <<texts, suggestion, saves, publishing, deciding, misled, edits, openings, confirms, blind>>

\* Typing, which the editors commit to the draft after a pause.
Edit(w) ==
  /\ tab[w] # Closed
  /\ edits < MaxEdits
  /\ edits' = edits + 1
  /\ local' = [local EXCEPT ![w] = [@ EXCEPT !.text = local[w].text \cup {edits + 1},
                                    !.count = local[w].count + 1,
                                    !.state = IF local[w].state = "saving" THEN "saving" ELSE "dirty"]]
  /\ UNCHANGED <<texts, suggestion, tab, saves, publishing, deciding, misled, openings, confirms, blind>>

-----------------------------------------------------------------------------
(* Saving.                                                                 *)

\* A save starts unless one shows as under way, and then waits for the editors.
Begins(w, s, then) ==
  /\ saves[w][s] = Resting
  /\ \A t \in 1..s - 1 : saves[w][t] # Resting
  /\ saves' = [saves EXCEPT ![w][s] = [at |-> "waits", then |-> then]]
  /\ blind' = (blind \/ tab[w].at = "loading")

\* The button, the keys.
Save(w, s) ==
  /\ tab[w] # Closed
  /\ local[w].state = "dirty"
  /\ Begins(w, s, "rest")
  /\ local' = [local EXCEPT ![w].state = "saving"]
  /\ UNCHANGED <<texts, suggestion, tab, publishing, deciding, misled, edits, openings, confirms>>

\* What is sent: the draft when the pause is over, or when what asked was left.
Sent(w, s) ==
  IF saves[w][s].at = "waits"
  THEN [at |-> "sent", then |-> saves[w][s].then,
        text |-> local[w].text, base |-> local[w].base, count |-> local[w].count]
  ELSE saves[w][s]

\* The tab, or the dialog, is left: a save of its own that waits will send what
\* it showed last.
Leaves(w, then) ==
  saves' = [saves EXCEPT ![w] = [s \in Savers |->
    IF saves[w][s] # Resting /\ saves[w][s].then = then THEN Sent(w, s) ELSE saves[w][s]]]

\* Nothing that is loading is shown any more.
CloseTab(w) ==
  /\ tab[w] # Closed
  /\ tab' = [tab EXCEPT ![w] = Closed]
  /\ Leaves(w, "rest")
  /\ UNCHANGED <<texts, suggestion, local, publishing, deciding, misled, edits, openings, confirms, blind>>

\* Mutant: the revision that a save is based on is not looked at.
AcceptsAny(base) == TRUE

\* The document is still at the revision the save is based on, or none is named:
\* a first save is not compared with a document there is by now.
Accepts(base) == base \in {NoBase, Revision}

\* The request is sent and stored.
Store(w, s) ==
  /\ saves[w][s].at \in {"waits", "sent"}
  /\ Revision < MaxRevision
  /\ Accepts(Sent(w, s).base)
  /\ texts' = Append(texts, Sent(w, s).text)
  /\ blind' = (blind \/ (Sent(w, s).base = NoBase /\ Revision > 0))
  /\ saves' = [saves EXCEPT ![w][s] = [at |-> "stored", then |-> @.then, revision |-> Revision + 1,
                                       count |-> Sent(w, s).count]]
  /\ UNCHANGED <<suggestion, local, tab, publishing, deciding, misled, edits, openings, confirms>>

\* Mutant: the draft counts as saved although it was edited meanwhile.
StillAsSent(w, s) == TRUE

\* Nothing was edited since the draft was sent.
AsSent(w, s) == local[w].count = saves[w][s].count

\* The window learns the new revision; edits made meanwhile stay unsaved.  The
\* publication that waited for the save goes on.
Answered(w, s) ==
  /\ saves[w][s].at = "stored"
  /\ local' = [local EXCEPT ![w] = [@ EXCEPT !.base = saves[w][s].revision,
                                             !.state = IF AsSent(w, s) THEN "saved" ELSE "dirty"]]
  /\ publishing' = [publishing EXCEPT ![w] =
       IF saves[w][s].then = "publish"
       THEN [at |-> "asked", revision |-> saves[w][s].revision, shown |-> texts[saves[w][s].revision]] ELSE @]
  /\ saves' = [saves EXCEPT ![w][s] = Resting]
  /\ UNCHANGED <<texts, suggestion, tab, deciding, misled, edits, openings, confirms, blind>>

\* It is refused, does not arrive, or its answer is lost: the draft is unsaved.
SaveFails(w, s) ==
  /\ saves[w][s] # Resting
  /\ local' = [local EXCEPT ![w].state = "dirty"]
  /\ saves' = [saves EXCEPT ![w][s] = Resting]
  /\ UNCHANGED <<texts, suggestion, tab, publishing, deciding, misled, edits, openings, confirms, blind>>

-----------------------------------------------------------------------------
(* Publishing.                                                             *)

\* The dialog is open over the draft, and not busy.  One that was closed while
\* busy is not opened again before its publication is over.
InDialog(w) ==
  /\ confirms < MaxConfirms
  /\ publishing[w] = Resting
  /\ \A s \in Savers : saves[w][s] # Resting => saves[w][s].then # "publish"

\* Confirmed: the revision the draft is saved as is published ...
Confirm(w) ==
  /\ InDialog(w)
  /\ confirms' = confirms + 1
  /\ local[w].state = "saved" /\ local[w].base # NoBase
  /\ publishing' = [publishing EXCEPT ![w] =
       [at |-> "asked", revision |-> local[w].base, shown |-> local[w].text]]
  /\ UNCHANGED <<texts, suggestion, local, tab, saves, deciding, misled, edits, openings, blind>>

\* ... after a save, if the draft has become unsaved or was never saved.
ConfirmUnsaved(w, s) ==
  /\ InDialog(w)
  /\ confirms' = confirms + 1
  /\ local[w].state = "dirty" \/ (local[w].state = "saved" /\ local[w].base = NoBase)
  /\ Begins(w, s, "publish")
  /\ local' = [local EXCEPT ![w].state = "saving"]
  /\ UNCHANGED <<texts, suggestion, tab, publishing, deciding, misled, edits, openings>>

\* The dialog may be closed while it waits for the save.
CloseDialog(w) ==
  /\ \E s \in Savers : saves[w][s].at = "waits" /\ saves[w][s].then = "publish"
  /\ Leaves(w, "publish")
  /\ UNCHANGED <<texts, suggestion, local, tab, publishing, deciding, misled, edits, openings, confirms, blind>>

\* The document is still at the revision to be published.
Meant(w) == publishing[w].revision = Revision

\* The server publishes that revision, or refuses; its other gates are those of
\* JdPublishing.
Publish(w) ==
  /\ publishing[w].at = "asked"
  /\ misled' = (misled \/ (Meant(w) /\ publishing[w].shown # texts[Revision]))
  /\ publishing' = [publishing EXCEPT ![w] = Resting]
  /\ UNCHANGED <<texts, suggestion, local, tab, saves, deciding, edits, openings, confirms, blind>>

-----------------------------------------------------------------------------
(* The suggestion.                                                         *)

\* One that shows as open is accepted or rejected; the server sees whether it
\* is open still ...
Decide(w, to) ==
  /\ tab[w] # Closed
  /\ deciding[w] = "none"
  /\ local[w].shown = "proposed"
  /\ suggestion = "proposed"
  /\ deciding' = [deciding EXCEPT ![w] = to]
  /\ UNCHANGED <<texts, suggestion, local, tab, saves, publishing, misled, edits, openings, confirms, blind>>

\* ... and writes the decision, whatever has been decided since.
Written(w) ==
  /\ deciding[w] # "none"
  /\ suggestion' = deciding[w]
  /\ deciding' = [deciding EXCEPT ![w] = "none"]
  /\ UNCHANGED <<texts, tab, publishing, misled, edits, openings, confirms>>

\* Rejected, or accepted for a place that has changed: the draft stays.
Noted(w) ==
  /\ Written(w)
  /\ local' = [local EXCEPT ![w].shown = deciding[w]]
  /\ UNCHANGED <<saves, blind>>

Applied(w, state) == [local[w] EXCEPT !.text = @ \cup {Suggested}, !.count = @ + 1,
                                      !.state = state, !.shown = "accepted"]

\* Accepted: the draft has it, is unsaved even while it is being saved, and is
\* saved if its tab is open.
Apply(w) ==
  /\ Written(w) /\ deciding[w] = "accepted"
  /\ tab[w] = Closed
  /\ local' = [local EXCEPT ![w] = Applied(w, "dirty")]
  /\ UNCHANGED <<saves, blind>>

ApplyAndSave(w, s) ==
  /\ Written(w) /\ deciding[w] = "accepted"
  /\ tab[w] # Closed
  /\ local' = [local EXCEPT ![w] = Applied(w, "saving")]
  /\ Begins(w, s, "rest")

\* The answer is lost after the writing: nothing is applied.  (Lost before it,
\* the decision might as well not have been made.)
DecisionLost(w) ==
  /\ Written(w)
  /\ UNCHANGED <<local, saves, blind>>

-----------------------------------------------------------------------------
Next ==
  /\ blind => Beyond
  /\ \E w \in Windows :
    \/ OpenTab(w) \/ ShowLoaded(w) \/ Edit(w) \/ CloseTab(w)
    \/ \E s \in Savers : \/ Save(w, s) \/ Store(w, s) \/ Answered(w, s) \/ SaveFails(w, s)
                         \/ ConfirmUnsaved(w, s) \/ ApplyAndSave(w, s)
    \/ Confirm(w) \/ CloseDialog(w) \/ Publish(w)
    \/ \E to \in {"accepted", "rejected"} : Decide(w, to)
    \/ Noted(w) \/ Apply(w) \/ DecisionLost(w)

Spec == Init /\ [][Next]_vars

(* What a save has stored stays in the document: nobody's later save drops *)
(* it unseen, also where two saves of one window overlap.  Except after a  *)
(* save that ran next to a load of its own window, or that was the first   *)
(* of a document another window had saved meanwhile.                       *)
StoredEditsStay == [][~blind' /\ texts # <<>> =>
  texts[Len(texts)] \subseteq texts'[Len(texts')]]_vars

(* With the same exceptions, what is published is what its publisher was   *)
(* shown.                                                                  *)
PublishedAsShown == ~blind => ~misled

(* Not so without the exceptions.                                          *)
NothingIsDropped == [][texts # <<>> => texts[Len(texts)] \subseteq texts'[Len(texts')]]_vars

(* Not so: an edit that was not saved is not replaced by what is loaded.   *)
UnsavedEditsWin == [][\A w \in Windows :
  local[w].state = "dirty" => local[w].text \subseteq local'[w].text]_vars

(* Not so: the text of a rejected suggestion is not in the document.  Two  *)
(* windows may decide at once, and the later write counts.                 *)
RejectedStaysOut == suggestion = "rejected" =>
  \A r \in DOMAIN texts : Suggested \notin texts[r]
=============================================================================
