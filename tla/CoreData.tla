-------------------------------- MODULE CoreData --------------------------------
(***************************************************************************)
(* What Core Record keeps: its jobs, candidates and applications, and the  *)
(* role versions that the drafts of JD mirror.  The two share no state, so *)
(* a behaviour is of one of them.                                          *)
(***************************************************************************)
EXTENDS CoreRecord

CONSTANTS Editors, Texts, NoText, MaxDrafts        \* of JdDrafts

VARIABLES
    part,      \* the part this behaviour is of
    drafts, roles, answers, snapshots, at, held

D == INSTANCE JdDrafts

ASSUME D!DraftsAssumption

draftsvars == <<drafts, roles, answers, snapshots, at, held>>
parts == <<part, vars, draftsvars>>

CoreInit == part \in {"records", "drafts"} /\ Init /\ D!Init

CoreNext ==
    /\ UNCHANGED part
    /\ \/ part = "records" /\ Next /\ UNCHANGED draftsvars
       \/ part = "drafts" /\ D!Next /\ UNCHANGED vars

CoreSpec == CoreInit /\ [][CoreNext]_parts

\* JdDrafts: what JD shows as confirmed is confirmed in Core Record.
ConfirmedInCore == D!ConfirmedInCore
=============================================================================
