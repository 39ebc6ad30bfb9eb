-------------------------------- MODULE VersionLog --------------------------------
(***************************************************************************)
(* What a job's published versions promise their readers, without          *)
(* documents, reviews or locks: a list that only grows, each version       *)
(* different from the one before it and never changed, except that the     *)
(* baseline a migration put first may be taken back while it is alone.     *)
(***************************************************************************)
EXTENDS Naturals, Sequences

CONSTANTS Texts

VARIABLE log    \* <<[text, baseline], ...>>: v1, v2, ...

Init == log = <<>>

Publish(t) ==
    /\ log # <<>> => log[Len(log)].text # t
    /\ log' = Append(log, [text |-> t, baseline |-> FALSE])

Baseline(t) ==
    /\ log = <<>>
    /\ log' = <<[text |-> t, baseline |-> TRUE]>>

Retract ==
    /\ Len(log) = 1 /\ log[1].baseline
    /\ log' = <<>>

Next == Retract \/ \E t \in Texts: Publish(t) \/ Baseline(t)

Spec == Init /\ [][Next]_log
=============================================================================
