--------------------------- MODULE MCScreeningBatches ---------------------------
(* Small instances of ScreeningBatches for TLC. *)
EXTENDS ScreeningBatches

CONSTANTS b1, b2, a1, a2

\* Both batches ask for a1, the first one also for a2.
Overlapping == {<<b1, a1>>, <<b1, a2>>, <<b2, a1>>}
=============================================================================
