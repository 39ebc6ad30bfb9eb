---------------------------- MODULE MCHandoffIntake ----------------------------
(* A small instance for TLC of the outbox and the services that take its     *)
(* handoffs.                                                                *)
EXTENDS HandoffIntake

\* The job's description is edited between decisions.
Edited == [d \in Decisions |-> d[2]]
=============================================================================
