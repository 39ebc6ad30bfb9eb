------------------------------- MODULE MCIdentity -------------------------------
(* Small instances of Identity for TLC.  The codes are seen twice: with       *)
(* submissions that overlap a few requests, and, as a part of its own, with    *)
(* more requests, for two e-mails and from two addresses.                   *)
EXTENDS Identity, TLC

R == INSTANCE LoginCodes WITH
        Emails <- Emails \cup {"another"}, Guessers <- {}, MaxCodes <- 3, Here <- BOOLEAN

MCInit == IdentityInit \/ (part = "requests" /\ R!Init /\ M!Init)
MCNext == IdentityNext \/ (part = "requests" /\ R!Next /\ UNCHANGED <<part, members>>)
MCSpec == MCInit /\ [][MCNext]_parts

Symmetry == Permutations(Requests) \cup Permutations(Guessers) \cup Permutations(Users)
=============================================================================
