-------------------------------- MODULE Identity --------------------------------
(***************************************************************************)
(* Who may sign in, and as what: sign-in codes, and members with their     *)
(* sessions.  The two share no state (a sign-in of Membership begins when  *)
(* its code was consumed), so a behaviour is of one of them.               *)
(***************************************************************************)
EXTENDS LoginCodes

CONSTANTS Users, Bootstraps, Handlers, Nobody        \* of Membership

VARIABLES
    part,      \* the part this behaviour is of
    member, admin, disabled, live, signing, request, stale, overlapped

M == INSTANCE Membership

ASSUME M!MembershipAssumption

members == <<member, admin, disabled, live, signing, request, stale, overlapped>>
parts == <<part, vars, members>>

IdentityInit == part \in {"codes", "members"} /\ Init /\ M!Init

IdentityNext ==
    /\ UNCHANGED part
    /\ \/ part = "codes" /\ Next /\ UNCHANGED members
       \/ part = "members" /\ M!Next /\ UNCHANGED vars

IdentitySpec == IdentityInit /\ [][IdentityNext]_parts

\* Membership: one administrator remains while no two requests overlap ...
AdminRemains == M!AdminRemains

\* ... and sessions end with their account.
SessionsEnd == M!SessionsEnd
=============================================================================
