--------------------------------- MODULE Membership ---------------------------------
(***************************************************************************)
(* Members, administrators and sessions (UsersService, AuthService.signIn, *)
(* SessionsService, BootstrapService).                                     *)
(*                                                                         *)
(* A request of an administrator reads the membership and, when it takes   *)
(* an administrator away, counts the others; then it writes without a      *)
(* condition; and last, when an account has ended, it revokes its          *)
(* sessions.  A sign-in reads user and membership, updates them, and       *)
(* opens its session, each in a statement of its own.  One that fails is   *)
(* as one not sent, or as a sign-in with a logout.                         *)
(***************************************************************************)
CONSTANTS
    Users,
    Bootstraps,      \* BOOTSTRAP_ADMIN_EMAILS
    Handlers,        \* requests of administrators under way
    Nobody

MembershipAssumption == Bootstraps \subseteq Users /\ Nobody \notin Users

VARIABLES
    member,      \* Users -> none, or Membership.status
    admin,       \* Users -> the roles of the membership include admin
    disabled,    \* Users -> User.status
    live,        \* Users -> has a session that is not revoked, other than those of
                 \* sign-ins that were overtaken and of revocations that failed
    signing,     \* Users -> its sign-in under way, and whether the account ended meanwhile
    request,     \* Handlers -> the request under way, and how far it is
    stale,       \* requests that another has overtaken since their reads (history)
    overlapped   \* one of them has written (history)

vars == <<member, admin, disabled, live, signing, request, stale, overlapped>>

Req(step, u, role, status) == [step |-> step, user |-> u, role |-> role, status |-> status]
Idle == Req("idle", Nobody, "same", "same")
Roles == {"same", "admin", "other"}
Statuses == {"same", "active", "disabled"}
NoSignIn == [step |-> "no", raced |-> FALSE]

Belongs(u) == member[u] \in {"invited", "active"}
IsAdmin(u) == Belongs(u) /\ admin[u] /\ ~disabled[u]
Ended(u) == member[u] = "removed" \/ disabled[u]

Init ==
    /\ \E u \in Users:
        /\ member = [v \in Users |-> IF v = u THEN "active" ELSE "none"]
        /\ admin = [v \in Users |-> v = u]
    /\ disabled = [u \in Users |-> FALSE]
    /\ live = [u \in Users |-> FALSE]
    /\ signing = [u \in Users |-> NoSignIn]
    /\ request = [h \in Handlers |-> Idle]
    /\ stale = {}
    /\ overlapped = FALSE

-----------------------------------------------------------------------------
(* Sign-ins, after their code was consumed.                                *)

SignIn(u) ==
    /\ signing[u].step = "no" /\ Belongs(u) /\ ~disabled[u]
    /\ signing' = [signing EXCEPT ![u] = 
           [step |-> IF member[u] = "invited" THEN "joining" ELSE "joined", raced |-> FALSE]]
    /\ UNCHANGED <<member, admin, disabled, live, request, stale, overlapped>>

\* The first sign-in makes an invited member an active one, by its id.
Join(u) ==
    /\ signing[u].step = "joining"
    /\ member' = [member EXCEPT ![u] = "active"]
    /\ signing' = [signing EXCEPT ![u].step = "joined"]
    /\ UNCHANGED <<admin, disabled, live, request, stale, overlapped>>

OpenSession(u) ==
    /\ signing[u].step = "joined"
    /\ live' = [live EXCEPT ![u] = @ \/ ~signing[u].raced]
    /\ signing' = [signing EXCEPT ![u] = NoSignIn]
    /\ UNCHANGED <<member, admin, disabled, request, stale, overlapped>>

LogoutAll(u) ==
    /\ live[u]
    /\ live' = [live EXCEPT ![u] = FALSE]
    /\ UNCHANGED <<member, admin, disabled, signing, request, stale, overlapped>>

-----------------------------------------------------------------------------
(* Requests of administrators.  The session of the sender resolves to a     *)
(* member with the role when the request begins.                            *)

Asks(h, req) ==
    /\ request[h].step = "idle"
    /\ request' = [request EXCEPT ![h] = req]
    /\ UNCHANGED <<member, admin, disabled, live, signing, stale, overlapped>>

AnotherAdmin(u) == \E v \in Users \ {u}: IsAdmin(v)

AskInvite(h, actor, u, role) ==
    /\ IsAdmin(actor) /\ ~Belongs(u) /\ role # "same"
    /\ Asks(h, Req(IF member[u] = "none" THEN "create" ELSE "invite", u, role, "active"))

\* Mutant: nobody asks for another administrator when the role is taken away.
UpdateUnasked(h, actor, u, role, status) ==
    /\ IsAdmin(actor) /\ Belongs(u)
    /\ admin[u] /\ status = "disabled" => AnotherAdmin(u)
    /\ Asks(h, Req("update", u, role, status))

\* A role or a status; both at once are as the one after the other, with nobody
\* between, and a new name is left out.
AskUpdate(h, actor, u, role, status) ==
    /\ IsAdmin(actor) /\ Belongs(u)
    /\ status = "disabled" => u # actor
    /\ admin[u] /\ (role = "other" \/ status = "disabled") => AnotherAdmin(u)
    /\ (role = "same") # (status = "same")
    /\ Asks(h, Req("update", u, role, status))

AskRemove(h, actor, u) ==
    /\ IsAdmin(actor) /\ Belongs(u) /\ u # actor
    /\ admin[u] => AnotherAdmin(u)
    /\ Asks(h, Req("remove", u, "same", "same"))

Writes(h) ==
    /\ overlapped' = (overlapped \/ h \in stale)
    /\ stale' = IF overlapped' THEN {} ELSE
           {k \in Handlers \ {h}: request[k].step \in {"create", "invite", "update", "remove"}}
Finishes(h) == request' = [request EXCEPT ![h] = Idle]
MustRevoke(h, u) == request' = [request EXCEPT ![h] = Req("revoke", u, "same", "same")]
\* A sign-in that goes on while its account ends.
Races(u) == [signing EXCEPT ![u].raced = signing[u].step # "no"]

WriteInvite(h) ==
    LET u == request[h].user IN
    /\ \/ request[h].step = "create" /\ member[u] = "none"
       \/ request[h].step = "invite"
    /\ member' = [member EXCEPT ![u] = "invited"]
    /\ admin' = [admin EXCEPT ![u] = request[h].role = "admin"]
    /\ disabled' = [disabled EXCEPT ![u] = FALSE]
    /\ Finishes(h) /\ Writes(h)
    /\ UNCHANGED <<live, signing>>

\* The user's e-mail is unique: to create one that exists by now fails.
RefuseInvite(h) ==
    /\ request[h].step = "create" /\ member[request[h].user] # "none"
    /\ Finishes(h)
    /\ stale' = stale \ {h}
    /\ UNCHANGED <<member, admin, disabled, live, signing, overlapped>>

WriteUpdate(h) ==
    LET u == request[h].user
        r == request[h].role
        s == request[h].status
    IN
    /\ request[h].step = "update"
    /\ admin' = [admin EXCEPT ![u] = IF r = "same" THEN @ ELSE r = "admin"]
    /\ disabled' = [disabled EXCEPT ![u] = IF s = "same" THEN @ ELSE s = "disabled"]
    /\ IF s = "disabled"
       THEN MustRevoke(h, u) /\ signing' = Races(u)
       ELSE Finishes(h) /\ UNCHANGED signing
    /\ Writes(h)
    /\ UNCHANGED <<member, live>>

\* Mutant: the sessions are left to themselves.
RemoveOnly(h) ==
    LET u == request[h].user IN
    /\ request[h].step = "remove"
    /\ member' = [member EXCEPT ![u] = "removed"]
    /\ Finishes(h)
    /\ signing' = Races(u)
    /\ Writes(h)
    /\ UNCHANGED <<admin, disabled, live>>

WriteRemove(h) ==
    LET u == request[h].user IN
    /\ request[h].step = "remove"
    /\ member' = [member EXCEPT ![u] = "removed"]
    /\ MustRevoke(h, u)
    /\ signing' = Races(u)
    /\ Writes(h)
    /\ UNCHANGED <<admin, disabled, live>>

\* revokeAllForUser; or it fails, and a repeated removal finds no member.
Revoke(h) ==
    /\ request[h].step = "revoke"
    /\ live' = [live EXCEPT ![request[h].user] = FALSE]
    /\ Finishes(h)
    /\ UNCHANGED <<member, admin, disabled, signing, stale, overlapped>>

\* On every start: "so there's always a way in".
Bootstrap(u) ==
    /\ ~IsAdmin(u)
    /\ disabled' = [disabled EXCEPT ![u] = FALSE]
    /\ IF Belongs(u) /\ admin[u]
       THEN UNCHANGED <<member, admin>>
       ELSE /\ member' = [member EXCEPT ![u] = "active"]
            /\ admin' = [admin EXCEPT ![u] = TRUE]
    /\ UNCHANGED <<live, signing, request, stale, overlapped>>

Next ==
    \/ \E u \in Users:
        \/ SignIn(u)
        \/ Join(u)
        \/ OpenSession(u)
        \/ LogoutAll(u)
    \/ \E h \in Handlers:
        \/ \E actor, u \in Users:
            \/ \E role \in Roles: AskInvite(h, actor, u, role)
            \/ \E role \in Roles, status \in Statuses: AskUpdate(h, actor, u, role, status)
            \/ AskRemove(h, actor, u)
        \/ WriteInvite(h)
        \/ RefuseInvite(h)
        \/ WriteUpdate(h)
        \/ WriteRemove(h)
        \/ Revoke(h)
    \/ \E u \in Bootstraps: Bootstrap(u)

Spec == Init /\ [][Next]_vars
-----------------------------------------------------------------------------
TypeOK ==
    /\ member \in [Users -> {"none", "invited", "active", "removed"}]
    /\ admin \in [Users -> BOOLEAN]
    /\ disabled \in [Users -> BOOLEAN]
    /\ live \in [Users -> BOOLEAN]
    /\ signing \in [Users -> [step: {"no", "joining", "joined"}, raced: BOOLEAN]]
    /\ request \in [Handlers -> [step: {"idle", "create", "invite", "update", "remove", "revoke"},
                                 user: Users \cup {Nobody}, role: Roles, status: Statuses]]
    /\ stale \subseteq Handlers
    /\ overlapped \in BOOLEAN

\* "The workspace needs at least one active admin": it has one, as long as no two
\* requests of administrators overlap; sign-ins may.
AdminRemains == overlapped \/ \E u \in Users: IsAdmin(u)

\* Disabling or removing somebody ends the sessions there are, all but those of a
\* sign-in that was under way, and unless the revocation fails.
SessionsEnd ==
    \A u \in Users: Ended(u) /\ live[u] =>
        \E h \in Handlers: request[h].step = "revoke" /\ request[h].user = u

\* Not so: two administrators who demote each other both see another one.
AnAdminRemains == \E u \in Users: IsAdmin(u)

\* Not so: the sign-in of a member who was invited makes active one who was removed since.
RemovedStaysRemoved ==
    [][\A u \in Users: member[u] = "removed" => member'[u] # "active" \/ u \in Bootstraps]_vars
=============================================================================
