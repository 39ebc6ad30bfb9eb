--------------------------------- MODULE LoginCodes ---------------------------------
(***************************************************************************)
(* One-time sign-in codes (AuthService.requestCode and verifyCode).        *)
(*                                                                         *)
(* A request takes the advisory lock of its e-mail, then that of its       *)
(* address, and holds both to the end of the transaction in which it       *)
(* checks the limits, supersedes the codes before and stores its own.      *)
(* The mail goes out after that; when it fails, the code is deleted.  A    *)
(* submitted code is read, compared, and then counted or consumed by a     *)
(* statement of its own, without a lock: submissions overlap each other    *)
(* and new requests.                                                       *)
(***************************************************************************)
EXTENDS Naturals, Sequences, FiniteSets

CONSTANTS
    Emails,
    Members,         \* those who may sign in; for the others a code is a decoy, never sent
    Requests,        \* requests under way
    Here,            \* {TRUE}: they come from one address, {FALSE}: from elsewhere, or both
    Guessers,        \* submissions under way
    None,
    EmailLimit,      \* EMAIL_HOURLY_LIMIT (the daily one is of the same kind)
    IpLimit,         \* IP_HOURLY_LIMIT
    MaxAttempts,     \* CODE_MAX_ATTEMPTS
    MaxCodes         \* bounds the codes

ASSUME CodesAssumption ==
    /\ None \notin Requests /\ Members \subseteq Emails /\ Here \subseteq BOOLEAN
    /\ IsFiniteSet(Guessers)
    /\ EmailLimit \in Nat \ {0} /\ IpLimit \in Nat \ {0}
    /\ MaxAttempts \in Nat \ {0} /\ MaxCodes \in Nat

VARIABLES
    codes,       \* LoginCode rows in the order of createdAt, each with the age of its
                 \* code_requested event and what was done with it (wrong, signIns: history)
    emailLock,   \* Emails -> the request that holds the lock, or None
    ipLock,      \* the same for the address
    pc, req,     \* Requests -> where it is; its e-mail, where from, the last code read or stored
    at, seen     \* Guessers -> where it is, and the code and its attempts as read

vars == <<codes, emailLock, ipLock, pc, req, at, seen>>

\* The age of a code: within the cooldown, valid, expired but within the hour, older.
Ages == 0..3
Fresh(c) == c.age = 0
Expired(c) == c.age >= 2
Counts(c) == c.age <= 2

NewCode(e, here) == [email |-> e, here |-> here, age |-> 0, superseded |-> FALSE, gone |-> FALSE, used |-> FALSE,
               attempts |-> 0, wrong |-> 0, signIns |-> 0]
OfEmail(e) == {i \in 1..Len(codes): codes[i].email = e}
NoRequest == [email |-> None, here |-> FALSE, code |-> 0]
FromHere == {i \in 1..Len(codes): codes[i].here}
Usable(c) == ~c.superseded /\ ~c.gone /\ ~c.used

Init ==
    /\ codes = <<>>
    /\ emailLock = [e \in Emails |-> None]
    /\ ipLock = None
    /\ pc = [r \in Requests |-> "idle"]
    /\ req = [r \in Requests |-> NoRequest]
    /\ at = [g \in Guessers |-> "idle"]
    /\ seen = [g \in Guessers |-> [code |-> 0, attempts |-> 0]]

Goes(r, step) == pc' = [pc EXCEPT ![r] = step] /\ UNCHANGED req
Ends(r) ==
    /\ pc' = [pc EXCEPT ![r] = "idle"]
    /\ req' = [req EXCEPT ![r] = NoRequest]
\* The end of the transaction, or of the process with it.
Unlocks(r) ==
    /\ emailLock' = [e \in Emails |-> IF emailLock[e] = r THEN None ELSE emailLock[e]]
    /\ ipLock' = IF ipLock = r THEN None ELSE ipLock

-----------------------------------------------------------------------------
(* Requests.                                                               *)

Ask(r, e, here) ==
    /\ pc[r] = "idle"
    /\ pc' = [pc EXCEPT ![r] = "asked"]
    /\ req' = [req EXCEPT ![r] = [email |-> e, here |-> here, code |-> 0]]
    /\ UNCHANGED <<codes, emailLock, ipLock, at, seen>>

LockEmail(r) ==
    /\ pc[r] = "asked" /\ emailLock[req[r].email] = None
    /\ emailLock' = [emailLock EXCEPT ![req[r].email] = r]
    /\ Goes(r, "email locked")
    /\ UNCHANGED <<codes, ipLock, at, seen>>

\* Mutant: the address is not locked.
PassIp(r) ==
    /\ pc[r] = "email locked"
    /\ Goes(r, "locked")
    /\ UNCHANGED <<codes, emailLock, ipLock, at, seen>>

\* The lock of another address, or none without an address, is nobody's business.
LockIp(r) ==
    /\ pc[r] = "email locked"
    /\ IF req[r].here THEN ipLock = None /\ ipLock' = r ELSE UNCHANGED ipLock
    /\ Goes(r, "locked")
    /\ UNCHANGED <<codes, emailLock, at, seen>>

\* enforceRateLimits: one request a minute, and so many an hour.  What it reads are
\* the codes there are, also those it then supersedes.
EnforceRateLimits(r) ==
    LET recent == {i \in OfEmail(req[r].email): Counts(codes[i])} IN
    /\ pc[r] = "locked"
    /\ \A i \in recent: ~Fresh(codes[i])
    /\ Cardinality(recent) < EmailLimit
    /\ req[r].here => Cardinality({i \in FromHere: Counts(codes[i])}) < IpLimit
    /\ pc' = [pc EXCEPT ![r] = "checked"]
    /\ req' = [req EXCEPT ![r].code = Len(codes)]
    /\ UNCHANGED <<codes, emailLock, ipLock, at, seen>>

\* The event and the code are stored, the codes before superseded.
IssueCode(r) ==
    /\ pc[r] = "checked" /\ Len(codes) < MaxCodes
    /\ codes' = Append(
           [i \in 1..Len(codes) |->
               IF i \in OfEmail(req[r].email) /\ i <= req[r].code /\ ~codes[i].used
               THEN [codes[i] EXCEPT !.superseded = TRUE] ELSE codes[i]],
           NewCode(req[r].email, req[r].here))
    /\ Unlocks(r)
    /\ IF req[r].email \in Members
       THEN /\ pc' = [pc EXCEPT ![r] = "mailing"]
            /\ req' = [req EXCEPT ![r].code = Len(codes')]
       ELSE Ends(r)
    /\ UNCHANGED <<at, seen>>

MailSent(r) ==
    /\ pc[r] = "mailing"
    /\ Ends(r)
    /\ UNCHANGED <<codes, emailLock, ipLock, at, seen>>

\* The code is deleted; the one it superseded stays so.
MailFails(r) ==
    /\ pc[r] = "mailing"
    /\ codes' = [codes EXCEPT ![req[r].code].gone = TRUE]
    /\ Ends(r)
    /\ UNCHANGED <<emailLock, ipLock, at, seen>>

\* Refused by a limit, failed, or ended with its process: rolled back.
Fail(r) ==
    /\ pc[r] # "idle"
    /\ Unlocks(r)
    /\ Ends(r)
    /\ UNCHANGED <<codes, at, seen>>

-----------------------------------------------------------------------------
(* Submissions.                                                            *)

\* The newest code that is not superseded, and the gates on it; an older code
\* that was typed in explains itself and changes nothing.
Current(e) == {i \in OfEmail(e): ~codes[i].superseded /\ ~codes[i].gone
                   /\ \A j \in OfEmail(e): j > i => codes[j].superseded \/ codes[j].gone}

Submit(g, e, right) ==
    \E i \in Current(e):
        /\ at[g] = "idle"
        /\ ~codes[i].used /\ codes[i].attempts < MaxAttempts /\ ~Expired(codes[i])
        /\ at' = [at EXCEPT ![g] = IF right THEN "right" ELSE "wrong"]
        /\ seen' = [seen EXCEPT ![g] = [code |-> i, attempts |-> codes[i].attempts]]
        /\ UNCHANGED <<codes, emailLock, ipLock, pc, req>>

Answers(g) ==
    /\ at' = [at EXCEPT ![g] = "idle"]
    /\ seen' = [seen EXCEPT ![g] = [code |-> 0, attempts |-> 0]]
    /\ UNCHANGED <<emailLock, ipLock, pc, req>>

\* Mutant: counted on from the attempts that were read.
CountFromRead(g) ==
    LET i == seen[g].code IN
    /\ at[g] = "wrong" /\ ~codes[i].gone
    /\ codes' = [codes EXCEPT ![i].attempts = seen[g].attempts + 1, ![i].wrong = @ + 1]
    /\ Answers(g)

CountWrong(g) ==
    LET i == seen[g].code IN
    /\ at[g] = "wrong" /\ ~codes[i].gone
    /\ codes' = [codes EXCEPT ![i].attempts = @ + 1, ![i].wrong = @ + 1]
    /\ Answers(g)

\* Mutant: consumed whatever it was.
ConsumeAnyway(g) ==
    LET i == seen[g].code IN
    /\ at[g] = "right" /\ ~codes[i].gone
    /\ codes' = [codes EXCEPT ![i].used = TRUE, ![i].signIns = @ + 1]
    /\ Answers(g)

\* Consumed on the condition that it was not; who may sign in is up to Membership.
Consume(g) ==
    LET i == seen[g].code IN
    /\ at[g] = "right" /\ ~codes[i].gone /\ ~codes[i].used
    /\ codes' = [codes EXCEPT ![i].used = TRUE, ![i].signIns = @ + 1]
    /\ Answers(g)

\* Consumed by another, deleted, or ended with its process.
GiveUp(g) == at[g] # "idle" /\ Answers(g) /\ UNCHANGED codes

\* Time passes: a code does not get older than those before it.
Age(i) ==
    /\ codes[i].age < 3
    /\ \A j \in 1..(i - 1): codes[j].age > codes[i].age
    /\ codes' = [codes EXCEPT ![i].age = @ + 1]
    /\ UNCHANGED <<emailLock, ipLock, pc, req, at, seen>>

Next ==
    \/ \E r \in Requests:
        \/ \E e \in Emails, here \in Here: Ask(r, e, here)
        \/ LockEmail(r)
        \/ LockIp(r)
        \/ EnforceRateLimits(r)
        \/ IssueCode(r)
        \/ MailSent(r)
        \/ MailFails(r)
        \/ Fail(r)
    \/ \E g \in Guessers:
        \/ \E e \in Emails, right \in BOOLEAN: Submit(g, e, right)
        \/ CountWrong(g)
        \/ Consume(g)
        \/ GiveUp(g)
    \/ \E i \in 1..Len(codes): Age(i)

Spec == Init /\ [][Next]_vars
-----------------------------------------------------------------------------
TypeOK ==
    /\ codes \in Seq([email: Emails, here: BOOLEAN, age: Ages, superseded: BOOLEAN, gone: BOOLEAN, used: BOOLEAN,
                     attempts: Nat, wrong: Nat, signIns: Nat])
    /\ emailLock \in [Emails -> Requests \cup {None}]
    /\ ipLock \in Requests \cup {None}
    /\ pc \in [Requests -> {"idle", "asked", "email locked", "locked", "checked", "mailing"}]
    /\ req \in [Requests -> [email: Emails \cup {None}, here: BOOLEAN, code: Nat]]
    /\ at \in [Guessers -> {"idle", "right", "wrong"}]
    /\ seen \in [Guessers -> [code: Nat, attempts: Nat]]

OneUsableCode ==
    \A i, j \in 1..Len(codes):
        codes[i].email = codes[j].email /\ Usable(codes[i]) /\ Usable(codes[j]) => i = j

WithinLimits ==
    LET counted == {i \in 1..Len(codes): Counts(codes[i])} IN
    /\ Cardinality(counted \cap FromHere) <= IpLimit
    /\ \A i \in counted:
        LET same == counted \cap OfEmail(codes[i].email) IN
        /\ Cardinality(same) <= EmailLimit
        /\ Fresh(codes[i]) => \A j \in same: Fresh(codes[j]) => i = j

\* Requests from any number of processes take turns: "the newest code is the only
\* valid one", and no e-mail and no address gets more codes than its limits.
IssuedInTurn == OneUsableCode /\ WithinLimits

\* A code signs in once, and is compared with so many wrong guesses at most: those
\* it may, and one more of every submission that read it before the last.
CodeIsSpent ==
    \A i \in 1..Len(codes):
        /\ codes[i].signIns <= 1
        /\ codes[i].wrong < MaxAttempts + Cardinality(Guessers)

\* Not so: a code that was read as the newest is consumed although a newer one
\* has superseded it since.
SupersededSignsNobodyIn ==
    [][\A i \in 1..Len(codes): codes'[i].signIns > codes[i].signIns => ~codes[i].superseded]_vars
=============================================================================
