---------------------------- MODULE IdentityProofs ----------------------------
(***************************************************************************)
(* Proofs about LoginCodes and Membership for any number of e-mails,       *)
(* requests, submissions, users and administrators, and any limits.        *)
(***************************************************************************)
EXTENDS Identity, FiniteSetTheorems, SequenceTheorems, TLAPS

-----------------------------------------------------------------------------
(***************************************************************************)
(* Login codes.  A request that has locked its e-mail keeps the lock until *)
(* its transaction ends, and one that has passed the limits knows every    *)
(* code of its e-mail; what it counted stays within the limits, as nobody  *)
(* else can issue a code meanwhile.                                        *)
(***************************************************************************)
Codes == [email: Emails, here: BOOLEAN, age: Ages, superseded: BOOLEAN, gone: BOOLEAN, used: BOOLEAN,
          attempts: Nat, wrong: Nat, signIns: Nat]

HasEmailLock(r) == pc[r] \in {"email locked", "locked", "checked"}
HasIpLock(r) == pc[r] \in {"locked", "checked"} /\ req[r].here

Recent(e) == {i \in OfEmail(e): Counts(codes[i])}
RecentHere == {i \in FromHere: Counts(codes[i])}

LocksHeld ==
    \A r \in Requests:
        /\ pc[r] # "idle" => req[r].email \in Emails
        /\ HasEmailLock(r) => emailLock[req[r].email] = r
        /\ HasIpLock(r) => ipLock = r

\* What a request r has found, and still holds: it knows the codes of its e-mail e.
Passed(r, e) ==
    /\ req[r].code <= Len(codes)
    /\ \A i \in OfEmail(e): i <= req[r].code /\ ~Fresh(codes[i])
    /\ Cardinality(Recent(e)) < EmailLimit
    /\ req[r].here => Cardinality(RecentHere) < IpLimit

Checked ==
    \A r \in Requests, e \in Emails: pc[r] = "checked" /\ req[r].email = e => Passed(r, e)

Mailing ==
    \A r \in Requests: pc[r] = "mailing" => req[r].code \in 1..Len(codes)

Limits ==
    /\ Cardinality(RecentHere) <= IpLimit
    /\ \A e \in Emails: Cardinality(Recent(e)) <= EmailLimit
    /\ \A i, j \in 1..Len(codes):
         codes[i].email = codes[j].email /\ Fresh(codes[i]) /\ Fresh(codes[j]) => i = j

\* The submissions that have yet to count a wrong guess of the code i.
Guessing(i) == {g \in Guessers: at[g] = "wrong" /\ seen[g].code = i}

Guesses ==
    /\ \A g \in Guessers: at[g] # "idle" => seen[g].code \in 1..Len(codes)
    /\ \A i \in 1..Len(codes):
         /\ codes[i].attempts = codes[i].wrong
         /\ codes[i].signIns = IF codes[i].used THEN 1 ELSE 0
         /\ codes[i].wrong + Cardinality(Guessing(i)) < MaxAttempts + Cardinality(Guessers)

CodesInv == TypeOK /\ LocksHeld /\ Checked /\ Mailing /\ Limits /\ OneUsableCode /\ Guesses

LEMMA CodesInit == Init => CodesInv
<1> SUFFICES ASSUME Init PROVE CodesInv
    OBVIOUS
<1> USE CodesAssumption DEF Init
<1>1. Len(codes) = 0 /\ codes \in Seq(Codes)
    OBVIOUS
<1>2. TypeOK
    BY <1>1 DEF TypeOK, NoRequest, Codes
<1>3. RecentHere = {} /\ \A e \in Emails: Recent(e) = {}
    BY <1>1 DEF RecentHere, FromHere, Recent, OfEmail
<1>4. LocksHeld /\ Checked /\ Mailing
    BY DEF LocksHeld, HasEmailLock, HasIpLock, Checked, Mailing
<1>5. Cardinality(RecentHere) = 0 /\ \A e \in Emails: Cardinality(Recent(e)) = 0
    BY <1>3, FS_EmptySet
<1>6. Limits
    BY <1>1, <1>5 DEF Limits
<1>7. OneUsableCode /\ Guesses
    BY <1>1 DEF OneUsableCode, Guesses
<1> QED BY <1>2, <1>4, <1>6, <1>7 DEF CodesInv

(***************************************************************************)
(* What a step does to the codes: all but IssueCode at most update one;    *)
(* they make it older, delete it, use it or count a guess.                 *)
(***************************************************************************)
Updates(i, c) ==
    /\ i \in 1..Len(codes) /\ c \in Codes
    /\ codes' = [codes EXCEPT ![i] = c]
    /\ c.email = codes[i].email /\ c.here = codes[i].here /\ c.age >= codes[i].age
    /\ Usable(c) => Usable(codes[i])

Kept ==
    /\ codes' \in Seq(Codes)
    /\ Len(codes') = Len(codes)
    /\ \A i \in 1..Len(codes):
         /\ codes'[i].email = codes[i].email
         /\ codes'[i].here = codes[i].here
         /\ codes'[i].age >= codes[i].age
         /\ Usable(codes'[i]) => Usable(codes[i])

LEMMA CodesTyped ==
    ASSUME TypeOK
    PROVE  /\ codes \in Seq(Codes) /\ Len(codes) \in Nat
           /\ \A i \in 1..Len(codes): codes[i] \in Codes /\ codes[i].age \in Ages /\ codes[i].age \in Nat
<1>1. codes \in Seq(Codes)
    BY DEF TypeOK, Codes
<1>2. \A i \in 1..Len(codes): codes[i] \in Codes
    BY <1>1, ElementOfSeq
<1>3. Len(codes) \in Nat
    BY <1>1, LenProperties
<1> QED BY <1>1, <1>2, <1>3, SMTT(30) DEF Codes, Ages

\* A code with one more wrong guess, and one that has signed in.
LEMMA CodeCounted ==
    ASSUME NEW c \in Codes
    PROVE  LET d == [c EXCEPT !.attempts = @ + 1, !.wrong = @ + 1]
           IN  d \in Codes
<1>1. [c EXCEPT !.attempts = @ + 1] \in Codes
    BY DEF Codes
<1>2. \A d \in Codes: [d EXCEPT !.wrong = @ + 1] \in Codes
    BY DEF Codes
<1> QED BY <1>1, <1>2

LEMMA CodeSpent ==
    ASSUME NEW c \in Codes
    PROVE  LET d == [c EXCEPT !.used = TRUE, !.signIns = @ + 1]
           IN  d \in Codes
<1>1. [c EXCEPT !.used = TRUE] \in Codes
    BY DEF Codes
<1>2. \A d \in Codes: [d EXCEPT !.signIns = @ + 1] \in Codes
    BY DEF Codes
<1> QED BY <1>1, <1>2

LEMMA UpdatesKeep ==
    ASSUME TypeOK, NEW i, NEW c, Updates(i, c)
    PROVE  Kept /\ codes'[i] = c /\ \A j \in 1..Len(codes): j # i => codes'[j] = codes[j]
<1>1. codes \in Seq(Codes)
    BY DEF TypeOK, Codes
<1>2. i \in 1..Len(codes) /\ c \in Codes /\ codes' = [codes EXCEPT ![i] = c]
    BY DEF Updates
<1>3. /\ codes' \in Seq(Codes)
      /\ Len(codes') = Len(codes)
      /\ \A j \in 1 .. Len(codes): codes'[j] = IF j = i THEN c ELSE codes[j]
    BY <1>1, <1>2, ExceptSeq
<1>4. \A j \in 1..Len(codes): codes[j].age \in Nat
    BY CodesTyped
<1> QED BY <1>2, <1>3, <1>4 DEF Kept, Updates

LEMMA SameKeep ==
    ASSUME TypeOK, codes' = codes
    PROVE  Kept
<1>1. codes \in Seq(Codes)
    BY DEF TypeOK, Codes
<1>2. \A j \in 1..Len(codes): codes[j].age \in Nat
    BY CodesTyped
<1> QED BY <1>1, <1>2 DEF Kept

LEMMA MailFailsUpdates ==
    ASSUME CodesInv, NEW r \in Requests, MailFails(r)
    PROVE  LET i == req[r].code IN Updates(i, [codes[i] EXCEPT !.gone = TRUE])
<1> DEFINE i == req[r].code
           c == [codes[i] EXCEPT !.gone = TRUE]
<1>1. i \in 1..Len(codes)
    BY DEF CodesInv, Mailing, MailFails
<1>2. codes[i] \in Codes
    BY <1>1, CodesTyped DEF CodesInv
<1>3. codes' = [codes EXCEPT ![i] = c]
    BY DEF MailFails
<1> HIDE DEF i
<1>4. c \in Codes
    BY <1>2 DEF Codes
<1>5. c.email = codes[i].email /\ c.here = codes[i].here /\ c.age = codes[i].age /\ (Usable(c) => Usable(codes[i]))
    BY <1>2 DEF Codes, Usable
<1>6. codes[i].age \in Nat
    BY <1>1, CodesTyped DEF CodesInv
<1>7. Updates(i, c)
    BY <1>1, <1>3, <1>4, <1>5, <1>6 DEF Updates
<1> QED BY <1>7 DEF i

LEMMA CountWrongUpdates ==
    ASSUME CodesInv, NEW g \in Guessers, CountWrong(g)
    PROVE  LET i == seen[g].code
           IN  Updates(i, [codes[i] EXCEPT !.attempts = @ + 1, !.wrong = @ + 1])
<1> DEFINE i == seen[g].code
           c == [codes[i] EXCEPT !.attempts = @ + 1, !.wrong = @ + 1]
<1>1. i \in 1..Len(codes)
    BY DEF CodesInv, Guesses, CountWrong
<1>2. codes[i] \in Codes
    BY <1>1, CodesTyped DEF CodesInv
<1>3. codes' = [codes EXCEPT ![i] = c]
    BY <1>1, <1>2 DEF CountWrong
<1> HIDE DEF i
<1>4. c \in Codes
    BY <1>2, CodeCounted
<1>5. c.email = codes[i].email /\ c.here = codes[i].here /\ c.age = codes[i].age /\ (Usable(c) => Usable(codes[i]))
    BY <1>2 DEF Codes, Usable
<1>6. codes[i].age \in Nat
    BY <1>1, CodesTyped DEF CodesInv
<1>7. Updates(i, c)
    BY <1>1, <1>3, <1>4, <1>5, <1>6 DEF Updates
<1> QED BY <1>7 DEF i

LEMMA ConsumeUpdates ==
    ASSUME CodesInv, NEW g \in Guessers, Consume(g)
    PROVE  LET i == seen[g].code
           IN  Updates(i, [codes[i] EXCEPT !.used = TRUE, !.signIns = @ + 1])
<1> DEFINE i == seen[g].code
           c == [codes[i] EXCEPT !.used = TRUE, !.signIns = @ + 1]
<1>1. i \in 1..Len(codes)
    BY DEF CodesInv, Guesses, Consume
<1>2. codes[i] \in Codes
    BY <1>1, CodesTyped DEF CodesInv
<1>3. codes' = [codes EXCEPT ![i] = c]
    BY <1>1, <1>2 DEF Consume
<1> HIDE DEF i
<1>4. c \in Codes
    BY <1>2, CodeSpent
<1>5. c.email = codes[i].email /\ c.here = codes[i].here /\ c.age = codes[i].age /\ (Usable(c) => Usable(codes[i]))
    BY <1>2 DEF Codes, Usable
<1>6. codes[i].age \in Nat
    BY <1>1, CodesTyped DEF CodesInv
<1>7. Updates(i, c)
    BY <1>1, <1>3, <1>4, <1>5, <1>6 DEF Updates
<1> QED BY <1>7 DEF i

LEMMA AgeUpdates ==
    ASSUME CodesInv, NEW i \in 1..Len(codes), Age(i)
    PROVE  Updates(i, [codes[i] EXCEPT !.age = @ + 1])
<1> DEFINE c == [codes[i] EXCEPT !.age = @ + 1]
<1>1. codes[i] \in Codes /\ codes[i].age \in Nat /\ codes[i].age \in Ages
    BY CodesTyped DEF CodesInv
<1>2. codes' = [codes EXCEPT ![i] = c] /\ codes[i].age < 3
    BY <1>1 DEF Age
<1>3. c \in Codes
    BY <1>1, <1>2 DEF Codes, Ages
<1>4. c.email = codes[i].email /\ c.here = codes[i].here /\ c.age >= codes[i].age /\ (Usable(c) => Usable(codes[i]))
    BY <1>1 DEF Codes, Usable
<1> QED BY <1>1, <1>2, <1>3, <1>4 DEF Updates

\* The codes of the e-mail are superseded but for those that have been used,
\* the others left alone, and the new one comes last.
Superseded(c, e) == IF c.email = e /\ ~c.used THEN [c EXCEPT !.superseded = TRUE] ELSE c

LEMMA MappedSequence ==
    ASSUME NEW S, NEW n \in Nat, NEW s \in [1..n -> S]
    PROVE  s \in Seq(S) /\ Len(s) = n
<1>1. s \in Seq(S)
    BY SeqDef
<1>2. Len(s) \in Nat /\ DOMAIN s = 1..Len(s) /\ DOMAIN s = 1..n
    BY <1>1, LenProperties
<1>3. Len(s) = n
    BY <1>2
<1> QED BY <1>1, <1>3

LEMMA IssueAppends ==
    ASSUME CodesInv, NEW r \in Requests, IssueCode(r)
    PROVE  LET e == req[r].email IN
           /\ e \in Emails
           /\ codes' \in Seq(Codes) /\ Len(codes') = Len(codes) + 1
           /\ \A i \in 1..Len(codes): codes'[i] = Superseded(codes[i], e)
           /\ codes'[Len(codes) + 1] = NewCode(e, req[r].here) /\ NewCode(e, req[r].here) \in Codes
<1> DEFINE e == req[r].email
           n == Len(codes)
           s == [i \in 1..n |->
                   IF i \in OfEmail(e) /\ i <= req[r].code /\ ~codes[i].used
                   THEN [codes[i] EXCEPT !.superseded = TRUE] ELSE codes[i]]
           c == NewCode(e, req[r].here)
<1>1. codes \in Seq(Codes) /\ n \in Nat /\ \A i \in 1..n: codes[i] \in Codes
    BY CodesTyped DEF CodesInv
<1>2. e \in Emails /\ req[r].here \in BOOLEAN /\ \A i \in OfEmail(e): i <= req[r].code
    BY DEF CodesInv, TypeOK, LocksHeld, Checked, Passed, IssueCode
<1>3. codes' = Append(s, c)
    BY DEF IssueCode
<1>4. \A d \in Codes: [d EXCEPT !.superseded = TRUE] \in Codes
    BY DEF Codes
<1>5. s \in [1..n -> Codes]
    BY <1>1, <1>4
<1>6. c \in Codes
    BY <1>2 DEF NewCode, Codes, Ages
<1>7. \A i \in 1..n: s[i] = Superseded(codes[i], e)
    BY <1>2 DEF Superseded, OfEmail
<1> HIDE DEF s, c, n, e
<1>8. s \in Seq(Codes) /\ Len(s) = n
    BY <1>1, <1>5, MappedSequence
<1>9. /\ codes' \in Seq(Codes) /\ Len(codes') = n + 1
      /\ \A i \in 1..n: codes'[i] = s[i]
      /\ codes'[n + 1] = c
    BY <1>1, <1>3, <1>6, <1>8, AppendProperties
<1> QED BY <1>2, <1>6, <1>7, <1>9 DEF n, c, e

LEMMA CodeNoted ==
    ASSUME NEW q \in [Requests -> [email: Emails \cup {None}, here: BOOLEAN, code: Nat]],
           NEW r \in Requests, NEW n \in Nat
    PROVE  [q EXCEPT ![r].code = n] \in [Requests -> [email: Emails \cup {None}, here: BOOLEAN, code: Nat]]
OBVIOUS

LEMMA CodesTypeStep == CodesInv /\ [Next]_vars => TypeOK'
<1> SUFFICES ASSUME CodesInv, [Next]_vars PROVE TypeOK'
    OBVIOUS
<1> USE CodesAssumption
<1> DEFINE Typed == TypeOK'
<1>1. codes \in Seq(Codes) /\ TypeOK /\ Len(codes) \in Nat
    BY CodesTyped DEF CodesInv
<1>2. ASSUME NEW i, NEW c, Updates(i, c)
      PROVE  codes' \in Seq(Codes)
    BY <1>1, <1>2, UpdatesKeep DEF Kept
<1>3. ASSUME NEW r \in Requests, NEW e \in Emails, NEW here \in Here, Ask(r, e, here)
      PROVE  Typed
    BY <1>1, <1>3 DEF Ask, TypeOK
<1>4. ASSUME NEW r \in Requests, LockEmail(r)
      PROVE  Typed
    BY <1>1, <1>4 DEF LockEmail, Goes, TypeOK
<1>5. ASSUME NEW r \in Requests, LockIp(r)
      PROVE  Typed
    BY <1>1, <1>5 DEF LockIp, Goes, TypeOK
<1>6. ASSUME NEW r \in Requests, EnforceRateLimits(r)
      PROVE  Typed
  <2>1. /\ pc' = [pc EXCEPT ![r] = "checked"] /\ req' = [req EXCEPT ![r].code = Len(codes)]
        /\ UNCHANGED <<codes, emailLock, ipLock, at, seen>>
      BY <1>6 DEF EnforceRateLimits
  <2>2. req' \in [Requests -> [email: Emails \cup {None}, here: BOOLEAN, code: Nat]]
      BY <1>1, <2>1, CodeNoted DEF TypeOK
  <2> QED BY <1>1, <2>1, <2>2 DEF TypeOK
<1>7. ASSUME NEW r \in Requests, IssueCode(r)
      PROVE  Typed
  <2>1. codes' \in Seq(Codes) /\ Len(codes') \in Nat
      BY <1>1, <1>7, IssueAppends
  <2>2. /\ emailLock' \in [Emails -> Requests \cup {None}] /\ ipLock' \in Requests \cup {None}
        /\ at' = at /\ seen' = seen
      BY <1>1, <1>7 DEF IssueCode, Unlocks, TypeOK
  <2>3. /\ pc' \in [Requests -> {"idle", "asked", "email locked", "locked", "checked", "mailing"}]
        /\ req' \in [Requests -> [email: Emails \cup {None}, here: BOOLEAN, code: Nat]]
    <3>1. CASE pc' = [pc EXCEPT ![r] = "mailing"] /\ req' = [req EXCEPT ![r].code = Len(codes')]
        BY <1>1, <2>1, <3>1, CodeNoted DEF TypeOK
    <3>2. CASE Ends(r)
        BY <1>1, <3>2 DEF Ends, NoRequest, TypeOK
    <3> QED BY <1>7, <3>1, <3>2 DEF IssueCode
  <2> QED BY <1>1, <2>1, <2>2, <2>3 DEF TypeOK, Codes
<1>8. ASSUME NEW r \in Requests, MailSent(r)
      PROVE  Typed
    BY <1>1, <1>8 DEF MailSent, Ends, NoRequest, TypeOK
<1>9. ASSUME NEW r \in Requests, MailFails(r)
      PROVE  Typed
  <2>1. codes' \in Seq(Codes)
      BY <1>2, <1>9, MailFailsUpdates
  <2> QED BY <1>1, <1>9, <2>1 DEF MailFails, Ends, NoRequest, TypeOK, Codes
<1>10. ASSUME NEW r \in Requests, Fail(r)
       PROVE  Typed
    BY <1>1, <1>10 DEF Fail, Unlocks, Ends, NoRequest, TypeOK
<1>11. ASSUME NEW g \in Guessers, NEW e \in Emails, NEW right \in BOOLEAN, Submit(g, e, right)
       PROVE  Typed
  <2>1. PICK i \in Current(e): 
             /\ at' = [at EXCEPT ![g] = IF right THEN "right" ELSE "wrong"]
             /\ seen' = [seen EXCEPT ![g] = [code |-> i, attempts |-> codes[i].attempts]]
             /\ UNCHANGED <<codes, emailLock, ipLock, pc, req>>
      BY <1>11 DEF Submit
  <2>2. i \in 1..Len(codes)
      BY DEF Current, OfEmail
  <2>3. i \in Nat /\ codes[i].attempts \in Nat
      BY <1>1, <2>2, CodesTyped DEF Codes
  <2> QED BY <1>1, <2>1, <2>3 DEF TypeOK
<1>12. ASSUME NEW g \in Guessers, CountWrong(g) \/ Consume(g) \/ GiveUp(g)
       PROVE  Typed
  <2>1. codes' \in Seq(Codes)
      BY <1>1, <1>2, <1>12, CountWrongUpdates, ConsumeUpdates DEF GiveUp
  <2>2. Answers(g)
      BY <1>12 DEF CountWrong, Consume, GiveUp
  <2> QED BY <1>1, <2>1, <2>2 DEF Answers, TypeOK, Codes
<1>13. ASSUME NEW i \in 1..Len(codes), Age(i)
       PROVE  Typed
  <2>1. codes' \in Seq(Codes)
      BY <1>2, <1>13, AgeUpdates
  <2> QED BY <1>1, <1>13, <2>1 DEF Age, TypeOK, Codes
<1>14. CASE UNCHANGED vars
    BY <1>1, <1>14 DEF vars, TypeOK
<1> QED BY <1>3, <1>4, <1>5, <1>6, <1>7, <1>8, <1>9, <1>10, <1>11, <1>12, <1>13, <1>14 DEF Next

(***************************************************************************)
(* The locks.  A request leaves alone what the others do and hold.         *)
(***************************************************************************)
LEMMA LocksStep == CodesInv /\ [Next]_vars => LocksHeld'
<1> SUFFICES ASSUME CodesInv, [Next]_vars PROVE LocksHeld'
    OBVIOUS
<1> USE CodesAssumption
<1> DEFINE Alone(r) ==
             \A q \in Requests \ {r}:
                 /\ pc'[q] = pc[q] /\ req'[q] = req[q]
                 /\ \A e \in Emails: emailLock[e] = q => emailLock'[e] = q
                 /\ ipLock = q => ipLock' = q
           Holds(r) ==
             /\ pc'[r] # "idle" => req'[r].email \in Emails
             /\ pc'[r] \in {"email locked", "locked", "checked"} => emailLock'[req'[r].email] = r
             /\ pc'[r] \in {"locked", "checked"} /\ req'[r].here => ipLock' = r
           Typed ==
             /\ emailLock \in [Emails -> Requests \cup {None}]
             /\ ipLock \in Requests \cup {None}
             /\ pc \in [Requests -> {"idle", "asked", "email locked", "locked", "checked", "mailing"}]
             /\ req \in [Requests -> [email: Emails \cup {None}, here: BOOLEAN, code: Nat]]
<1>1. Typed
    BY DEF CodesInv, TypeOK
<1>2. \A r \in Requests:
        /\ pc[r] # "idle" => req[r].email \in Emails
        /\ pc[r] \in {"email locked", "locked", "checked"} => emailLock[req[r].email] = r
        /\ pc[r] \in {"locked", "checked"} /\ req[r].here => ipLock = r
    BY DEF CodesInv, LocksHeld, HasEmailLock, HasIpLock
<1>3. ASSUME NEW r \in Requests, Alone(r), Holds(r)
      PROVE  LocksHeld'
  <2> SUFFICES ASSUME NEW q \in Requests PROVE Holds(q)
      BY DEF LocksHeld, HasEmailLock, HasIpLock
  <2>1. CASE q = r
      BY <1>3, <2>1
  <2>2. CASE q # r
    <3>1. /\ pc'[q] = pc[q] /\ req'[q] = req[q]
          /\ \A e \in Emails: emailLock[e] = q => emailLock'[e] = q
          /\ ipLock = q => ipLock' = q
        BY <1>3, <2>2
    <3>2. /\ pc[q] # "idle" => req[q].email \in Emails
          /\ pc[q] \in {"email locked", "locked", "checked"} => emailLock[req[q].email] = q
          /\ pc[q] \in {"locked", "checked"} /\ req[q].here => ipLock = q
        BY <1>2
    <3> QED BY <3>1, <3>2
  <2> QED BY <2>1, <2>2
<1>4. ASSUME NEW r \in Requests, NEW e \in Emails, NEW here \in Here, Ask(r, e, here)
      PROVE  Alone(r) /\ Holds(r)
    BY <1>1, <1>4 DEF Ask
<1>5. ASSUME NEW r \in Requests, LockEmail(r)
      PROVE  Alone(r) /\ Holds(r)
    BY <1>1, <1>2, <1>5 DEF LockEmail, Goes
<1>6. ASSUME NEW r \in Requests, LockIp(r)
      PROVE  Alone(r) /\ Holds(r)
    BY <1>1, <1>2, <1>6, ZenonT(60) DEF LockIp, Goes
<1>7. ASSUME NEW r \in Requests, EnforceRateLimits(r)
      PROVE  Alone(r) /\ Holds(r)
  <2>1. /\ pc[r] = "locked" /\ pc' = [pc EXCEPT ![r] = "checked"]
        /\ req' = [req EXCEPT ![r] = [req[r] EXCEPT !.code = Len(codes)]]
        /\ UNCHANGED <<emailLock, ipLock>>
      BY <1>7 DEF EnforceRateLimits
  <2>2. \A n: [req[r] EXCEPT !.code = n].email = req[r].email /\ [req[r] EXCEPT !.code = n].here = req[r].here
      BY <1>1
  <2> QED BY <1>1, <1>2, <2>1, <2>2
<1>8. ASSUME NEW r \in Requests, IssueCode(r)
      PROVE  Alone(r) /\ Holds(r)
  <2>1. \/ Ends(r)
        \/ pc' = [pc EXCEPT ![r] = "mailing"] /\ req' = [req EXCEPT ![r] = [req[r] EXCEPT !.code = Len(codes')]]
      BY <1>8 DEF IssueCode
  <2>2. Unlocks(r) /\ pc[r] = "checked"
      BY <1>8 DEF IssueCode
  <2>3. \A n: [req[r] EXCEPT !.code = n].email = req[r].email
      BY <1>1
  <2>4. Alone(r)
      BY <1>1, <2>1, <2>2 DEF Unlocks, Ends
  <2>5. Holds(r)
    <3>1. CASE Ends(r)
        BY <1>1, <3>1 DEF Ends
    <3>2. CASE pc' = [pc EXCEPT ![r] = "mailing"] /\ req' = [req EXCEPT ![r] = [req[r] EXCEPT !.code = Len(codes')]]
      <4>1. pc'[r] = "mailing" /\ req'[r].email = req[r].email /\ req[r].email \in Emails
          BY <1>1, <1>2, <2>2, <2>3, <3>2
      <4> QED BY <4>1
    <3> QED BY <2>1, <3>1, <3>2
  <2> QED BY <2>4, <2>5
<1>9. ASSUME NEW r \in Requests, MailSent(r) \/ MailFails(r)
      PROVE  Alone(r) /\ Holds(r)
    BY <1>1, <1>9 DEF MailSent, MailFails, Ends
<1>10. ASSUME NEW r \in Requests, Fail(r)
       PROVE  Alone(r) /\ Holds(r)
    BY <1>1, <1>10 DEF Fail, Unlocks, Ends
<1>11. CASE UNCHANGED <<emailLock, ipLock, pc, req>>
    BY <1>2, <1>11 DEF LocksHeld, HasEmailLock, HasIpLock
<1>12. ASSUME NEW g \in Guessers, NEW e \in Emails, NEW right \in BOOLEAN,
              Submit(g, e, right) \/ CountWrong(g) \/ Consume(g) \/ GiveUp(g)
       PROVE  UNCHANGED <<emailLock, ipLock, pc, req>>
    BY <1>12 DEF Submit, CountWrong, Consume, GiveUp, Answers
<1>13. ASSUME NEW i \in 1..Len(codes), Age(i)
       PROVE  UNCHANGED <<emailLock, ipLock, pc, req>>
    BY <1>13 DEF Age
<1>14. CASE UNCHANGED vars
    BY <1>11, <1>14 DEF vars
<1> HIDE DEF Alone, Holds, Typed
<1>15. ASSUME NEW g \in Guessers, CountWrong(g) \/ Consume(g) \/ GiveUp(g)
       PROVE  UNCHANGED <<emailLock, ipLock, pc, req>>
    BY <1>15 DEF CountWrong, Consume, GiveUp, Answers
<1> QED BY <1>3, <1>4, <1>5, <1>6, <1>7, <1>8, <1>9, <1>10, <1>11, <1>12, <1>13, <1>14, <1>15 DEF Next

(***************************************************************************)
(* The limits.  A step that keeps the codes can only lower the counts; the *)
(* code that is issued raises those of its own e-mail and address, which   *)
(* no other request can have passed meanwhile.                             *)
(***************************************************************************)
LEMMA CountsAreFinite ==
    ASSUME TypeOK
    PROVE  /\ IsFiniteSet(RecentHere) /\ Cardinality(RecentHere) \in Nat
           /\ \A e: IsFiniteSet(Recent(e)) /\ Cardinality(Recent(e)) \in Nat
<1>1. Len(codes) \in Nat
    BY CodesTyped
<1>2. IsFiniteSet(1..Len(codes))
    BY <1>1, FS_Interval
<1>3. RecentHere \in SUBSET (1..Len(codes)) /\ \A e: Recent(e) \in SUBSET (1..Len(codes))
    BY DEF RecentHere, FromHere, Recent, OfEmail
<1>4. IsFiniteSet(RecentHere) /\ \A e: IsFiniteSet(Recent(e))
    BY <1>2, <1>3, FS_Subset
<1> QED BY <1>4, FS_CardinalityType

LEMMA KeptCounts ==
    ASSUME CodesInv, Kept
    PROVE  /\ \A i \in 1..Len(codes'): Fresh(codes'[i]) => Fresh(codes[i])
           /\ \A e: OfEmail(e)' = OfEmail(e) /\ Cardinality(Recent(e)') <= Cardinality(Recent(e))
           /\ Cardinality(RecentHere') <= Cardinality(RecentHere)
           /\ \A e: Cardinality(Recent(e)') \in Nat /\ Cardinality(RecentHere') \in Nat
<1>1. \A i \in 1..Len(codes): codes[i].age \in Nat /\ codes'[i].age \in Nat /\ codes'[i].age >= codes[i].age
  <2>1. \A i \in 1..Len(codes): codes'[i] \in Codes
      BY ElementOfSeq DEF Kept
  <2>2. \A c \in Codes: c.age \in Nat
      BY DEF Codes, Ages
  <2>3. \A i \in 1..Len(codes): codes[i].age \in Nat
      BY CodesTyped DEF CodesInv
  <2> QED BY <2>1, <2>2, <2>3 DEF Kept
<1>2. \A i \in 1..Len(codes'): /\ Fresh(codes'[i]) => Fresh(codes[i])
                               /\ Counts(codes'[i]) => Counts(codes[i])
  <2>1. Len(codes') = Len(codes)
      BY DEF Kept
  <2> QED BY <1>1, <2>1 DEF Fresh, Counts
<1>3. \A e: OfEmail(e)' = OfEmail(e) /\ FromHere' = FromHere
    BY DEF Kept, OfEmail, FromHere
<1>4. RecentHere' \in SUBSET RecentHere /\ \A e: Recent(e)' \in SUBSET Recent(e)
    BY <1>2, <1>3 DEF RecentHere, Recent, OfEmail, FromHere
<1>5. /\ IsFiniteSet(RecentHere) /\ \A e: IsFiniteSet(Recent(e))
    BY CountsAreFinite DEF CodesInv
<1>6. /\ IsFiniteSet(RecentHere') /\ Cardinality(RecentHere') <= Cardinality(RecentHere)
    BY <1>4, <1>5, FS_Subset
<1>7. ASSUME NEW e
      PROVE  IsFiniteSet(Recent(e)') /\ Cardinality(Recent(e)') <= Cardinality(Recent(e))
    BY <1>4, <1>5, FS_Subset
<1>8. Cardinality(RecentHere') \in Nat
    BY <1>6, FS_CardinalityType
<1>9. ASSUME NEW e
      PROVE  Cardinality(Recent(e)') \in Nat
    BY <1>7, FS_CardinalityType
<1> QED BY <1>2, <1>3, <1>6, <1>7, <1>8, <1>9

\* What r's storing of a code of e does to the codes that count.
Issued(r, e) ==
    LET n == Len(codes) + 1 IN
      /\ \A i \in 1..Len(codes): codes'[i].email = codes[i].email /\ Fresh(codes'[i]) = Fresh(codes[i])
      /\ codes'[n].email = e /\ Len(codes') = n
      /\ \A d: d # e => OfEmail(d)' = OfEmail(d) /\ Recent(d)' = Recent(d)
      /\ Recent(e)' = Recent(e) \cup {n}
      /\ RecentHere' = IF req[r].here THEN RecentHere \cup {n} ELSE RecentHere

LEMMA IssueCounts ==
    ASSUME CodesInv, NEW r \in Requests, IssueCode(r), NEW e, req[r].email = e
    PROVE  Issued(r, e)
<1> DEFINE n == Len(codes) + 1
<1>1. /\ Len(codes') = n
      /\ \A i \in 1..Len(codes): codes'[i] = Superseded(codes[i], e)
      /\ codes'[n] = NewCode(e, req[r].here)
    BY IssueAppends
<1>2. \A i \in 1..Len(codes): codes[i] \in Codes
    BY CodesTyped DEF CodesInv
<1>3. \A c \in Codes: LET d == Superseded(c, e) IN d.email = c.email /\ d.here = c.here /\ d.age = c.age
    BY DEF Superseded, Codes
<1>4. Len(codes) \in Nat
    BY CodesTyped DEF CodesInv
<1>5. \A i \in 1..Len(codes): /\ codes'[i].email = codes[i].email
                              /\ codes'[i].here = codes[i].here /\ codes'[i].age = codes[i].age
    BY <1>1, <1>2, <1>3
<1>6. codes'[n].email = e /\ codes'[n].here = req[r].here /\ codes'[n].age = 0
    BY <1>1 DEF NewCode
<1>7. 1..Len(codes') = (1..Len(codes)) \cup {n} /\ n \notin 1..Len(codes)
    BY <1>1, <1>4
<1>8. \A d: OfEmail(d)' = IF d = e THEN OfEmail(d) \cup {n} ELSE OfEmail(d)
    BY <1>5, <1>6, <1>7 DEF OfEmail
<1>9. FromHere' = IF req[r].here THEN FromHere \cup {n} ELSE FromHere
    BY <1>5, <1>6, <1>7 DEF FromHere
<1>10. \A i \in 1..Len(codes): Counts(codes'[i]) = Counts(codes[i]) /\ Fresh(codes'[i]) = Fresh(codes[i])
    BY <1>5 DEF Counts, Fresh
<1>11. Counts(codes'[n])
    BY <1>6 DEF Counts
<1>12. \A d: Recent(d)' = IF d = e THEN Recent(d) \cup {n} ELSE Recent(d)
  <2> SUFFICES ASSUME NEW d PROVE Recent(d)' = IF d = e THEN Recent(d) \cup {n} ELSE Recent(d)
      OBVIOUS
  <2>1. OfEmail(d) \subseteq 1..Len(codes)
      BY DEF OfEmail
  <2> QED BY <1>7, <1>8, <1>10, <1>11, <2>1 DEF Recent
<1>13. RecentHere' = IF req[r].here THEN RecentHere \cup {n} ELSE RecentHere
  <2>1. FromHere \subseteq 1..Len(codes)
      BY DEF FromHere
  <2>2. CASE req[r].here
      BY <1>7, <1>9, <1>10, <1>11, <2>1, <2>2 DEF RecentHere
  <2>3. CASE ~req[r].here
      BY <1>9, <1>10, <2>1, <2>3 DEF RecentHere
  <2> QED BY <2>2, <2>3
<1>14. \A d: d # e => OfEmail(d)' = OfEmail(d) /\ Recent(d)' = Recent(d)
    BY <1>8, <1>12
<1>15. Recent(e)' = Recent(e) \cup {n}
    BY <1>12
<1> HIDE DEF n
<1> QED BY <1>1, <1>5, <1>6, <1>10, <1>13, <1>14, <1>15 DEF n, Issued

\* A step other than IssueCode keeps the codes, and only EnforceRateLimits lets
\* a request pass.
LEMMA OtherSteps ==
    ASSUME CodesInv, [Next]_vars, \A r \in Requests: ~IssueCode(r)
    PROVE  Kept
<1> USE DEF CodesInv
<1>1. ASSUME NEW i, NEW c, Updates(i, c)
      PROVE  Kept
    BY <1>1, UpdatesKeep
<1>2. ASSUME NEW r \in Requests, MailFails(r)
      PROVE  Kept
    BY <1>1, <1>2, MailFailsUpdates
<1>3. ASSUME NEW g \in Guessers, CountWrong(g)
      PROVE  Kept
    BY <1>1, <1>3, CountWrongUpdates
<1>4. ASSUME NEW g \in Guessers, Consume(g)
      PROVE  Kept
    BY <1>1, <1>4, ConsumeUpdates
<1>5. ASSUME NEW i \in 1..Len(codes), Age(i)
      PROVE  Kept
    BY <1>1, <1>5, AgeUpdates
<1>6. CASE codes' = codes
    BY <1>6, SameKeep
<1> QED BY <1>2, <1>3, <1>4, <1>5, <1>6
        DEF Next, vars, Ask, LockEmail, LockIp, EnforceRateLimits, MailSent, Fail, Submit, GiveUp

LEMMA WhoIsChecked ==
    ASSUME CodesInv, [Next]_vars, NEW q \in Requests, pc'[q] = "checked", ~EnforceRateLimits(q)
    PROVE  pc[q] = "checked" /\ req'[q] = req[q] /\ ~IssueCode(q)
<1> DEFINE Typed == /\ pc \in [Requests -> {"idle", "asked", "email locked", "locked", "checked", "mailing"}]
                    /\ req \in [Requests -> [email: Emails \cup {None}, here: BOOLEAN, code: Nat]]
           Goal == pc[q] = "checked" /\ req'[q] = req[q] /\ ~IssueCode(q)
<1> SUFFICES Goal
    OBVIOUS
<1>1. Typed
    BY DEF CodesInv, TypeOK
<1>2. ~IssueCode(q)
    BY <1>1 DEF IssueCode, Ends
<1>3. ASSUME NEW r \in Requests, NEW e \in Emails, NEW here \in Here, Ask(r, e, here)
      PROVE  Goal
    BY <1>1, <1>2, <1>3 DEF Ask
<1>4. ASSUME NEW r \in Requests, LockEmail(r) \/ LockIp(r)
      PROVE  Goal
    BY <1>1, <1>2, <1>4 DEF LockEmail, LockIp, Goes
<1>5. ASSUME NEW r \in Requests, EnforceRateLimits(r)
      PROVE  Goal
  <2>1. r # q
      BY <1>5
  <2> QED BY <1>1, <1>2, <1>5, <2>1 DEF EnforceRateLimits
<1>6. ASSUME NEW r \in Requests, IssueCode(r)
      PROVE  Goal
  <2>1. r # q
      BY <1>2, <1>6
  <2> QED BY <1>1, <1>2, <1>6, <2>1 DEF IssueCode, Ends
<1>7. ASSUME NEW r \in Requests, MailSent(r) \/ MailFails(r) \/ Fail(r)
      PROVE  Goal
    BY <1>1, <1>2, <1>7 DEF MailSent, MailFails, Fail, Ends
<1>8. CASE UNCHANGED <<pc, req>>
    BY <1>2, <1>8
<1>9. ASSUME NEW g \in Guessers, NEW e \in Emails, NEW right \in BOOLEAN, Submit(g, e, right)
      PROVE  UNCHANGED <<pc, req>>
    BY <1>9 DEF Submit
<1>10. ASSUME NEW g \in Guessers, CountWrong(g) \/ Consume(g) \/ GiveUp(g)
       PROVE  UNCHANGED <<pc, req>>
    BY <1>10 DEF CountWrong, Consume, GiveUp, Answers
<1>11. ASSUME NEW i \in 1..Len(codes), Age(i)
       PROVE  UNCHANGED <<pc, req>>
    BY <1>11 DEF Age
<1>12. CASE UNCHANGED vars
    BY <1>8, <1>12 DEF vars
<1> HIDE DEF Goal
<1> QED BY <1>2, <1>3, <1>4, <1>5, <1>6, <1>7, <1>8, <1>9, <1>10, <1>11, <1>12 DEF Next

LEMMA CheckedStep == CodesInv /\ [Next]_vars => Checked'
<1> SUFFICES ASSUME CodesInv, [Next]_vars, NEW q \in Requests, NEW e \in Emails,
                    pc'[q] = "checked", req'[q].email = e
             PROVE  Passed(q, e)'
    BY DEF Checked
<1> USE CodesAssumption
<1>1. CASE EnforceRateLimits(q)
  <2>1. codes' = codes /\ req[q].email = e /\ req'[q].here = req[q].here /\ req'[q].code = Len(codes)
    <3>1. req' = [req EXCEPT ![q].code = Len(codes)] /\ codes' = codes
        BY <1>1 DEF EnforceRateLimits
    <3>2. \A n: [req[q] EXCEPT !.code = n].email = req[q].email /\ [req[q] EXCEPT !.code = n].here = req[q].here
                  /\ [req[q] EXCEPT !.code = n].code = n
        BY ZenonT(60) DEF CodesInv, TypeOK
    <3>3. DOMAIN req = Requests
        BY DEF CodesInv, TypeOK
    <3> QED BY <3>1, <3>2, <3>3
  <2>2. Len(codes) \in Nat /\ \A i \in OfEmail(e): i <= Len(codes)
      BY CodesTyped DEF CodesInv, OfEmail
  <2>3. /\ \A i \in Recent(e): ~Fresh(codes[i])
        /\ Cardinality(Recent(e)) < EmailLimit
        /\ req[q].here => Cardinality(RecentHere) < IpLimit
      BY <1>1, <2>1 DEF EnforceRateLimits, Recent, RecentHere
  <2>4. \A i \in OfEmail(e): ~Fresh(codes[i])
      BY <2>3 DEF Recent, Fresh, Counts
  <2> QED BY <2>1, <2>2, <2>3, <2>4 DEF Passed, OfEmail, Recent, RecentHere, FromHere
<1>2. CASE ~EnforceRateLimits(q)
  <2>1. pc[q] = "checked" /\ req'[q] = req[q] /\ ~IssueCode(q)
      BY <1>2, WhoIsChecked
  <2>2. Passed(q, e)
      BY <2>1 DEF CodesInv, Checked
  <2>3. Len(codes) \in Nat /\ req[q].code \in Nat
      BY CodesTyped DEF CodesInv, TypeOK
  <2>4. /\ Cardinality(Recent(e)) \in Nat /\ Cardinality(RecentHere) \in Nat
        /\ EmailLimit \in Nat /\ IpLimit \in Nat
      BY CountsAreFinite DEF CodesInv
  <2>5. CASE \A r \in Requests: ~IssueCode(r)
    <3>1. Kept
        BY <2>5, OtherSteps
    <3>2. /\ OfEmail(e)' = OfEmail(e)
          /\ Cardinality(Recent(e)') <= Cardinality(Recent(e)) /\ Cardinality(RecentHere') <= Cardinality(RecentHere)
          /\ Cardinality(Recent(e)') \in Nat /\ Cardinality(RecentHere') \in Nat
          /\ \A i \in 1..Len(codes'): Fresh(codes'[i]) => Fresh(codes[i])
        BY <3>1, KeptCounts
    <3>3. Len(codes') = Len(codes) /\ OfEmail(e) \subseteq 1..Len(codes)
        BY <3>1 DEF Kept, OfEmail
    <3> QED BY <2>1, <2>2, <2>3, <2>4, <3>2, <3>3 DEF Passed
  <2>6. ASSUME NEW r \in Requests, IssueCode(r)
        PROVE  Passed(q, e)'
    <3>1. r # q /\ pc[r] = "checked"
        BY <2>1, <2>6 DEF IssueCode
    <3>2. req[r].email # e /\ ~(req[r].here /\ req[q].here)
        BY <2>1, <3>1 DEF CodesInv, LocksHeld, HasEmailLock, HasIpLock
    <3>3. /\ OfEmail(e)' = OfEmail(e) /\ Recent(e)' = Recent(e) /\ Len(codes') = Len(codes) + 1
          /\ \A i \in 1..Len(codes): Fresh(codes'[i]) = Fresh(codes[i])
          /\ req[q].here => RecentHere' = RecentHere
      <4>1. Issued(r, req[r].email)
          BY <2>6, IssueCounts
      <4> QED BY <3>2, <4>1 DEF Issued
    <3>4. OfEmail(e) \subseteq 1..Len(codes)
        BY DEF OfEmail
    <3> QED BY <2>1, <2>2, <2>3, <3>3, <3>4 DEF Passed
  <2> QED BY <2>5, <2>6
<1> QED BY <1>1, <1>2

LEMMA OneMore ==
    ASSUME NEW S, IsFiniteSet(S), NEW x
    PROVE  Cardinality(S \cup {x}) \in Nat /\ Cardinality(S \cup {x}) <= Cardinality(S) + 1
<1>1. Cardinality(S) \in Nat
    BY FS_CardinalityType
<1>2. Cardinality(S \cup {x}) = IF x \in S THEN Cardinality(S) ELSE Cardinality(S) + 1
    BY FS_AddElement
<1> QED BY <1>1, <1>2

LEMMA LimitsStep == CodesInv /\ [Next]_vars => Limits' /\ OneUsableCode'
<1> SUFFICES ASSUME CodesInv, [Next]_vars PROVE Limits' /\ OneUsableCode'
    OBVIOUS
<1> USE CodesAssumption
<1>1. /\ Len(codes) \in Nat
      /\ \A i \in 1..Len(codes): codes[i] \in Codes
      /\ Cardinality(RecentHere) \in Nat /\ IsFiniteSet(RecentHere)
      /\ \A e: Cardinality(Recent(e)) \in Nat /\ IsFiniteSet(Recent(e))
      /\ EmailLimit \in Nat /\ IpLimit \in Nat
    BY CodesTyped, CountsAreFinite DEF CodesInv
<1>2. CASE \A r \in Requests: ~IssueCode(r)
  <2>1. Kept
      BY <1>2, OtherSteps
  <2>2. Len(codes') = Len(codes)
        /\ \A i \in 1..Len(codes): codes'[i].email = codes[i].email /\ (Usable(codes'[i]) => Usable(codes[i]))
      BY <2>1 DEF Kept
  <2>3. Cardinality(RecentHere') <= IpLimit
      BY <1>1, <2>1, KeptCounts DEF CodesInv, Limits
  <2>4. ASSUME NEW e \in Emails
        PROVE  Cardinality(Recent(e)') <= EmailLimit
    <3>1. Cardinality(Recent(e)') <= Cardinality(Recent(e)) /\ Cardinality(Recent(e)') \in Nat
        BY <2>1, KeptCounts
    <3>2. Cardinality(Recent(e)) <= EmailLimit
        BY DEF CodesInv, Limits
    <3> QED BY <1>1, <3>1, <3>2
  <2>5. \A i \in 1..Len(codes): Fresh(codes'[i]) => Fresh(codes[i])
      BY <2>1, <2>2, KeptCounts
  <2>6. Limits'
      BY <2>2, <2>3, <2>4, <2>5 DEF CodesInv, Limits
  <2>7. OneUsableCode'
      BY <2>2 DEF CodesInv, OneUsableCode
  <2> QED BY <2>6, <2>7
<1>3. ASSUME NEW r \in Requests, IssueCode(r)
      PROVE  Limits' /\ OneUsableCode'
  <2> DEFINE n == Len(codes) + 1
  <2>1. PICK e \in Emails: req[r].email = e
      BY <1>3, IssueAppends
  <2>2. Passed(r, e)
      BY <1>3, <2>1 DEF CodesInv, Checked, IssueCode
  <2>3. /\ \A i \in 1..Len(codes): codes'[i].email = codes[i].email /\ Fresh(codes'[i]) = Fresh(codes[i])
        /\ codes'[n].email = e /\ Len(codes') = n
        /\ \A d: d # e => Recent(d)' = Recent(d)
        /\ Recent(e)' = Recent(e) \cup {n}
        /\ RecentHere' = IF req[r].here THEN RecentHere \cup {n} ELSE RecentHere
    <3>1. Issued(r, e)
        BY <1>3, <2>1, IssueCounts
    <3> QED BY <3>1 DEF Issued
  <2>4. Cardinality(RecentHere') <= IpLimit
    <3>1. CASE req[r].here
      <4>1. Cardinality(RecentHere \cup {n}) <= Cardinality(RecentHere) + 1
          BY <1>1, OneMore
      <4>2. Cardinality(RecentHere) < IpLimit
          BY <2>2, <3>1 DEF Passed
      <4>3. Cardinality(RecentHere \cup {n}) \in Nat
          BY <1>1, OneMore
      <4> QED BY <1>1, <2>3, <3>1, <4>1, <4>2, <4>3
    <3>2. CASE ~req[r].here
        BY <2>3, <3>2 DEF CodesInv, Limits
    <3> QED BY <3>1, <3>2
  <2>5. Cardinality(Recent(e)') <= EmailLimit
    <3>1. Cardinality(Recent(e) \cup {n}) <= Cardinality(Recent(e)) + 1 /\ Cardinality(Recent(e) \cup {n}) \in Nat
        BY <1>1, OneMore
    <3>2. Cardinality(Recent(e)) < EmailLimit
        BY <2>2 DEF Passed
    <3> QED BY <1>1, <2>3, <3>1, <3>2
  <2>6. \A d \in Emails: Cardinality(Recent(d)') <= EmailLimit
      BY <2>3, <2>5 DEF CodesInv, Limits
  <2>7. \A i \in 1..Len(codes): codes[i].email = e => ~Fresh(codes[i])
      BY <2>2 DEF Passed, OfEmail
  <2>8. Limits'
    <3>1. \A i, j \in 1..n: codes'[i].email = codes'[j].email /\ Fresh(codes'[i]) /\ Fresh(codes'[j]) => i = j
        BY <1>1, <2>3, <2>7 DEF CodesInv, Limits
    <3> QED BY <2>3, <2>4, <2>6, <3>1 DEF Limits
  <2>9. \A i \in 1..Len(codes): Usable(codes'[i]) => Usable(codes[i]) /\ codes[i].email # e
    <3>1. \A i \in 1..Len(codes): codes'[i] = Superseded(codes[i], e)
        BY <1>3, <2>1, IssueAppends
    <3>2. \A c \in Codes: Usable(Superseded(c, e)) => Usable(c) /\ c.email # e
        BY DEF Superseded, Usable, Codes
    <3> QED BY <1>1, <3>1, <3>2
  <2>10. OneUsableCode'
    <3>1. \A i, j \in 1..n: codes'[i].email = codes'[j].email /\ Usable(codes'[i]) /\ Usable(codes'[j]) => i = j
        BY <1>1, <2>3, <2>9 DEF CodesInv, OneUsableCode
    <3> QED BY <2>3, <3>1 DEF OneUsableCode
  <2> QED BY <2>8, <2>10
<1> QED BY <1>2, <1>3

LEMMA MailingStep == CodesInv /\ [Next]_vars => Mailing'
<1> SUFFICES ASSUME CodesInv, [Next]_vars, NEW q \in Requests, pc'[q] = "mailing"
             PROVE  req'[q].code \in 1..Len(codes')
    BY DEF Mailing
<1> USE CodesAssumption
<1>1. Len(codes) \in Nat /\ Len(codes') \in Nat /\ Len(codes') >= Len(codes)
  <2>1. CASE \A r \in Requests: ~IssueCode(r)
      BY <2>1, OtherSteps, CodesTyped DEF Kept, CodesInv
  <2>2. ASSUME NEW r \in Requests, IssueCode(r)
        PROVE  Len(codes') = Len(codes) + 1
      BY <2>2, IssueAppends
  <2> QED BY <2>1, <2>2, CodesTyped DEF CodesInv
<1>2. CASE pc[q] = "mailing" /\ req'[q] = req[q]
    BY <1>1, <1>2 DEF CodesInv, Mailing
<1>3. CASE IssueCode(q)
  <2>1. pc' = [pc EXCEPT ![q] = "mailing"] /\ req' = [req EXCEPT ![q].code = Len(codes')]
      BY <1>3 DEF IssueCode, Ends, CodesInv, TypeOK
  <2>2. DOMAIN req = Requests /\ \A n: [req[q] EXCEPT !.code = n].code = n
      BY ZenonT(60) DEF CodesInv, TypeOK
  <2>3. req'[q].code = Len(codes')
      BY <2>1, <2>2
  <2>4. Len(codes') = Len(codes) + 1
      BY <1>3, IssueAppends
  <2> QED BY <1>1, <2>3, <2>4
<1>4. CASE ~IssueCode(q)
  <2> DEFINE Typed == /\ pc \in [Requests -> {"idle", "asked", "email locked", "locked", "checked", "mailing"}]
                      /\ req \in [Requests -> [email: Emails \cup {None}, here: BOOLEAN, code: Nat]]
             Goal == pc[q] = "mailing" /\ req'[q] = req[q]
  <2> SUFFICES Goal
      BY <1>2
  <2>1. Typed
      BY DEF CodesInv, TypeOK
  <2>2. ASSUME NEW r \in Requests, NEW e \in Emails, NEW here \in Here, Ask(r, e, here)
        PROVE  Goal
      BY <2>1, <2>2 DEF Ask
  <2>3. ASSUME NEW r \in Requests, LockEmail(r) \/ LockIp(r)
        PROVE  Goal
      BY <2>1, <2>3 DEF LockEmail, LockIp, Goes
  <2>4. ASSUME NEW r \in Requests, EnforceRateLimits(r)
        PROVE  Goal
      BY <2>1, <2>4 DEF EnforceRateLimits
  <2>5. ASSUME NEW r \in Requests, IssueCode(r)
        PROVE  Goal
    <3>1. r # q
        BY <1>4, <2>5
    <3> QED BY <2>1, <2>5, <3>1 DEF IssueCode, Ends
  <2>6. ASSUME NEW r \in Requests, MailSent(r) \/ MailFails(r) \/ Fail(r)
        PROVE  Goal
      BY <2>1, <2>6 DEF MailSent, MailFails, Fail, Ends
  <2>7. CASE UNCHANGED <<pc, req>>
      BY <2>7
  <2>8. ASSUME NEW g \in Guessers, NEW e \in Emails, NEW right \in BOOLEAN, Submit(g, e, right)
        PROVE  UNCHANGED <<pc, req>>
      BY <2>8 DEF Submit
  <2>9. ASSUME NEW g \in Guessers, CountWrong(g) \/ Consume(g) \/ GiveUp(g)
         PROVE  UNCHANGED <<pc, req>>
      BY <2>9 DEF CountWrong, Consume, GiveUp, Answers
  <2>10. ASSUME NEW i \in 1..Len(codes), Age(i)
         PROVE  UNCHANGED <<pc, req>>
      BY <2>10 DEF Age
  <2>11. CASE UNCHANGED vars
      BY <2>7, <2>11 DEF vars
  <2> HIDE DEF Goal
  <2> QED BY <2>2, <2>3, <2>4, <2>5, <2>6, <2>7, <2>8, <2>9, <2>10, <2>11 DEF Next
<1> QED BY <1>3, <1>4

(***************************************************************************)
(* The guesses.                                                            *)
(***************************************************************************)
\* What a code keeps but for a guess or a sign-in.
SameUse(c, d) ==
    d.attempts = c.attempts /\ d.wrong = c.wrong /\ d.used = c.used /\ d.signIns = c.signIns

LEMMA GuessingIsFinite ==
    ASSUME NEW i
    PROVE  /\ Cardinality(Guessers) \in Nat
           /\ IsFiniteSet(Guessing(i)) /\ Cardinality(Guessing(i)) \in Nat
           /\ Cardinality(Guessing(i)) <= Cardinality(Guessers)
<1>1. IsFiniteSet(Guessers) /\ Guessing(i) \in SUBSET Guessers
    BY CodesAssumption DEF Guessing
<1>2. IsFiniteSet(Guessing(i)) /\ Cardinality(Guessing(i)) <= Cardinality(Guessers)
    BY <1>1, FS_Subset
<1> QED BY <1>1, <1>2, FS_CardinalityType

\* Nobody guesses meanwhile: the step only keeps or appends codes.
LEMMA GuessesKept ==
    ASSUME CodesInv, UNCHANGED <<at, seen>>, Len(codes') >= Len(codes), Len(codes') \in Nat,
           \A i \in 1..Len(codes): SameUse(codes[i], codes'[i]),
           \A i \in 1..Len(codes'): i \in 1..Len(codes) \/ SameUse(NewCode(None, FALSE), codes'[i])
    PROVE  Guesses'
<1> USE CodesAssumption
<1>1. Len(codes) \in Nat
    BY CodesTyped DEF CodesInv
<1>2. \A i: Guessing(i)' = Guessing(i)
    BY DEF Guessing
<1>3. \A g \in Guessers: at[g] # "idle" => seen[g].code \in 1..Len(codes)
    BY DEF CodesInv, Guesses
<1>4. ASSUME NEW i \in 1..Len(codes'), i \notin 1..Len(codes)
      PROVE  codes'[i].wrong + Cardinality(Guessing(i)) < MaxAttempts + Cardinality(Guessers)
             /\ codes'[i].attempts = 0 /\ codes'[i].wrong = 0 /\ codes'[i].signIns = 0 /\ codes'[i].used = FALSE
  <2>1. Guessing(i) = {}
      BY <1>3, <1>4 DEF Guessing
  <2>2. Cardinality(Guessing(i)) = 0
      BY <2>1, FS_EmptySet
  <2>3. SameUse(NewCode(None, FALSE), codes'[i])
      BY <1>4
  <2>4. codes'[i].wrong = 0 /\ codes'[i].attempts = 0 /\ codes'[i].signIns = 0 /\ codes'[i].used = FALSE
      BY <2>3 DEF SameUse, NewCode
  <2> QED BY <2>2, <2>4, GuessingIsFinite
<1>5. ASSUME NEW i \in 1..Len(codes)
      PROVE  /\ codes'[i].attempts = codes'[i].wrong
             /\ codes'[i].signIns = IF codes'[i].used THEN 1 ELSE 0
             /\ codes'[i].wrong + Cardinality(Guessing(i)) < MaxAttempts + Cardinality(Guessers)
    BY DEF CodesInv, Guesses, SameUse
<1>6. \A g \in Guessers: at'[g] # "idle" => seen'[g].code \in 1..Len(codes')
    BY <1>1, <1>3
<1> QED BY <1>2, <1>4, <1>5, <1>6 DEF Guesses

LEMMA GuessesStep == CodesInv /\ [Next]_vars => Guesses'
<1> SUFFICES ASSUME CodesInv, [Next]_vars PROVE Guesses'
    OBVIOUS
<1> USE CodesAssumption
<1>1. /\ Len(codes) \in Nat
      /\ \A i \in 1..Len(codes): codes[i] \in Codes
      /\ at \in [Guessers -> {"idle", "right", "wrong"}]
      /\ seen \in [Guessers -> [code: Nat, attempts: Nat]]
    BY CodesTyped DEF CodesInv, TypeOK
<1>2. \A g \in Guessers: at[g] # "idle" => seen[g].code \in 1..Len(codes)
    BY DEF CodesInv, Guesses
<1>3. \A i \in 1..Len(codes):
         /\ codes[i].attempts = codes[i].wrong
         /\ codes[i].signIns = IF codes[i].used THEN 1 ELSE 0
         /\ codes[i].wrong + Cardinality(Guessing(i)) < MaxAttempts + Cardinality(Guessers)
         /\ codes[i].wrong \in Nat
    BY <1>1 DEF CodesInv, Guesses, Codes
<1>4. CASE UNCHANGED <<codes, at, seen>>
  <2>1. Len(codes') >= Len(codes) /\ Len(codes') \in Nat
      BY <1>1, <1>4
  <2>2. \A i \in 1..Len(codes): SameUse(codes[i], codes'[i])
      BY <1>4 DEF SameUse
  <2>3. \A i \in 1..Len(codes'): i \in 1..Len(codes)
      BY <1>4
  <2> QED BY <1>4, <2>1, <2>2, <2>3, GuessesKept
<1>5. ASSUME NEW i, NEW c, Updates(i, c), SameUse(codes[i], c), UNCHANGED <<at, seen>>
      PROVE  Guesses'
  <2>1. Len(codes') = Len(codes) /\ codes'[i] = c /\ \A j \in 1..Len(codes): j # i => codes'[j] = codes[j]
      BY <1>5, UpdatesKeep DEF Kept, CodesInv
  <2>2. \A j \in 1..Len(codes): SameUse(codes[j], codes'[j])
      BY <1>5, <2>1 DEF SameUse
  <2>3. Len(codes') >= Len(codes) /\ Len(codes') \in Nat /\ \A j \in 1..Len(codes'): j \in 1..Len(codes)
      BY <1>1, <2>1
  <2> QED BY <1>5, <2>2, <2>3, GuessesKept
<1>6. ASSUME NEW r \in Requests, MailFails(r)
      PROVE  Guesses'
  <2>1. \A c \in Codes: SameUse(c, [c EXCEPT !.gone = TRUE])
      BY DEF Codes, SameUse
  <2>2. req[r].code \in 1..Len(codes)
      BY <1>6 DEF CodesInv, Mailing, MailFails
  <2> QED BY <1>1, <1>5, <1>6, <2>1, <2>2, MailFailsUpdates DEF MailFails
<1>7. ASSUME NEW i \in 1..Len(codes), Age(i)
      PROVE  Guesses'
  <2>1. \A c \in Codes: SameUse(c, [c EXCEPT !.age = @ + 1])
      BY DEF Codes, SameUse
  <2> QED BY <1>1, <1>5, <1>7, <2>1, AgeUpdates DEF Age
<1>8. ASSUME NEW r \in Requests, IssueCode(r)
      PROVE  Guesses'
  <2>1. /\ Len(codes') = Len(codes) + 1
        /\ \A i \in 1..Len(codes): codes'[i] = Superseded(codes[i], req[r].email)
        /\ codes'[Len(codes) + 1] = NewCode(req[r].email, req[r].here)
      BY <1>8, IssueAppends
  <2>2. \A c \in Codes: \A e: SameUse(c, Superseded(c, e))
      BY DEF Codes, SameUse, Superseded
  <2>3. SameUse(NewCode(None, FALSE), NewCode(req[r].email, req[r].here))
      BY DEF SameUse, NewCode
  <2>4. \A i \in 1..Len(codes'): i \in 1..Len(codes) \/ i = Len(codes) + 1
      BY <1>1, <2>1
  <2>5. Len(codes') >= Len(codes) /\ Len(codes') \in Nat /\ UNCHANGED <<at, seen>>
      BY <1>1, <1>8, <2>1 DEF IssueCode
  <2>6. \A i \in 1..Len(codes): SameUse(codes[i], codes'[i])
      BY <1>1, <2>1, <2>2
  <2>7. \A i \in 1..Len(codes'): i \in 1..Len(codes) \/ SameUse(NewCode(None, FALSE), codes'[i])
      BY <2>1, <2>3, <2>4
  <2> QED BY <2>5, <2>6, <2>7, GuessesKept
<1>9. ASSUME NEW g \in Guessers, NEW e \in Emails, NEW right \in BOOLEAN, Submit(g, e, right)
      PROVE  Guesses'
  <2>1. PICK i \in Current(e):
             /\ at[g] = "idle" /\ codes[i].attempts < MaxAttempts
             /\ at' = [at EXCEPT ![g] = IF right THEN "right" ELSE "wrong"]
             /\ seen' = [seen EXCEPT ![g] = [code |-> i, attempts |-> codes[i].attempts]]
             /\ codes' = codes
      BY <1>9 DEF Submit
  <2>2. i \in 1..Len(codes)
      BY DEF Current, OfEmail
  <2>3. \A h \in Guessers: h # g => at'[h] = at[h] /\ seen'[h] = seen[h]
      BY <1>1, <2>1
  <2>4. seen'[g].code = i
      BY <1>1, <2>1
  <2>5. \A j: j # i => Guessing(j)' = Guessing(j)
      BY <2>1, <2>3, <2>4 DEF Guessing
  <2>6. Guessing(i)' \in SUBSET Guessers
      BY DEF Guessing
  <2>7. Cardinality(Guessing(i)') <= Cardinality(Guessers) /\ Cardinality(Guessing(i)') \in Nat
        /\ Cardinality(Guessers) \in Nat
      BY <2>6, FS_Subset, FS_CardinalityType
  <2>8. codes[i].wrong + Cardinality(Guessing(i)') < MaxAttempts + Cardinality(Guessers)
      BY <1>3, <2>1, <2>2, <2>7
  <2>9. \A h \in Guessers: at'[h] # "idle" => seen'[h].code \in 1..Len(codes)
      BY <1>2, <2>2, <2>3, <2>4
  <2> QED BY <1>3, <2>1, <2>5, <2>8, <2>9 DEF Guesses
<1>10. ASSUME NEW g \in Guessers, Answers(g)
       PROVE  /\ \A h \in Guessers: h # g => at'[h] = at[h] /\ seen'[h] = seen[h]
              /\ at'[g] = "idle"
              /\ \A j: Guessing(j)' = Guessing(j) \ {g}
  <2>1. /\ \A h \in Guessers: h # g => at'[h] = at[h] /\ seen'[h] = seen[h]
        /\ at'[g] = "idle"
      BY <1>1, <1>10 DEF Answers
  <2> QED BY <2>1 DEF Guessing
<1>11. ASSUME NEW j, NEW g \in Guessers
       PROVE  Cardinality(Guessing(j) \ {g}) =
                IF g \in Guessing(j) THEN Cardinality(Guessing(j)) - 1 ELSE Cardinality(Guessing(j))
    BY GuessingIsFinite, FS_RemoveElement
<1>12. ASSUME NEW g \in Guessers, GiveUp(g)
       PROVE  Guesses'
  <2>1. Answers(g) /\ codes' = codes
      BY <1>12 DEF GiveUp
  <2>2. ASSUME NEW j \in 1..Len(codes)
        PROVE  codes[j].wrong + Cardinality(Guessing(j)') < MaxAttempts + Cardinality(Guessers)
    <3>1. Guessing(j)' = Guessing(j) \ {g}
        BY <1>10, <2>1
    <3>2. Cardinality(Guessing(j) \ {g}) <= Cardinality(Guessing(j)) /\ Cardinality(Guessing(j) \ {g}) \in Nat
      <4>1. Guessing(j) \ {g} \in SUBSET Guessing(j)
          OBVIOUS
      <4> QED BY <4>1, GuessingIsFinite, FS_Subset, FS_CardinalityType
    <3>3. Cardinality(Guessing(j)) \in Nat /\ Cardinality(Guessers) \in Nat
        BY GuessingIsFinite
    <3> QED BY <1>3, <3>1, <3>2, <3>3
  <2> QED BY <1>2, <1>3, <1>10, <2>1, <2>2 DEF Guesses
<1>13. ASSUME NEW g \in Guessers, CountWrong(g)
       PROVE  Guesses'
  <2>1. PICK i \in 1..Len(codes): i = seen[g].code
      BY <1>2, <1>13 DEF CountWrong
  <2>2. Updates(i, [codes[i] EXCEPT !.attempts = @ + 1, !.wrong = @ + 1])
      BY <1>13, <2>1, CountWrongUpdates
  <2>3. /\ codes'[i] = [codes[i] EXCEPT !.attempts = @ + 1, !.wrong = @ + 1]
        /\ Len(codes') = Len(codes) /\ \A j \in 1..Len(codes): j # i => codes'[j] = codes[j]
      BY <2>2, UpdatesKeep DEF Kept, CodesInv
  <2>4. /\ codes'[i].attempts = codes[i].attempts + 1 /\ codes'[i].wrong = codes[i].wrong + 1
        /\ codes'[i].used = codes[i].used /\ codes'[i].signIns = codes[i].signIns
      BY <1>1, <2>3 DEF Codes
  <2>5. Answers(g) /\ at[g] = "wrong"
      BY <1>13 DEF CountWrong
  <2>6. g \in Guessing(i) /\ \A j: j # i => g \notin Guessing(j)
      BY <2>1, <2>5 DEF Guessing
  <2>7. \A j: Guessing(j)' = Guessing(j) \ {g}
      BY <1>10, <2>5
  <2>8. Cardinality(Guessing(i)') = Cardinality(Guessing(i)) - 1
      BY <1>11, <2>6, <2>7
  <2>9. codes'[i].wrong + Cardinality(Guessing(i)') < MaxAttempts + Cardinality(Guessers)
      BY <1>3, <2>4, <2>8, GuessingIsFinite
  <2>10. ASSUME NEW j \in 1..Len(codes), j # i
         PROVE  Guessing(j)' = Guessing(j)
      BY <2>6, <2>7, <2>10
  <2>11. \A h \in Guessers: at'[h] # "idle" => seen'[h].code \in 1..Len(codes')
      BY <1>2, <1>10, <2>3, <2>5
  <2>12. ASSUME NEW j \in 1..Len(codes')
         PROVE  /\ codes'[j].attempts = codes'[j].wrong
                /\ codes'[j].signIns = IF codes'[j].used THEN 1 ELSE 0
                /\ codes'[j].wrong + Cardinality(Guessing(j)') < MaxAttempts + Cardinality(Guessers)
    <3>1. CASE j = i
        BY <1>3, <2>4, <2>9, <3>1
    <3>2. CASE j # i
        BY <1>3, <2>3, <2>10, <3>2
    <3> QED BY <3>1, <3>2
  <2> QED BY <2>11, <2>12 DEF Guesses
<1>14. ASSUME NEW g \in Guessers, Consume(g)
       PROVE  Guesses'
  <2>1. PICK i \in 1..Len(codes): i = seen[g].code
      BY <1>2, <1>14 DEF Consume
  <2>2. Updates(i, [codes[i] EXCEPT !.used = TRUE, !.signIns = @ + 1])
      BY <1>14, <2>1, ConsumeUpdates
  <2>3. /\ codes'[i] = [codes[i] EXCEPT !.used = TRUE, !.signIns = @ + 1]
        /\ Len(codes') = Len(codes) /\ \A j \in 1..Len(codes): j # i => codes'[j] = codes[j]
      BY <2>2, UpdatesKeep DEF Kept, CodesInv
  <2>4. /\ codes'[i].attempts = codes[i].attempts /\ codes'[i].wrong = codes[i].wrong
        /\ codes'[i].used = TRUE /\ codes'[i].signIns = codes[i].signIns + 1
      BY <1>1, <2>3 DEF Codes
  <2>5. Answers(g) /\ at[g] = "right" /\ ~codes[i].used
      BY <1>14, <2>1 DEF Consume
  <2>6. \A j: g \notin Guessing(j)
      BY <2>5 DEF Guessing
  <2>7. ASSUME NEW j
        PROVE  Guessing(j)' = Guessing(j)
    <3>1. Guessing(j) \ {g} = Guessing(j)
        BY <2>6
    <3> QED BY <1>10, <2>5, <3>1
  <2>8. codes'[i].signIns = 1
      BY <1>3, <2>4, <2>5
  <2>9. \A h \in Guessers: at'[h] # "idle" => seen'[h].code \in 1..Len(codes')
      BY <1>2, <1>10, <2>3, <2>5
  <2>10. ASSUME NEW j \in 1..Len(codes')
         PROVE  /\ codes'[j].attempts = codes'[j].wrong
                /\ codes'[j].signIns = IF codes'[j].used THEN 1 ELSE 0
                /\ codes'[j].wrong + Cardinality(Guessing(j)') < MaxAttempts + Cardinality(Guessers)
    <3>1. CASE j = i
        BY <1>3, <2>4, <2>7, <2>8, <3>1
    <3>2. CASE j # i
        BY <1>3, <2>3, <2>7, <3>2
    <3> QED BY <3>1, <3>2
  <2> QED BY <2>9, <2>10 DEF Guesses
<1> QED BY <1>4, <1>6, <1>7, <1>8, <1>9, <1>12, <1>13, <1>14
        DEF Next, vars, Ask, LockEmail, LockIp, EnforceRateLimits, MailSent, Fail

THEOREM CodesCorrect == Spec => []CodesInv
<1>1. CodesInv /\ [Next]_vars => CodesInv'
    BY CodesTypeStep, LocksStep, CheckedStep, LimitsStep, MailingStep, GuessesStep DEF CodesInv
<1> QED BY <1>1, CodesInit, PTL DEF Spec

\* Requests take turns over any number of processes: the newest code of an
\* e-mail is the only usable one, and no e-mail and no address gets more codes
\* within the hour than its limit.
THEOREM CodesIssuedInTurn == Spec => []IssuedInTurn
<1>1. CodesInv => IssuedInTurn
  <2> SUFFICES ASSUME CodesInv PROVE IssuedInTurn
      OBVIOUS
  <2> DEFINE counted == {i \in 1..Len(codes): Counts(codes[i])}
  <2>1. counted \cap FromHere = RecentHere
      BY DEF RecentHere, FromHere
  <2>2. \A i \in counted: codes[i].email \in Emails
      BY CodesTyped DEF CodesInv, Codes
  <2>3. \A e: counted \cap OfEmail(e) = Recent(e)
      BY DEF Recent, OfEmail
  <2>4. \A i \in counted: Cardinality(counted \cap OfEmail(codes[i].email)) <= EmailLimit
      BY <2>2, <2>3 DEF CodesInv, Limits
  <2>5. \A i, j \in 1..Len(codes):
          codes[i].email = codes[j].email /\ Fresh(codes[i]) /\ Fresh(codes[j]) => i = j
      BY DEF CodesInv, Limits
  <2>6. WithinLimits
      BY <2>1, <2>4, <2>5 DEF CodesInv, Limits, WithinLimits, OfEmail
  <2> QED BY <2>6 DEF CodesInv, IssuedInTurn
<1> QED BY <1>1, CodesCorrect, PTL

\* A code signs in once, and is compared with fewer wrong guesses than the
\* attempts it has and the submissions that may have read it before the last.
THEOREM CodesAreSpent == Spec => []CodeIsSpent
<1>1. CodesInv => CodeIsSpent
  <2> SUFFICES ASSUME CodesInv, NEW i \in 1..Len(codes)
               PROVE  codes[i].signIns <= 1 /\ codes[i].wrong < MaxAttempts + Cardinality(Guessers)
      BY DEF CodeIsSpent
  <2>1. codes[i].wrong \in Nat
      BY CodesTyped DEF CodesInv, Codes
  <2>2. /\ codes[i].signIns = IF codes[i].used THEN 1 ELSE 0
        /\ codes[i].wrong + Cardinality(Guessing(i)) < MaxAttempts + Cardinality(Guessers)
      BY DEF CodesInv, Guesses
  <2> QED BY <2>1, <2>2, GuessingIsFinite, CodesAssumption
<1> QED BY <1>1, CodesCorrect, PTL

-----------------------------------------------------------------------------
(***************************************************************************)
(* Members, administrators and sessions.                                   *)
(*                                                                         *)
(* While requests of administrators have not overlapped, one that has not  *)
(* been overtaken since its reads still finds another administrator than   *)
(* the one it may be about to take away: sign-ins and starts of the        *)
(* service only add some.  A sign-in that its account's end did not catch  *)
(* is of an account that has not ended.                                    *)
(***************************************************************************)
\* What the request of h may take away.
TakesAway(h) ==
    \/ request[h].step \in {"create", "invite", "remove"}
    \/ request[h].step = "update" /\ (request[h].role = "other" \/ request[h].status = "disabled")

UpdatesOneThing ==
    \A h \in Handlers: /\ request[h].step # "idle" => request[h].user \in Users
                       /\ request[h].step = "update" => (request[h].role = "same") # (request[h].status = "same")

InTurn ==
    overlapped \/
        /\ \E u \in Users: M!IsAdmin(u)
        /\ \A h \in Handlers \ stale: TakesAway(h) => M!AnotherAdmin(request[h].user)

SignInsOfMembers ==
    \A u \in Users: signing[u].step # "no" /\ ~signing[u].raced => ~M!Ended(u)

MembersInv == M!TypeOK /\ UpdatesOneThing /\ InTurn /\ SignInsOfMembers /\ SessionsEnd

LEMMA MembersInit == M!MembershipAssumption /\ M!Init => MembersInv
<1> SUFFICES ASSUME M!MembershipAssumption, M!Init PROVE MembersInv
    OBVIOUS
<1> USE DEF M!MembershipAssumption, M!Init
<1>1. M!TypeOK
    BY DEF M!TypeOK, M!Idle, M!Req, M!NoSignIn, M!Roles, M!Statuses
<1>2. UpdatesOneThing
    BY DEF UpdatesOneThing, M!Idle, M!Req
<1>3. InTurn
    BY DEF InTurn, TakesAway, M!IsAdmin, M!Belongs, M!Idle, M!Req
<1>4. SignInsOfMembers /\ SessionsEnd
    BY DEF SignInsOfMembers, SessionsEnd, M!SessionsEnd, M!NoSignIn
<1> QED BY <1>1, <1>2, <1>3, <1>4 DEF MembersInv

\* The types of what is under way.
SignIns == [step: {"no", "joining", "joined"}, raced: BOOLEAN]
Requested == [step: {"idle", "create", "invite", "update", "remove", "revoke"},
              user: Users \cup {Nobody}, role: M!Roles, status: M!Statuses]

LEMMA SignInsChange ==
    ASSUME NEW s \in SignIns, NEW b \in BOOLEAN
    PROVE  [s EXCEPT !.step = "joined"] \in SignIns /\ [s EXCEPT !.raced = b] \in SignIns
BY DEF SignIns

LEMMA RacesTyped ==
    ASSUME signing \in [Users -> SignIns], NEW u
    PROVE  M!Races(u) \in [Users -> SignIns]
<1>1. CASE u \in Users
  <2>1. [signing[u] EXCEPT !.raced = signing[u].step # "no"] \in SignIns
      BY <1>1, SignInsChange
  <2>2. M!Races(u) = [signing EXCEPT ![u] = [signing[u] EXCEPT !.raced = signing[u].step # "no"]]
      BY DEF M!Races
  <2> QED BY <1>1, <2>1, <2>2
<1>2. CASE u \notin Users
    BY <1>2 DEF M!Races
<1> QED BY <1>1, <1>2

\* A request takes its turn: it is replaced by another one.
LEMMA TurnsTyped ==
    ASSUME MembersInv, NEW h \in Handlers, NEW req_ \in Requested,
           request' = [request EXCEPT ![h] = req_],
           req_.step # "idle" => req_.user \in Users,
           req_.step = "update" => (req_.role = "same") # (req_.status = "same")
    PROVE  request' \in [Handlers -> Requested] /\ UpdatesOneThing'
<1>1. request \in [Handlers -> Requested]
    BY DEF MembersInv, M!TypeOK, Requested
<1> QED BY <1>1 DEF MembersInv, UpdatesOneThing

LEMMA MembersTypeStep ==
    ASSUME M!MembershipAssumption, MembersInv, [M!Next]_(M!vars)
    PROVE  M!TypeOK' /\ UpdatesOneThing'
<1> DEFINE Goal == M!TypeOK' /\ UpdatesOneThing'
           Rest == /\ member \in [Users -> {"none", "invited", "active", "removed"}]
                   /\ admin \in [Users -> BOOLEAN]
                   /\ disabled \in [Users -> BOOLEAN]
                   /\ live \in [Users -> BOOLEAN]
                   /\ signing \in [Users -> SignIns]
                   /\ stale \subseteq Handlers
                   /\ overlapped \in BOOLEAN
<1> SUFFICES Goal
    OBVIOUS
<1>1. Rest /\ request \in [Handlers -> Requested] /\ UpdatesOneThing
    BY DEF MembersInv, M!TypeOK, SignIns, Requested
<1>2. ASSUME Rest', request' \in [Handlers -> Requested], UpdatesOneThing'
      PROVE  Goal
    BY <1>2 DEF M!TypeOK, SignIns, Requested
<1>3. ASSUME Rest', request' = request
      PROVE  Goal
  <2>1. request' \in [Handlers -> Requested] /\ UpdatesOneThing'
      BY <1>1, <1>3 DEF UpdatesOneThing
  <2> QED BY <1>2, <1>3, <2>1
<1>4. ASSUME NEW h \in Handlers, M!Finishes(h)
      PROVE  request' \in [Handlers -> Requested] /\ UpdatesOneThing'
  <2>1. M!Idle \in Requested /\ M!Idle.step = "idle"
      BY DEF M!Idle, M!Req, Requested, M!Roles, M!Statuses
  <2> QED BY <1>4, <2>1, TurnsTyped DEF M!Finishes
<1>5. ASSUME NEW h \in Handlers, NEW u \in Users, M!MustRevoke(h, u)
      PROVE  request' \in [Handlers -> Requested] /\ UpdatesOneThing'
  <2> DEFINE r == M!Req("revoke", u, "same", "same")
  <2>1. r \in Requested /\ r.step = "revoke" /\ r.user = u
      BY DEF M!Req, Requested, M!Roles, M!Statuses
  <2>2. request' = [request EXCEPT ![h] = r]
      BY <1>5 DEF M!MustRevoke
  <2> HIDE DEF r
  <2> QED BY <2>1, <2>2, TurnsTyped
<1>6. ASSUME NEW u \in Users, M!SignIn(u) \/ M!OpenSession(u) \/ M!LogoutAll(u)
      PROVE  Goal
  <2>1. M!NoSignIn \in SignIns /\ \A step \in {"joining", "joined"}: [step |-> step, raced |-> FALSE] \in SignIns
      BY DEF M!NoSignIn, SignIns
  <2>2. signing' = signing \/ \E s \in SignIns: signing' = [signing EXCEPT ![u] = s]
      BY <1>6, <2>1 DEF M!SignIn, M!OpenSession, M!LogoutAll
  <2>3. signing' \in [Users -> SignIns]
      BY <1>1, <2>2
  <2>4. live' \in [Users -> BOOLEAN]
      BY <1>1, <1>6 DEF M!SignIn, M!OpenSession, M!LogoutAll
  <2>5. UNCHANGED <<member, admin, disabled, request, stale, overlapped>>
      BY <1>6 DEF M!SignIn, M!OpenSession, M!LogoutAll
  <2> QED BY <1>1, <1>3, <2>3, <2>4, <2>5
<1>7. ASSUME NEW u \in Users, M!Join(u)
      PROVE  Goal
  <2>1. signing' = [signing EXCEPT ![u] = [signing[u] EXCEPT !.step = "joined"]]
      BY <1>7 DEF M!Join
  <2>2. [signing[u] EXCEPT !.step = "joined"] \in SignIns
      BY <1>1, SignInsChange
  <2>3. signing' \in [Users -> SignIns]
      BY <1>1, <2>1, <2>2
  <2>4. Rest' /\ request' = request
      BY <1>1, <1>7, <2>3 DEF M!Join
  <2> QED BY <1>3, <2>4
<1>8. ASSUME NEW u \in Bootstraps, M!Bootstrap(u)
      PROVE  Goal
  <2>1. Rest' /\ request' = request
      BY <1>1, <1>8 DEF M!Bootstrap, M!MembershipAssumption
  <2> QED BY <1>3, <2>1
<1>9. ASSUME NEW h \in Handlers, NEW u \in Users, NEW step \in {"create", "invite", "update", "remove"},
             NEW role \in M!Roles, NEW status \in M!Statuses, M!Asks(h, M!Req(step, u, role, status)),
             step = "update" => (role = "same") # (status = "same")
      PROVE  Goal
  <2> DEFINE r == M!Req(step, u, role, status)
  <2>1. r \in Requested /\ r.step = step /\ r.user = u /\ r.role = role /\ r.status = status
      BY DEF M!Req, Requested
  <2>2. request' = [request EXCEPT ![h] = r]
      BY <1>9 DEF M!Asks
  <2> HIDE DEF r
  <2>3. request' \in [Handlers -> Requested] /\ UpdatesOneThing'
      BY <1>9, <2>1, <2>2, TurnsTyped
  <2>4. Rest'
      BY <1>1, <1>9 DEF M!Asks
  <2> QED BY <1>2, <2>3, <2>4
<1>10. ASSUME NEW h \in Handlers, NEW actor \in Users, NEW u \in Users, NEW role \in M!Roles,
              M!AskInvite(h, actor, u, role)
       PROVE  Goal
    BY <1>9, <1>10 DEF M!AskInvite, M!Statuses
<1>11. ASSUME NEW h \in Handlers, NEW actor \in Users, NEW u \in Users, NEW role \in M!Roles,
              NEW status \in M!Statuses, M!AskUpdate(h, actor, u, role, status)
       PROVE  Goal
    BY <1>9, <1>11 DEF M!AskUpdate
<1>12. ASSUME NEW h \in Handlers, NEW actor \in Users, NEW u \in Users, M!AskRemove(h, actor, u)
       PROVE  Goal
    BY <1>9, <1>12 DEF M!AskRemove, M!Statuses, M!Roles
<1>13. ASSUME NEW h \in Handlers, M!Writes(h)
       PROVE  stale' \subseteq Handlers /\ overlapped' \in BOOLEAN
    BY <1>1, <1>13 DEF M!Writes
<1>14. ASSUME NEW h \in Handlers, M!WriteInvite(h) \/ M!RefuseInvite(h) \/ M!Revoke(h)
       PROVE  Goal
  <2>1. Rest' /\ M!Finishes(h)
      BY <1>1, <1>13, <1>14 DEF M!WriteInvite, M!RefuseInvite, M!Revoke
  <2> QED BY <1>2, <1>4, <2>1
<1>15. ASSUME NEW h \in Handlers, M!WriteUpdate(h) \/ M!WriteRemove(h)
       PROVE  Goal
  <2>1. PICK u \in Users: u = request[h].user
      BY <1>1, <1>15 DEF UpdatesOneThing, M!WriteUpdate, M!WriteRemove
  <2>2. M!Races(u) \in [Users -> SignIns]
      BY <1>1, RacesTyped
  <2>3. Rest'
      BY <1>1, <1>13, <1>15, <2>1, <2>2 DEF M!WriteUpdate, M!WriteRemove
  <2>4. M!Finishes(h) \/ M!MustRevoke(h, u)
      BY <1>15, <2>1 DEF M!WriteUpdate, M!WriteRemove
  <2> QED BY <1>2, <1>4, <1>5, <2>3, <2>4
<1>16. CASE UNCHANGED M!vars
  <2>1. Rest' /\ request' = request
      BY <1>1, <1>16 DEF M!vars
  <2> QED BY <1>3, <2>1
<1> HIDE DEF Goal
<1> QED BY <1>6, <1>7, <1>8, <1>10, <1>11, <1>12, <1>14, <1>15, <1>16 DEF M!Next

\* Sign-ins and starts of the service take no administrator away.
LEMMA AdminsStay ==
    ASSUME MembersInv,
           \/ \E u \in Users: M!SignIn(u) \/ M!Join(u) \/ M!OpenSession(u) \/ M!LogoutAll(u) \/ M!Bootstrap(u)
           \/ UNCHANGED <<member, admin, disabled>>
    PROVE  \A v \in Users: M!IsAdmin(v) => M!IsAdmin(v)'
BY DEF MembersInv, M!TypeOK, M!SignIn, M!Join, M!OpenSession, M!LogoutAll, M!Bootstrap, M!IsAdmin, M!Belongs

\* A request that has not been overtaken leaves an administrator when it writes.
LEMMA WriteLeavesAnother ==
    ASSUME MembersInv, NEW h \in Handlers, M!WriteInvite(h) \/ M!WriteUpdate(h) \/ M!WriteRemove(h)
    PROVE  InTurn'
<1>1. /\ member \in [Users -> {"none", "invited", "active", "removed"}]
      /\ admin \in [Users -> BOOLEAN] /\ disabled \in [Users -> BOOLEAN]
      /\ \A k \in Handlers: request[k].step # "idle" => request[k].user \in Users
      /\ request \in [Handlers -> Requested]
    BY DEF MembersInv, M!TypeOK, Requested, UpdatesOneThing
<1>2. M!Writes(h)
    BY DEF M!WriteInvite, M!WriteUpdate, M!WriteRemove
<1>3. PICK u \in Users: u = request[h].user
    BY <1>1 DEF M!WriteInvite, M!WriteUpdate, M!WriteRemove
<1>4. CASE overlapped \/ h \in stale
    BY <1>2, <1>4 DEF InTurn, M!Writes
<1>5. CASE ~overlapped /\ h \notin stale
  <2>1. \A v \in Users \ {u}: M!IsAdmin(v) => M!IsAdmin(v)'
      BY <1>1, <1>3 DEF M!WriteInvite, M!WriteUpdate, M!WriteRemove, M!IsAdmin, M!Belongs
  <2>2. \E v \in Users: M!IsAdmin(v)'
    <3>1. CASE TakesAway(h)
      <4>1. \E v \in Users \ {u}: M!IsAdmin(v)
          BY <1>3, <1>5, <3>1 DEF MembersInv, InTurn, M!AnotherAdmin
      <4> QED BY <2>1, <4>1
    <3>2. CASE ~TakesAway(h)
      <4>1. M!WriteUpdate(h) /\ request[h].role # "other" /\ request[h].status # "disabled"
          BY <3>2 DEF TakesAway, M!WriteInvite, M!WriteUpdate, M!WriteRemove
      <4>2. M!IsAdmin(u) => M!IsAdmin(u)'
          BY <1>1, <1>3, <4>1 DEF M!WriteUpdate, M!IsAdmin, M!Belongs, Requested, M!Roles, M!Statuses
      <4>3. \E v \in Users: M!IsAdmin(v)
          BY <1>5 DEF MembersInv, InTurn
      <4> QED BY <2>1, <4>2, <4>3
    <3> QED BY <3>1, <3>2
  <2>3. overlapped' = FALSE
      BY <1>2, <1>5 DEF M!Writes, MembersInv, M!TypeOK
  <2>4. stale' = {k \in Handlers \ {h}: request[k].step \in {"create", "invite", "update", "remove"}}
      BY <1>2, <2>3 DEF M!Writes
  <2>5. /\ \A k \in Handlers: k # h => request'[k] = request[k]
        /\ request'[h].step \in {"idle", "revoke"}
      BY <1>1, <1>3 DEF M!WriteInvite, M!WriteUpdate, M!WriteRemove, M!Finishes, M!MustRevoke, M!Idle, M!Req
  <2>6. \A k \in Handlers \ stale': ~TakesAway(k)'
      BY <2>4, <2>5 DEF TakesAway
  <2> QED BY <2>2, <2>6 DEF InTurn
<1> QED BY <1>4, <1>5

\* The request finds another administrator when it asks to take one away: the
\* one who sends it, or one it has looked for.
LEMMA AsksWithAnother ==
    ASSUME MembersInv, NEW h \in Handlers, NEW r \in Requested, M!Asks(h, r),
           \/ r.step \in {"create", "invite", "remove"}
           \/ r.step = "update" /\ (r.role = "other" \/ r.status = "disabled")
           => M!AnotherAdmin(r.user)
    PROVE  InTurn'
<1>1. request \in [Handlers -> Requested]
    BY DEF MembersInv, M!TypeOK, Requested
<1>2. /\ request'[h] = r /\ \A k \in Handlers: k # h => request'[k] = request[k]
      /\ UNCHANGED <<member, admin, disabled, stale, overlapped>>
    BY <1>1 DEF M!Asks
<1>3. \A v: M!IsAdmin(v)' = M!IsAdmin(v) /\ M!AnotherAdmin(v)' = M!AnotherAdmin(v)
    BY <1>2 DEF M!IsAdmin, M!Belongs, M!AnotherAdmin
<1>4. ASSUME NEW k \in Handlers \ stale, TakesAway(k)', ~overlapped, NEW u, u = request'[k].user
      PROVE  M!AnotherAdmin(u)
  <2>1. CASE k = h
      BY <1>2, <1>4, <2>1 DEF TakesAway
  <2>2. CASE k # h
      BY <1>2, <1>4, <2>2 DEF TakesAway, MembersInv, InTurn
  <2> QED BY <2>1, <2>2
<1> QED BY <1>2, <1>3, <1>4 DEF MembersInv, InTurn

LEMMA InTurnStep ==
    ASSUME M!MembershipAssumption, MembersInv, [M!Next]_(M!vars)
    PROVE  InTurn'
<1>1. /\ request \in [Handlers -> Requested]
      /\ \A k \in Handlers: request[k].step # "idle" => request[k].user \in Users
    BY DEF MembersInv, M!TypeOK, Requested, UpdatesOneThing
<1>2. ASSUME \A v \in Users: M!IsAdmin(v) => M!IsAdmin(v)', UNCHANGED overlapped,
             \A k \in Handlers \ stale': TakesAway(k)' => k \notin stale /\ request'[k] = request[k]
      PROVE  InTurn'
  <2>1. ASSUME NEW k \in Handlers \ stale', TakesAway(k)', ~overlapped, NEW u, u = request'[k].user
        PROVE  M!AnotherAdmin(u)'
    <3>1. k \notin stale /\ request'[k] = request[k]
        BY <1>2, <2>1
    <3>2. M!AnotherAdmin(u)
        BY <2>1, <3>1 DEF MembersInv, InTurn, TakesAway
    <3> QED BY <1>2, <3>2 DEF M!AnotherAdmin
  <2> QED BY <1>2, <2>1 DEF MembersInv, InTurn
<1>3. ASSUME NEW u \in Users,
             M!SignIn(u) \/ M!Join(u) \/ M!OpenSession(u) \/ M!LogoutAll(u) \/ M!Bootstrap(u)
      PROVE  InTurn'
  <2>1. UNCHANGED <<request, stale, overlapped>>
      BY <1>3 DEF M!SignIn, M!Join, M!OpenSession, M!LogoutAll, M!Bootstrap
  <2>2. \A v \in Users: M!IsAdmin(v) => M!IsAdmin(v)'
      BY <1>3, AdminsStay
  <2> QED BY <1>2, <2>1, <2>2 DEF TakesAway
<1>4. ASSUME NEW h \in Handlers, NEW actor \in Users, NEW u \in Users, NEW role \in M!Roles,
             M!AskInvite(h, actor, u, role)
      PROVE  InTurn'
  <2> DEFINE r == M!Req(IF member[u] = "none" THEN "create" ELSE "invite", u, role, "active")
  <2>1. r \in Requested /\ r.user = u /\ M!Asks(h, r)
      BY <1>4 DEF M!Req, Requested, M!Roles, M!Statuses, M!AskInvite
  <2>2. M!AnotherAdmin(u)
      BY <1>4 DEF M!AskInvite, M!AnotherAdmin, M!IsAdmin
  <2> HIDE DEF r
  <2> QED BY <2>1, <2>2, AsksWithAnother
<1>5. ASSUME NEW h \in Handlers, NEW actor \in Users, NEW u \in Users, NEW role \in M!Roles,
             NEW status \in M!Statuses, M!AskUpdate(h, actor, u, role, status)
      PROVE  InTurn'
  <2> DEFINE r == M!Req("update", u, role, status)
  <2>1. r \in Requested /\ r.user = u /\ r.role = role /\ r.status = status /\ r.step = "update" /\ M!Asks(h, r)
      BY <1>5 DEF M!Req, Requested, M!AskUpdate
  <2>2. role = "other" \/ status = "disabled" => M!AnotherAdmin(u)
    <3>1. CASE admin[u]
        BY <1>5, <3>1 DEF M!AskUpdate
    <3>2. CASE ~admin[u]
        BY <1>5, <3>2 DEF M!AskUpdate, M!AnotherAdmin, M!IsAdmin
    <3> QED BY <3>1, <3>2
  <2> HIDE DEF r
  <2> QED BY <2>1, <2>2, AsksWithAnother
<1>6. ASSUME NEW h \in Handlers, NEW actor \in Users, NEW u \in Users, M!AskRemove(h, actor, u)
      PROVE  InTurn'
  <2> DEFINE r == M!Req("remove", u, "same", "same")
  <2>1. r \in Requested /\ r.user = u /\ M!Asks(h, r)
      BY <1>6 DEF M!Req, Requested, M!Roles, M!Statuses, M!AskRemove
  <2>2. M!AnotherAdmin(u)
      BY <1>6 DEF M!AskRemove, M!AnotherAdmin, M!IsAdmin
  <2> HIDE DEF r
  <2> QED BY <2>1, <2>2, AsksWithAnother
<1>7. ASSUME NEW h \in Handlers, M!WriteInvite(h) \/ M!WriteUpdate(h) \/ M!WriteRemove(h)
      PROVE  InTurn'
    BY <1>7, WriteLeavesAnother
<1>8. ASSUME NEW h \in Handlers, M!RefuseInvite(h) \/ M!Revoke(h)
      PROVE  InTurn'
  <2>1. /\ UNCHANGED <<member, admin, disabled, overlapped>>
        /\ request'[h].step = "idle" /\ \A k \in Handlers: k # h => request'[k] = request[k]
        /\ \A k \in Handlers: k # h => (k \in stale' <=> k \in stale)
      BY <1>1, <1>8 DEF M!RefuseInvite, M!Revoke, M!Finishes, M!Idle, M!Req
  <2>2. \A v \in Users: M!IsAdmin(v) => M!IsAdmin(v)'
      BY <2>1, AdminsStay
  <2>3. \A k \in Handlers \ stale': TakesAway(k)' => k \notin stale /\ request'[k] = request[k]
      BY <2>1 DEF TakesAway
  <2> QED BY <1>2, <2>1, <2>2, <2>3
<1>9. CASE UNCHANGED M!vars
  <2>1. UNCHANGED <<member, admin, disabled, request, stale, overlapped>>
      BY <1>9 DEF M!vars
  <2>2. \A v \in Users: M!IsAdmin(v) => M!IsAdmin(v)'
      BY <2>1, AdminsStay
  <2> QED BY <1>2, <2>1, <2>2
<1> QED BY <1>3, <1>4, <1>5, <1>6, <1>7, <1>8, <1>9 DEF M!Next, M!MembershipAssumption

\* An account that ends catches its sign-in and leaves a revocation to do.
LEMMA SessionsStep ==
    ASSUME M!MembershipAssumption, MembersInv, [M!Next]_(M!vars)
    PROVE  SignInsOfMembers' /\ SessionsEnd'
<1> DEFINE Goal == SignInsOfMembers' /\ SessionsEnd'
           Revoked(u) == \E h \in Handlers: request[h].step = "revoke" /\ request[h].user = u
           Typed == /\ member \in [Users -> {"none", "invited", "active", "removed"}]
                    /\ admin \in [Users -> BOOLEAN] /\ disabled \in [Users -> BOOLEAN]
                    /\ live \in [Users -> BOOLEAN]
                    /\ signing \in [Users -> SignIns]
                    /\ request \in [Handlers -> Requested]
<1> SUFFICES Goal
    OBVIOUS
<1>1. Typed
    BY DEF MembersInv, M!TypeOK, SignIns, Requested
<1>2. \A u \in Users: signing[u].step # "no" /\ ~signing[u].raced => ~M!Ended(u)
    BY DEF MembersInv, SignInsOfMembers
<1>3. \A u \in Users: M!Ended(u) /\ live[u] => Revoked(u)
    BY DEF MembersInv, SessionsEnd, M!SessionsEnd
\* It is enough to look at the accounts that end and the sessions that begin.
<1>4. ASSUME NEW u \in Users,
             \A v \in Users: v # u =>
                 /\ M!Ended(v)' => M!Ended(v)
                 /\ live'[v] = live[v] /\ signing'[v] = signing[v]
                 /\ Revoked(v) => Revoked(v)',
             signing'[u].step # "no" /\ ~signing'[u].raced => ~M!Ended(u)',
             M!Ended(u)' /\ live'[u] => Revoked(u)'
      PROVE  Goal
    BY <1>2, <1>3, <1>4 DEF SignInsOfMembers, SessionsEnd, M!SessionsEnd
<1>5. ASSUME NEW u \in Users, M!SignIn(u)
      PROVE  Goal
  <2>1. UNCHANGED <<member, disabled, live, request>> /\ \A v \in Users: v # u => signing'[v] = signing[v]
      BY <1>1, <1>5 DEF M!SignIn
  <2>2. ~M!Ended(u)
      BY <1>5 DEF M!SignIn, M!Ended, M!Belongs
  <2> QED BY <1>3, <1>4, <2>1, <2>2 DEF M!Ended
<1>6. ASSUME NEW u \in Users, M!Join(u)
      PROVE  Goal
  <2>1. /\ UNCHANGED <<disabled, live, request>>
        /\ member'[u] = "active" /\ \A v \in Users: v # u => signing'[v] = signing[v] /\ member'[v] = member[v]
      BY <1>1, <1>6 DEF M!Join
  <2>2. signing'[u].raced = signing[u].raced /\ signing[u].step # "no"
    <3>1. signing' = [signing EXCEPT ![u] = [signing[u] EXCEPT !.step = "joined"]] /\ signing[u].step = "joining"
        BY <1>6 DEF M!Join
    <3>2. [signing[u] EXCEPT !.step = "joined"].raced = signing[u].raced
        BY <1>1 DEF SignIns
    <3> QED BY <1>1, <3>1, <3>2
  <2>3. M!Ended(u)' => M!Ended(u)
      BY <2>1 DEF M!Ended
  <2> QED BY <1>2, <1>3, <1>4, <2>1, <2>2, <2>3 DEF M!Ended
<1>7. ASSUME NEW u \in Users, M!OpenSession(u)
      PROVE  Goal
  <2>1. /\ UNCHANGED <<member, disabled, request>>
        /\ \A v \in Users: v # u => signing'[v] = signing[v] /\ live'[v] = live[v]
        /\ signing'[u].step = "no" /\ live'[u] = (live[u] \/ ~signing[u].raced) /\ signing[u].step = "joined"
      BY <1>1, <1>7 DEF M!OpenSession, M!NoSignIn
  <2>2. M!Ended(u)' = M!Ended(u) /\ Revoked(u)' = Revoked(u)
      BY <2>1 DEF M!Ended
  <2>3. \A v \in Users: (M!Ended(v)' => M!Ended(v)) /\ (Revoked(v) => Revoked(v)')
      BY <2>1 DEF M!Ended
  <2>4. M!Ended(u)' /\ live'[u] => Revoked(u)'
      BY <1>2, <1>3, <2>1, <2>2
  <2> HIDE DEF Revoked, Goal
  <2> QED BY <1>4, <2>1, <2>3, <2>4
<1>8. ASSUME NEW u \in Users, M!LogoutAll(u)
      PROVE  Goal
  <2>1. UNCHANGED <<member, disabled, request, signing>> /\ \A v \in Users: v # u => live'[v] = live[v]
      BY <1>1, <1>8 DEF M!LogoutAll
  <2>2. live'[u] = FALSE
      BY <1>1, <1>8 DEF M!LogoutAll
  <2> QED BY <1>2, <1>4, <2>1, <2>2 DEF M!Ended
<1>9. ASSUME NEW u \in Users, M!Bootstrap(u)
      PROVE  Goal
  <2>1. /\ UNCHANGED <<live, request, signing>>
        /\ \A v \in Users: v # u => member'[v] = member[v] /\ disabled'[v] = disabled[v]
        /\ member'[u] # "removed" /\ disabled'[u] = FALSE
      BY <1>1, <1>9 DEF M!Bootstrap, M!Belongs
  <2> QED BY <1>4, <2>1 DEF M!Ended
\* Nothing ends and nobody signs in: revocations to do stay to do.
<1>10. ASSUME UNCHANGED <<member, disabled, live, signing>>,
              \A h \in Handlers: request[h].step = "revoke" => request'[h] = request[h]
       PROVE  Goal
    BY <1>2, <1>3, <1>10 DEF SignInsOfMembers, SessionsEnd, M!SessionsEnd, M!Ended
<1>11. ASSUME NEW h \in Handlers, NEW r, M!Asks(h, r)
       PROVE  Goal
  <2>1. /\ UNCHANGED <<member, disabled, live, signing>> /\ request[h].step = "idle"
        /\ \A k \in Handlers: k # h => request'[k] = request[k]
      BY <1>1, <1>11 DEF M!Asks
  <2> QED BY <1>10, <2>1
<1>12. ASSUME NEW h \in Handlers, M!WriteInvite(h)
       PROVE  Goal
  <2>1. PICK u \in Users: u = request[h].user
      BY <1>12 DEF MembersInv, UpdatesOneThing, M!WriteInvite
  <2>2. /\ UNCHANGED <<live, signing>> /\ request[h].step # "revoke"
        /\ \A k \in Handlers: k # h => request'[k] = request[k]
        /\ \A v \in Users: v # u => member'[v] = member[v] /\ disabled'[v] = disabled[v]
        /\ member'[u] # "removed" /\ disabled'[u] = FALSE
      BY <1>1, <1>12, <2>1 DEF M!WriteInvite, M!Finishes
  <2> QED BY <1>4, <2>2 DEF M!Ended
<1>13. ASSUME NEW h \in Handlers, M!RefuseInvite(h)
       PROVE  Goal
  <2>1. /\ UNCHANGED <<member, disabled, live, signing>> /\ request[h].step # "revoke"
        /\ \A k \in Handlers: k # h => request'[k] = request[k]
      BY <1>1, <1>13 DEF M!RefuseInvite, M!Finishes
  <2> QED BY <1>10, <2>1
\* A write after which the account has ended, or not.
<1>14. ASSUME NEW h \in Handlers, M!WriteUpdate(h) \/ M!WriteRemove(h)
       PROVE  Goal
  <2>1. PICK u \in Users: u = request[h].user
      BY <1>14 DEF MembersInv, UpdatesOneThing, M!WriteUpdate, M!WriteRemove
  <2>2. /\ live' = live /\ request[h].step # "revoke"
        /\ \A k \in Handlers: k # h => request'[k] = request[k]
        /\ \A v \in Users: v # u => member'[v] = member[v] /\ disabled'[v] = disabled[v]
      BY <1>1, <1>14, <2>1 DEF M!WriteUpdate, M!WriteRemove, M!Finishes, M!MustRevoke
  <2>3. CASE M!MustRevoke(h, u) /\ signing' = M!Races(u)
    <3>1. request'[h].step = "revoke" /\ request'[h].user = u
        BY <1>1, <2>3 DEF M!MustRevoke, M!Req
    <3>2. \A v \in Users: v # u => signing'[v] = signing[v]
        BY <1>1, <2>3 DEF M!Races
    <3>3. signing'[u].step = signing[u].step /\ signing'[u].raced = (signing[u].step # "no")
      <4>1. signing' = [signing EXCEPT ![u] = [signing[u] EXCEPT !.raced = signing[u].step # "no"]]
          BY <2>3 DEF M!Races
      <4>2. \A b \in BOOLEAN: [signing[u] EXCEPT !.raced = b].step = signing[u].step /\ [signing[u] EXCEPT !.raced = b].raced = b
          BY <1>1 DEF SignIns
      <4> QED BY <1>1, <4>1, <4>2
    <3>4. \A v \in Users: v # u => (M!Ended(v)' => M!Ended(v)) /\ (Revoked(v) => Revoked(v)')
        BY <2>2 DEF M!Ended
    <3>5. Revoked(u)'
        BY <3>1
    <3>6. ~(signing'[u].step # "no" /\ ~signing'[u].raced)
        BY <3>3
    <3>7. \A v \in Users: v # u => live'[v] = live[v]
        BY <2>2
    <3> HIDE DEF Revoked, Goal
    <3> QED BY <1>4, <3>2, <3>4, <3>5, <3>6, <3>7
  <2>4. CASE signing' = signing /\ member' = member /\ (disabled'[u] => disabled[u])
    <3>1. \A v \in Users: (M!Ended(v)' => M!Ended(v)) /\ (Revoked(v) => Revoked(v)')
        BY <2>2, <2>4 DEF M!Ended
    <3> QED BY <1>2, <1>3, <1>4, <2>2, <2>4, <3>1
  <2> QED BY <1>1, <1>14, <2>1, <2>3, <2>4 DEF M!WriteUpdate, M!WriteRemove
<1>15. ASSUME NEW h \in Handlers, M!Revoke(h)
       PROVE  Goal
  <2>1. PICK u \in Users: u = request[h].user
      BY <1>15 DEF MembersInv, UpdatesOneThing, M!Revoke
  <2>2. /\ UNCHANGED <<member, disabled, signing>>
        /\ \A k \in Handlers: k # h => request'[k] = request[k]
        /\ live'[u] = FALSE /\ \A v \in Users: v # u => live'[v] = live[v]
      BY <1>1, <1>15, <2>1 DEF M!Revoke, M!Finishes
  <2>3. \A v \in Users: v # u => (Revoked(v) => Revoked(v)')
      BY <2>1, <2>2
  <2> QED BY <1>2, <1>4, <2>2, <2>3 DEF M!Ended
<1>16. CASE UNCHANGED M!vars
    BY <1>10, <1>16 DEF M!vars
<1> HIDE DEF Goal
<1> QED BY <1>5, <1>6, <1>7, <1>8, <1>9, <1>11, <1>12, <1>13, <1>14, <1>15, <1>16
        DEF M!Next, M!AskInvite, M!AskUpdate, M!AskRemove, M!MembershipAssumption

\* Accounts, sign-ins and requests of administrators stay well-formed, and the
\* inductive invariant holds: each request changes one thing of one user, one
\* that was not overtaken has seen another administrator than the one it takes
\* away, and a sign-in its account's end did not catch belongs to a live account.
THEOREM MembersCorrect == M!MembershipAssumption => (M!Spec => []MembersInv)
<1> SUFFICES ASSUME M!MembershipAssumption PROVE M!Spec => []MembersInv
    OBVIOUS
<1>1. M!Init => MembersInv
    BY MembersInit
<1>2. MembersInv /\ [M!Next]_(M!vars) => MembersInv'
    BY MembersTypeStep, InTurnStep, SessionsStep DEF MembersInv
<1> QED BY <1>1, <1>2, PTL DEF M!Spec

\* As long as the requests of administrators do not overlap between their reads
\* and their writes, an administrator remains, sign-ins and restarts at any point.
THEOREM AnAdministratorRemains == M!MembershipAssumption => (M!Spec => []AdminRemains)
<1> SUFFICES ASSUME M!MembershipAssumption PROVE M!Spec => []AdminRemains
    OBVIOUS
<1>1. MembersInv => AdminRemains
    BY DEF MembersInv, InTurn, AdminRemains, M!AdminRemains
<1>2. M!Spec => []MembersInv
    BY MembersCorrect
<1> QED BY <1>1, <1>2, PTL

\* A session that the end of its account should have ended is that of an account
\* whose revocation is still to do.
THEOREM EndedAccountsSignedOut == M!MembershipAssumption => (M!Spec => []SessionsEnd)
<1> SUFFICES ASSUME M!MembershipAssumption PROVE M!Spec => []SessionsEnd
    OBVIOUS
<1>1. MembersInv => SessionsEnd
    BY DEF MembersInv
<1>2. M!Spec => []MembersInv
    BY MembersCorrect
<1> QED BY <1>1, <1>2, PTL
=============================================================================
