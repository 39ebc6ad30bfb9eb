---------------------------- MODULE HostMeetings ----------------------------
(***************************************************************************)
(* The Zoom meetings of one host account of Interview (ZoomHostService).   *)
(* The account is an encrypted file: the user, one meeting per key (a      *)
(* round, or "default"), and the key whose creation is under way.  Zoom is *)
(* asked for a meeting over the network, so the answer may never come; the *)
(* process may stop anywhere.                                              *)
(*                                                                         *)
(* Whatever works on an account holds its lock from start to end           *)
(* (`exclusive`), save one: what RTMS calls to get a token, which in OAuth *)
(* mode may refresh the account and writes back the whole file it read.    *)
(*                                                                         *)
(* The account exists from the start; tokens are only fresh or lapsed, and *)
(* the completion of a missing e-mail, which writes as a refresh does, is  *)
(* left out, and so is hosting with a ZAK.                                 *)
(***************************************************************************)
EXTENDS Naturals

CONSTANTS
  Keys,         \* rounds, and "default"
  NoKey,        \* no creation under way
  Callers,      \* requests being handled
  Modes,        \* a subset of {"s2s", "oauth"} (ZOOM_AUTH_MODE)
  MaxMeetings,  \* bound: creations asked of Zoom
  MaxCrashes,   \* bound: ends of the process
  MaxConsents   \* bound: authorisations of the account anew

Nobody == "nobody"

MeetingsAssumption ==
  /\ Nobody \notin Callers
  /\ Modes \subseteq {"s2s", "oauth"}
  /\ NoKey \notin Keys
  /\ MaxMeetings \in Nat /\ MaxCrashes \in Nat /\ MaxConsents \in Nat

VARIABLES
  mode,      \* the configured mode
  file,      \* the stored account: its meetings and pendingKey
  lapsed,    \* whether its access token is about to expire
  lock,      \* the caller inside `exclusive`, or Nobody
  calls,     \* what each caller does
  asked,     \* creations asked of Zoom so far
  told,      \* history: by key, the meetings callers were given since the
             \* meeting was last ended or reset
  doubt,     \* history: keys with a creation whose outcome is not known
  faults     \* crashes and authorisations so far

vars == <<mode, file, lapsed, lock, calls, asked, told, doubt, faults>>
history == <<told, doubt>>

Idle == [at |-> "idle"]
NoMeeting == 0
Empty == [meetings |-> [k \in Keys |-> NoMeeting], pending |-> NoKey]

Init ==
  /\ mode \in Modes
  /\ file = Empty
  /\ lapsed = FALSE
  /\ lock = Nobody
  /\ calls = [c \in Callers |-> Idle]
  /\ asked = 0
  /\ told = [k \in Keys |-> {}]
  /\ doubt = {}
  /\ faults = [crashes |-> 0, consents |-> 0]

Goes(c, at) == calls' = [calls EXCEPT ![c].at = at]
Returns(c) == calls' = [calls EXCEPT ![c] = Idle] /\ lock' = Nobody

(* The file as the caller holds it, with another meeting or mark.          *)
Marked(c, k) == [calls[c].seen EXCEPT !.pending = k]
With(f, k, n) == [f EXCEPT !.meetings[k] = n]

(* Mutant: nothing waits for the lock.                                     *)
EnterAtOnce(c) == calls[c] = Idle

(* `exclusive`: work starts when what was queued before it has ended.      *)
Enter(c) == calls[c] = Idle /\ lock = Nobody

-----------------------------------------------------------------------------
(* start and link (op "link"), endMeeting ("end"), resetMeeting ("reset"): *)
(* each reads the account under the lock.                                  *)
Begin(c, op, k) ==
  /\ Enter(c)
  /\ lock' = c
  /\ calls' = [calls EXCEPT ![c] = [op |-> op, key |-> k, seen |-> file, made |-> NoMeeting,
                  at |-> CASE op = "reset" -> "save"
                           [] op = "end" /\ file.meetings[k] = NoMeeting -> "leave"
                           [] mode = "oauth" /\ lapsed -> "refresh"
                           [] OTHER -> "account"]]
  /\ UNCHANGED <<mode, file, lapsed, asked, history, faults>>

(* anyAccessToken: reads an account whose token has lapsed, without the    *)
(* lock; in s2s mode it never touches the account.                         *)
BeginToken(c) ==
  /\ calls[c] = Idle
  /\ mode = "oauth" /\ lapsed
  /\ calls' = [calls EXCEPT ![c] = [op |-> "token", key |-> NoKey, seen |-> file,
                                    made |-> NoMeeting, at |-> "refresh"]]
  /\ UNCHANGED <<mode, file, lapsed, lock, asked, history, faults>>

(* account: the refreshed token is saved, with the rest of what was read.  *)
Refresh(c) ==
  /\ calls[c].at = "refresh"
  /\ file' = calls[c].seen
  /\ lapsed' = FALSE
  /\ IF calls[c].op = "token"
     THEN calls' = [calls EXCEPT ![c] = Idle] /\ UNCHANGED lock
     ELSE Goes(c, "account") /\ UNCHANGED lock
  /\ UNCHANGED <<mode, asked, history, faults>>

(* Zoom refuses the refresh, or does not answer.  An ending goes on.       *)
RefreshFails(c) ==
  /\ calls[c].at = "refresh"
  /\ CASE calls[c].op = "token" -> calls' = [calls EXCEPT ![c] = Idle] /\ UNCHANGED lock
       [] calls[c].op = "end" -> Goes(c, "latest") /\ UNCHANGED lock
       [] OTHER -> Returns(c)
  /\ UNCHANGED <<mode, file, lapsed, asked, history, faults>>

(* Nothing to do.                                                          *)
Leave(c) ==
  /\ calls[c].at = "leave"
  /\ Returns(c)
  /\ UNCHANGED <<mode, file, lapsed, asked, history, faults>>

-----------------------------------------------------------------------------
(* ensureMeeting: a key whose creation is in doubt is refused, ...         *)
Refuse(c) ==
  /\ calls[c].at = "account" /\ calls[c].op = "link"
  /\ calls[c].seen.pending = calls[c].key
  /\ Returns(c)
  /\ UNCHANGED <<mode, file, lapsed, asked, history, faults>>

(* ... a meeting there is reused, ...                                      *)
Reuse(c) ==
  LET k == calls[c].key IN
  /\ calls[c].at = "account" /\ calls[c].op = "link"
  /\ calls[c].seen.pending # k /\ calls[c].seen.meetings[k] # NoMeeting
  /\ told' = [told EXCEPT ![k] = @ \cup {calls[c].seen.meetings[k]}]
  /\ Returns(c)
  /\ UNCHANGED <<mode, file, lapsed, asked, doubt, faults>>

(* ... and otherwise the key is marked before Zoom is asked.               *)
Mark(c) ==
  LET k == calls[c].key IN
  /\ calls[c].at = "account" /\ calls[c].op = "link"
  /\ calls[c].seen.pending # k /\ calls[c].seen.meetings[k] = NoMeeting
  /\ asked < MaxMeetings
  /\ asked' = asked + 1
  /\ file' = Marked(c, k)
  /\ calls' = [calls EXCEPT ![c].at = "create", ![c].seen = Marked(c, k)]
  /\ UNCHANGED <<mode, lapsed, lock, told, doubt, faults>>

(* Zoom made it.                                                           *)
Created(c) ==
  /\ calls[c].at = "create"
  /\ calls' = [calls EXCEPT ![c].at = "created", ![c].made = asked]
  /\ UNCHANGED <<mode, file, lapsed, lock, asked, history, faults>>

(* It is saved, and given to the caller.                                   *)
Store(c) ==
  LET k == calls[c].key IN
  /\ calls[c].at = "created"
  /\ file' = With([calls[c].seen EXCEPT !.pending = NoKey], k, calls[c].made)
  /\ told' = [told EXCEPT ![k] = @ \cup {calls[c].made}]
  /\ Returns(c)
  /\ UNCHANGED <<mode, lapsed, asked, doubt, faults>>

(* Zoom refused (4xx): there is no meeting, and the mark goes.             *)
Refused(c) ==
  /\ calls[c].at = "create"
  /\ file' = Marked(c, NoKey)
  /\ Returns(c)
  /\ UNCHANGED <<mode, lapsed, asked, history, faults>>

(* No answer, or one that says nothing: a meeting may exist; the mark      *)
(* stays.                                                                  *)
Unknown(c) ==
  /\ calls[c].at = "create"
  /\ doubt' = doubt \cup {calls[c].key}
  /\ Returns(c)
  /\ UNCHANGED <<mode, file, lapsed, asked, told, faults>>

-----------------------------------------------------------------------------
(* endMeeting: Zoom is told to end and delete it, whatever comes of that,  *)
(* and the account is read again ...                                       *)
Deleted(c) ==
  /\ calls[c].at \in {"account", "latest"} /\ calls[c].op = "end"
  /\ calls' = [calls EXCEPT ![c].seen = file,
                  ![c].at = IF file.meetings[calls[c].key] = NoMeeting THEN "leave" ELSE "save"]
  /\ UNCHANGED <<mode, file, lapsed, lock, asked, history, faults>>

(* ... and saved without the meeting of the key; resetMeeting also clears  *)
(* the key's mark.                                                         *)
Forget(c) ==
  LET k == calls[c].key
      f == With(calls[c].seen, k, NoMeeting)
      resets == calls[c].op = "reset" IN
  /\ calls[c].at = "save"
  /\ file' = IF resets /\ f.pending = k THEN [f EXCEPT !.pending = NoKey] ELSE f
  /\ told' = [told EXCEPT ![k] = {}]
  /\ doubt' = IF resets THEN doubt \ {k} ELSE doubt
  /\ Returns(c)
  /\ UNCHANGED <<mode, lapsed, asked, faults>>

(* handleOAuthCallback: the account as authorised anew, under the lock:    *)
(* the meetings stay if it is the same user, the mark does not.            *)
Authorize(c, same) ==
  /\ Enter(c)
  /\ mode = "oauth" /\ faults.consents < MaxConsents
  /\ faults' = [faults EXCEPT !.consents = @ + 1]
  /\ file' = IF same THEN [file EXCEPT !.pending = NoKey] ELSE Empty
  /\ lapsed' = FALSE
  /\ told' = IF same THEN told ELSE [k \in Keys |-> {}]
  /\ UNCHANGED <<mode, lock, calls, asked, doubt>>

(* An hour has passed.                                                     *)
Lapse ==
  /\ mode = "oauth" /\ ~lapsed
  /\ lapsed' = TRUE
  /\ UNCHANGED <<mode, file, lock, calls, asked, history, faults>>

(* The process stops, and starts again.                                    *)
Crash ==
  /\ faults.crashes < MaxCrashes
  /\ \E c \in Callers: calls[c] # Idle
  /\ faults' = [faults EXCEPT !.crashes = @ + 1]
  /\ doubt' = doubt \cup {calls[c].key: c \in {d \in Callers: calls[d].at \in {"create", "created"}}}
  /\ calls' = [c \in Callers |-> Idle]
  /\ lock' = Nobody
  /\ UNCHANGED <<mode, file, lapsed, asked, told>>

Next ==
  \/ \E c \in Callers:
       \/ \E op \in {"link", "end", "reset"}, k \in Keys: Begin(c, op, k)
       \/ BeginToken(c) \/ Refresh(c) \/ RefreshFails(c) \/ Leave(c)
       \/ Refuse(c) \/ Reuse(c) \/ Mark(c)
       \/ Created(c) \/ Store(c) \/ Refused(c) \/ Unknown(c)
       \/ Deleted(c) \/ Forget(c)
       \/ \E same \in BOOLEAN: Authorize(c, same)
  \/ Lapse
  \/ Crash

Spec == Init /\ [][Next]_vars
-----------------------------------------------------------------------------
TypeOK ==
  /\ mode \in {"s2s", "oauth"}
  /\ file \in [meetings: [Keys -> 0..MaxMeetings], pending: Keys \cup {NoKey}]
  /\ lapsed \in BOOLEAN
  /\ lock \in Callers \cup {Nobody}
  /\ asked \in 0..MaxMeetings
  /\ told \in [Keys -> SUBSET (1..MaxMeetings)]
  /\ doubt \subseteq Keys

(* "Each round gets its own independent Zoom meeting, created once and     *)
(* reused on every subsequent call": until its meeting is ended or reset,  *)
(* every caller is given the same one, across crashes and lost answers.    *)
(* In s2s mode.  In OAuth mode the refresh RTMS makes may write back a     *)
(* file read before the meeting was stored, and the round gets a second.   *)
SameMeeting ==
  mode = "s2s" => \A k \in Keys: \A m, n \in told[k]: m = n

(* Not so: "an outcome-uncertain create must never be silently repeated".  *)
(* The account keeps a single mark: the creation of another key overwrites *)
(* pendingKey and then clears it.                                          *)
NeverRepeated ==
  [][\A c \in Callers: Mark(c) => calls[c].key \notin doubt]_vars
=============================================================================
