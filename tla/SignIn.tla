------------------------------- MODULE SignIn -------------------------------
(***************************************************************************)
(* How one account's sign-ins are proved (auth/routes, auth/passkeys,      *)
(* auth/totp over db/totp, db/login-attempts, db/challenges and            *)
(* db/sessions): a password, a second factor against a ticket, a passkey   *)
(* against a challenge; what locks the account; and what changes its       *)
(* proofs.  Two requests meet wherever a handler awaits a hash or a        *)
(* signature; each step here runs from one await to the next.              *)
(*                                                                         *)
(* Time passes in steps of the authenticator (30 s).  A password, an       *)
(* authenticator's secret, a recovery code, a ticket and a challenge are   *)
(* numbered as they come; a session is told apart by the password it was   *)
(* opened with (0: none, or kept by who changed it), not counted. What      *)
(* registers or removes a passkey is in module Accounts.                   *)
(***************************************************************************)
EXTENDS Integers

CONSTANTS
    Requests,       \* requests that may be in flight at once
    Threshold,      \* failures before the first lock
    BaseLock, MaxLock, Window,      \* in steps
    TicketTtl, TicketTries,         \* of a ticket; a challenge lives as long
    MaxTime, MaxFailures, MaxPasswords, MaxSecrets, MaxCodes, MaxTickets, MaxChallenges
                    \* bounds: the clock, the failures counted, how many of each

\* MAX_LOCK_MS = WINDOW_MS in db/login-attempts; no lock outlives the window.
ASSUME SignInAssumption ==
    /\ {Threshold, BaseLock, MaxLock, Window, TicketTtl, TicketTries, MaxPasswords} \subseteq Nat \ {0}
    /\ {MaxTime, MaxFailures, MaxSecrets, MaxCodes, MaxTickets, MaxChallenges} \subseteq Nat
    /\ MaxLock <= Window

\* Arithmetic: the powers of two that are needed are naturals, and grow.
ASSUME DoublingAssumption ==
    \A n \in 0 .. MaxFailures : 2 ^ n \in Nat /\ 2 ^ n <= 2 ^ (n + 1)

VARIABLES
    now,
    password,    \* the one in the row
    totp,        \* [state, secret, last]: the enrolment and the last step honoured
    codes,       \* recovery codes not used yet
    tickets,     \* right passwords that wait for a second factor
    challenges,  \* passkey challenges handed out: [id, at]
    attempts,    \* the lockout row: [failures, last, until]
    sessions,    \* the passwords that sessions were opened with
    requests,    \* what each request in flight awaits
    made,        \* how many secrets, recovery codes, tickets and challenges so far
    spent        \* how often each proof opened a session or confirmed an enrolment

proofs == <<password, totp, codes, tickets, challenges>>
vars == <<now, proofs, attempts, sessions, requests, made, spent>>

Steps == 0 .. MaxTime + 1
NoRow == [failures |-> 0, last |-> 0, until |-> 0]
Idle == [stage |-> "idle"]

Ticket == [id: 1 .. MaxTickets, at: 0 .. MaxTime, tries: 0 .. TicketTries - 1,
           password: 1 .. MaxPasswords, secret: 1 .. MaxSecrets]
Challenge == [id: 1 .. MaxChallenges, at: 0 .. MaxTime]

\* Everything that should be good for one session only.
Proofs ==
    ({"ticket"} \X (1 .. MaxTickets)) \cup ({"recovery"} \X (1 .. MaxCodes))
    \cup ({"challenge"} \X (1 .. MaxChallenges)) \cup ({"code"} \X ((1 .. MaxSecrets) \X Steps))

Awaiting ==
    [stage: {"verify"}, guess: 0 .. MaxPasswords, factor: BOOLEAN]
    \cup [stage: {"confirm"}, for: {"codes", "disable"}]
    \cup [stage: {"change", "sweep"}, keep: 0 .. MaxPasswords]
    \cup [stage: {"signature"}, challenge: 1 .. MaxChallenges]

TypeOK ==
    /\ now \in 0 .. MaxTime /\ password \in 1 .. MaxPasswords
    /\ totp \in [state: {"off", "pending", "on"}, secret: 0 .. MaxSecrets, last: Steps \cup {-1}]
    /\ codes \subseteq 1 .. MaxCodes
    /\ tickets \subseteq Ticket /\ challenges \subseteq Challenge
    /\ attempts \in [failures: 0 .. MaxFailures, last: 0 .. MaxTime, until: 0 .. MaxTime + MaxLock]
    /\ sessions \subseteq 0 .. MaxPasswords
    /\ requests \in [Requests -> {Idle} \cup Awaiting]
    /\ made \in [secrets: 0 .. MaxSecrets, codes: 0 .. MaxCodes,
                 tickets: 0 .. MaxTickets, challenges: 0 .. MaxChallenges]
    /\ spent \in [Proofs -> Nat]

-----------------------------------------------------------------------------
\* The lockout counter. A failure long after the last one starts over; from the
\* threshold on each one doubles the lock, up to its ceiling.
Smaller(a, b) == IF a < b THEN a ELSE b
LockFor(failures) == Smaller(BaseLock * 2 ^ (failures - Threshold), MaxLock)

Locked == attempts.until > now
\* mutant: locks when the threshold is met, and not beyond it
FailureAtThreshold ==
    LET failures == IF now - attempts.last > Window THEN 1 ELSE attempts.failures + 1
    IN  [failures |-> failures, last |-> now,
         until |-> IF failures = Threshold THEN now + LockFor(failures) ELSE 0]
Failure ==
    LET failures == IF now - attempts.last > Window THEN 1 ELSE attempts.failures + 1
    IN  [failures |-> failures, last |-> now,
         until |-> IF failures >= Threshold THEN now + LockFor(failures) ELSE 0]

Spend(ps) == spent' = [p \in Proofs |-> IF p \in ps THEN spent[p] + 1 ELSE spent[p]]
Done(r) == requests' = [requests EXCEPT ![r] = Idle]
Await(r, what) == requests' = [requests EXCEPT ![r] = what]

Tick ==
    /\ now < MaxTime /\ now' = now + 1
    /\ UNCHANGED <<proofs, attempts, sessions, requests, made, spent>>

-----------------------------------------------------------------------------
(* The password *)

\* Nothing is checked while the account is locked. The row is read, and the hash
\* of guess (0: a wrong one) is awaited.
BeginPassword(r, guess) ==
    /\ requests[r] = Idle /\ ~Locked
    /\ Await(r, [stage |-> "verify", guess |-> guess, factor |-> totp.state = "on"])
    /\ UNCHANGED <<now, proofs, attempts, sessions, made, spent>>

CountFailure ==
    /\ attempts' = Failure
    /\ attempts'.failures <= MaxFailures

WrongPassword(r) ==
    /\ requests[r].stage = "verify" /\ requests[r].guess = 0
    /\ CountFailure
    /\ Done(r)
    /\ UNCHANGED <<now, proofs, sessions, made, spent>>

\* Whether a second factor is asked for: as it is when the hash has been compared.
FactorWhenRead(r) == requests[r].factor   \* mutant: as it was in the row read before
FactorAsked(r) == totp.state = "on"

RightPassword(r) ==
    LET a == requests[r]
    IN  /\ a.stage = "verify" /\ a.guess # 0
        /\ attempts' = NoRow
        /\ IF FactorAsked(r)
           THEN /\ made.tickets < MaxTickets
                /\ made' = [made EXCEPT !.tickets = @ + 1]
                /\ tickets' = tickets \cup {[id |-> made.tickets + 1, at |-> now, tries |-> 0,
                                             password |-> a.guess, secret |-> totp.secret]}
                /\ UNCHANGED sessions
           ELSE /\ sessions' = sessions \cup {a.guess}
                /\ UNCHANGED <<made, tickets>>
        /\ Done(r)
        /\ UNCHANGED <<now, password, totp, codes, challenges, spent>>

-----------------------------------------------------------------------------
(* The second factor: one synchronous step against a ticket *)

Live(t) == now - t.at <= TicketTtl /\ t.tries < TicketTries

\* A failed try counts against the ticket, which goes with its last one.
FailedForever(t) ==          \* mutant: without the DELETE that follows
    (tickets \ {t}) \cup {[t EXCEPT !.tries = @ + 1]}
Failed(t) == {x \in FailedForever(t) : x.tries < TicketTries}

\* An expired ticket, or one whose account has no second factor any more.
DropTicket(t) ==
    /\ t \in tickets /\ (~Live(t) \/ totp.state # "on")
    /\ tickets' = tickets \ {t}
    /\ UNCHANGED <<now, password, totp, codes, challenges, attempts, sessions,
                   requests, made, spent>>

\* A code of a step that was honoured before, or of an earlier one, is a replay.
RefusedTwice(step) == step < totp.last       \* mutant: the same step again is not
Replayed(step) == step <= totp.last

UseTicket(t, ps) ==
    /\ tickets' = tickets \ {t}
    /\ attempts' = NoRow
    /\ sessions' = sessions \cup {t.password}
    /\ Spend(ps \cup {<<"ticket", t.id>>})

TotpCode(t, step) ==
    /\ t \in tickets /\ Live(t) /\ totp.state = "on"
    /\ step \in (now - 1 .. now + 1) \cap Steps
    /\ IF Replayed(step)
       THEN /\ tickets' = Failed(t) /\ CountFailure
            /\ UNCHANGED <<totp, sessions, spent>>
       ELSE /\ totp' = [totp EXCEPT !.last = step]
            /\ UseTicket(t, {<<"code", <<totp.secret, step>>>>})
    /\ UNCHANGED <<now, password, codes, challenges, requests, made>>

\* consumeRecoveryCode is one UPDATE: the code is used if that changed a row.
RecoveryCode(t, c) ==
    /\ t \in tickets /\ Live(t) /\ totp.state = "on" /\ c \in codes
    /\ codes' = codes \ {c}
    /\ UseTicket(t, {<<"recovery", c>>})
    /\ UNCHANGED <<now, password, totp, challenges, requests, made>>

WrongCode(t) ==
    /\ t \in tickets /\ Live(t) /\ totp.state = "on"
    /\ tickets' = Failed(t) /\ CountFailure
    /\ UNCHANGED <<now, password, totp, codes, challenges, sessions, requests,
                   made, spent>>

-----------------------------------------------------------------------------
(* Passkeys: a challenge is taken before the signature is awaited *)

PutChallenge ==
    /\ made.challenges < MaxChallenges
    /\ made' = [made EXCEPT !.challenges = @ + 1]
    /\ challenges' = challenges \cup {[id |-> made.challenges + 1, at |-> now]}
    /\ UNCHANGED <<now, password, totp, codes, tickets, attempts, sessions, requests,
                   spent>>

LeaveChallenge(c) == challenges      \* mutant: read now, deleted by a later sweep
TakeChallenge(c) == challenges \ {c}

BeginPasskey(r, c) ==
    /\ requests[r] = Idle /\ c \in challenges
    /\ challenges' = TakeChallenge(c)
    /\ IF now - c.at <= TicketTtl
       THEN Await(r, [stage |-> "signature", challenge |-> c.id])
       ELSE UNCHANGED requests
    /\ UNCHANGED <<now, password, totp, codes, tickets, attempts, sessions, made, spent>>

FinishPasskey(r) ==
    /\ requests[r].stage = "signature"
    /\ sessions' = sessions \cup {0}
    /\ Spend({<<"challenge", requests[r].challenge>>})
    /\ Done(r)
    /\ UNCHANGED <<now, password, totp, codes, tickets, challenges, attempts, made>>

-----------------------------------------------------------------------------
(* The authenticator *)

\* Each opening of the setup replaces an unconfirmed secret.
StartEnrolment ==
    /\ sessions # {} /\ totp.state # "on" /\ made.secrets < MaxSecrets
    /\ made' = [made EXCEPT !.secrets = @ + 1]
    /\ totp' = [state |-> "pending", secret |-> made.secrets + 1, last |-> -1]
    /\ UNCHANGED <<now, password, codes, tickets, challenges, attempts, sessions,
                   requests, spent>>

\* A new set of recovery codes; the old set stops working.
NewCodes ==
    /\ made.codes < MaxCodes
    /\ made' = [made EXCEPT !.codes = @ + 1]
    /\ codes' = {made.codes + 1}

EnableTotp(step) ==
    /\ sessions # {} /\ totp.state = "pending"
    /\ step \in (now - 1 .. now + 1) \cap Steps
    /\ totp' = [totp EXCEPT !.state = "on", !.last = step]
    /\ NewCodes
    /\ Spend({<<"code", <<totp.secret, step>>>>})
    /\ UNCHANGED <<now, password, tickets, challenges, attempts, sessions,
                   requests>>

\* Both ask for the password first; only the first looks whether it is on.
BeginConfirm(r, for) ==
    /\ requests[r] = Idle /\ sessions # {}
    /\ for = "codes" => totp.state = "on"
    /\ Await(r, [stage |-> "confirm", for |-> for])
    /\ UNCHANGED <<now, proofs, attempts, sessions, made, spent>>

RenewCodes(r) ==
    /\ requests[r] = [stage |-> "confirm", for |-> "codes"]
    /\ NewCodes
    /\ Done(r)
    /\ UNCHANGED <<now, password, totp, tickets, challenges, attempts, sessions,
                   spent>>

NoTotp == [state |-> "off", secret |-> 0, last |-> -1]
LeaveTickets == tickets      \* mutant: a pending sign-in survives
ClearTickets == {}

SwitchOff ==
    /\ totp' = NoTotp /\ codes' = {} /\ tickets' = ClearTickets
    /\ UNCHANGED <<now, password, challenges, attempts, sessions, made, spent>>

DisableTotp(r) ==
    /\ requests[r] = [stage |-> "confirm", for |-> "disable"]
    /\ SwitchOff
    /\ Done(r)

\* The lost-phone path of an administrator.
AdminClearTotp == totp.state = "on" /\ SwitchOff /\ UNCHANGED requests

-----------------------------------------------------------------------------
(* The password changes, and sessions end *)

BeginChange(r, keep) ==
    /\ requests[r] = Idle /\ keep \in sessions
    /\ Await(r, [stage |-> "change", keep |-> keep])
    /\ UNCHANGED <<now, proofs, attempts, sessions, made, spent>>

SetPassword(r) ==
    /\ requests[r].stage = "change"
    /\ password < MaxPasswords /\ password' = password + 1
    /\ Await(r, [requests[r] EXCEPT !.stage = "sweep"])
    /\ UNCHANGED <<now, totp, codes, tickets, challenges, attempts, sessions, made,
                   spent>>

SweepSessions(r) ==
    /\ requests[r].stage = "sweep"
    /\ sessions' = IF requests[r].keep \in sessions THEN {0} ELSE {}   \* the caller's own
    /\ Done(r)
    /\ UNCHANGED <<now, proofs, attempts, made, spent>>

EndSession(p) ==
    /\ p \in sessions /\ sessions' = sessions \ {p}
    /\ UNCHANGED <<now, proofs, attempts, requests, made, spent>>

\* A handler fails: wrong password or signature, or a session that was ended.
Refuse(r) ==
    /\ requests[r].stage \notin {"idle", "verify", "sweep"}
    /\ Done(r)
    /\ UNCHANGED <<now, proofs, attempts, sessions, made, spent>>

\* clearLockout, by an administrator.
ClearLockout ==
    /\ attempts # NoRow /\ attempts' = NoRow
    /\ UNCHANGED <<now, proofs, sessions, requests, made, spent>>

-----------------------------------------------------------------------------
Init ==
    /\ now = 0 /\ password = 1
    /\ totp = NoTotp /\ codes = {} /\ tickets = {}
    /\ challenges = {}
    /\ attempts = NoRow
    /\ sessions = {}
    /\ requests = [r \in Requests |-> Idle]
    /\ made = [secrets |-> 0, codes |-> 0, tickets |-> 0, challenges |-> 0]
    /\ spent = [p \in Proofs |-> 0]

Next ==
    \/ Tick \/ AdminClearTotp \/ ClearLockout
    \/ StartEnrolment \/ PutChallenge
    \/ \E r \in Requests :
          \/ \E guess \in {0, password} : BeginPassword(r, guess)
          \/ \E keep \in sessions : BeginChange(r, keep)
          \/ \E for \in {"codes", "disable"} : BeginConfirm(r, for)
          \/ \E c \in challenges : BeginPasskey(r, c)
          \/ WrongPassword(r) \/ RightPassword(r) \/ FinishPasskey(r)
          \/ RenewCodes(r) \/ DisableTotp(r)
          \/ SetPassword(r) \/ SweepSessions(r) \/ Refuse(r)
    \/ \E t \in tickets :
          \/ DropTicket(t) \/ WrongCode(t)
          \/ \E step \in Steps : TotpCode(t, step)
          \/ \E c \in codes : RecoveryCode(t, c)
    \/ \E step \in Steps : EnableTotp(step)
    \/ \E p \in sessions : EndSession(p)

Spec == Init /\ [][Next]_vars

-----------------------------------------------------------------------------
\* A ticket, an authenticator's code, a recovery code and a passkey challenge
\* are each good for one session, whichever requests present them and whatever
\* they await; the code that confirmed an enrolment is good for none.
ProofsSpentOnce == \A p \in Proofs : spent[p] <= 1

\* No wrong guess makes a lock end sooner, not even one that was being checked
\* when the account was locked: a running lock goes whole, by a sign-in or an
\* administrator, or runs on.
LockNeverShortened ==
    [][Locked => attempts' = NoRow \/ attempts'.until >= attempts.until]_vars

\* A session on the password alone is not opened while the second factor is on,
\* even if it was turned on while the password was being checked.
SecondFactorHolds ==
    [][\A p \in sessions' \ sessions :
          p # 0 /\ totp.state = "on" => \E t \in tickets : t.password = p /\ t \notin tickets']_vars

\* A sign-in that was waiting for its second factor ends with the enrolment it
\* was started under: it is not finished with the factor set up next.
TicketOfItsEnrolment ==
    \A t \in tickets : totp.state = "on" /\ t.secret = totp.secret

\* A proof counts once, and only for what it was asked for. (And every variable
\* keeps its type.)
ProofsInOrder == TypeOK /\ ProofsSpentOnce /\ TicketOfItsEnrolment

=============================================================================
