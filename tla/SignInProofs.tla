----------------------------- MODULE SignInProofs -----------------------------
(***************************************************************************)
(* Of SignIn, for any number of requests, proofs and bounds: every proof   *)
(* opens one session at most, a ticket dies with the enrolment it was      *)
(* given under, a lock is never shortened, and no session is opened past   *)
(* the second factor.                                                      *)
(*                                                                         *)
(* How often a proof was spent says nothing of whether it can be spent     *)
(* again.  The invariant names the proofs that still may be (Due): those   *)
(* not made yet, those the tables hold, those a request took with it.      *)
(* Each of them is unspent, and no two places hold the same one (Apart);   *)
(* a step that spends some proofs leaves them due no longer.               *)
(***************************************************************************)
EXTENDS SignIn, TLAPS

TicketsDue == {i \in 1 .. MaxTickets : i > made.tickets \/ \E t \in tickets : t.id = i}

RecoveryDue == {i \in 1 .. MaxCodes : i > made.codes \/ i \in codes}

Signing(r) == requests[r].stage = "signature"

ChallengesDue ==
    {i \in 1 .. MaxChallenges :
        \/ i > made.challenges
        \/ \E c \in challenges : c.id = i
        \/ \E r \in Requests : Signing(r) /\ requests[r].challenge = i}

CodesDue ==
    {x \in (1 .. MaxSecrets) \X Steps :
        x[1] > made.secrets \/ (x[1] = totp.secret /\ x[2] > totp.last)}

Due == ({"ticket"} \X TicketsDue) \cup ({"recovery"} \X RecoveryDue)
       \cup ({"challenge"} \X ChallengesDue) \cup ({"code"} \X CodesDue)

DueUnspent == \A p \in Due : spent[p] = 0

\* What has a number was made, and is in one place.
TicketsApart ==
    /\ \A t \in tickets : t.id <= made.tickets
    /\ \A t, u \in tickets : t.id = u.id => t = u

ChallengesApart ==
    /\ \A c \in challenges : c.id <= made.challenges
    /\ \A c, d \in challenges : c.id = d.id => c = d
    /\ \A r \in Requests : Signing(r) =>
          /\ requests[r].challenge <= made.challenges
          /\ \A c \in challenges : c.id # requests[r].challenge
          /\ \A q \in Requests \ {r} : Signing(q) => requests[q].challenge # requests[r].challenge

\* An enrolment has a secret of its own; until it is confirmed no code of it counted.
Enrolled ==
    /\ totp.secret <= made.secrets
    /\ totp.state # "off" => totp.secret # 0
    /\ totp.state = "pending" => totp.last = -1
    /\ \A c \in codes : c <= made.codes

\* The row says when its lock ends because of what it counted, and when.
LockAsCounted ==
    /\ attempts.last <= now
    /\ attempts.until =
          IF attempts.failures >= Threshold
          THEN attempts.last + LockFor(attempts.failures) ELSE 0

Spent == spent \in [Proofs -> Nat] /\ ProofsSpentOnce /\ DueUnspent

Tickets == TicketOfItsEnrolment /\ TicketsApart

IInv == TypeOK /\ Spent /\ Tickets /\ ChallengesApart /\ Enrolled /\ LockAsCounted

-----------------------------------------------------------------------------
(* Proofs that are due, and the ones that are spent *)

LEMMA DueAreProofs == Due \subseteq Proofs
BY DEF Due, Proofs, TicketsDue, RecoveryDue, ChallengesDue, CodesDue

\* Whatever is due is due for one of its four reasons.
LEMMA DueByKind ==
    ASSUME TicketsDue' \subseteq TicketsDue, RecoveryDue' \subseteq RecoveryDue,
           ChallengesDue' \subseteq ChallengesDue, CodesDue' \subseteq CodesDue
    PROVE  Due' \subseteq Due
BY DEF Due

\* Nothing is spent, and nothing becomes due.
LEMMA NothingSpent ==
    ASSUME Spent, UNCHANGED spent, Due' \subseteq Due
    PROVE  Spent'
BY DEF Spent, ProofsSpentOnce, DueUnspent

\* What is spent was due, and is not due any more.
LEMMA SpentWhenDue ==
    ASSUME Spent, NEW ps, ps \subseteq Due, Spend(ps),
           Due' \subseteq Due, Due' \cap ps = {}
    PROVE  Spent'
<1>1. ps \subseteq Proofs /\ Due' \subseteq Proofs
  BY DueAreProofs
<1>2. \A p \in Proofs : spent'[p] = IF p \in ps THEN spent[p] + 1 ELSE spent[p]
  BY DEF Spend
<1>3. spent' \in [Proofs -> Nat]
  BY DEF Spend, Spent
<1>4. \A p \in Proofs : spent'[p] <= 1
  BY <1>2 DEF Spent, ProofsSpentOnce, DueUnspent
<1>5. \A p \in Due' : spent'[p] = 0
  BY <1>1, <1>2 DEF Spent, DueUnspent
<1> QED  BY <1>3, <1>4, <1>5 DEF Spent, ProofsSpentOnce, DueUnspent

-----------------------------------------------------------------------------
(* The parts of the invariant that a step leaves alone *)

LEMMA TicketsLeft ==
    ASSUME Tickets, UNCHANGED <<tickets, totp, made>>
    PROVE  Tickets' /\ TicketsDue' = TicketsDue
BY DEF Tickets, TicketOfItsEnrolment, TicketsApart, TicketsDue

LEMMA ChallengesLeft ==
    ASSUME ChallengesApart, UNCHANGED <<challenges, requests, made>>
    PROVE  ChallengesApart' /\ ChallengesDue' = ChallengesDue
BY DEF ChallengesApart, ChallengesDue, Signing

LEMMA EnrolmentLeft ==
    ASSUME Enrolled, UNCHANGED <<totp, codes, made>>
    PROVE  Enrolled' /\ CodesDue' = CodesDue /\ RecoveryDue' = RecoveryDue
BY DEF Enrolled, CodesDue, RecoveryDue

LEMMA LockLeft ==
    ASSUME LockAsCounted, UNCHANGED <<now, attempts>>
    PROVE  LockAsCounted'
BY DEF LockAsCounted

\* A request that goes on to anything but a signature.
LEMMA GoesElsewhere ==
    ASSUME TypeOK, ChallengesApart, NEW r \in Requests, NEW what \in {Idle} \cup Awaiting,
           what.stage # "signature", requests' = [requests EXCEPT ![r] = what],
           UNCHANGED <<challenges, made>>
    PROVE  /\ requests' \in [Requests -> {Idle} \cup Awaiting]
           /\ ChallengesApart' /\ ChallengesDue' \subseteq ChallengesDue
<1>1. requests' \in [Requests -> {Idle} \cup Awaiting]
  BY DEF TypeOK
<1>2. \A q \in Requests : Signing(q)' => Signing(q) /\ requests'[q] = requests[q]
  BY DEF TypeOK, Signing
<1>3. ChallengesApart'
  BY <1>2 DEF ChallengesApart
<1>4. ChallengesDue' \subseteq ChallengesDue
  BY <1>2 DEF ChallengesDue
<1> QED  BY <1>1, <1>3, <1>4

-----------------------------------------------------------------------------
(* The lock *)

LEMMA LockForType ==
    ASSUME NEW n \in Nat, n >= Threshold, n <= MaxFailures
    PROVE  LockFor(n) \in 0 .. MaxLock
<1>1. n - Threshold \in 0 .. MaxFailures
  BY SignInAssumption
<1>2. 2 ^ (n - Threshold) \in Nat
  BY <1>1, DoublingAssumption
<1>3. BaseLock \in Nat /\ MaxLock \in Nat
  BY SignInAssumption
<1>4. BaseLock * 2 ^ (n - Threshold) \in Nat
  BY <1>2, <1>3
<1> QED  BY <1>3, <1>4 DEF LockFor, Smaller

LEMMA CountFailureCounts ==
    ASSUME TypeOK, LockAsCounted, CountFailure, UNCHANGED now
    PROVE  /\ attempts' \in [failures: 0 .. MaxFailures, last: 0 .. MaxTime,
                              until: 0 .. MaxTime + MaxLock]
           /\ LockAsCounted'
<1> DEFINE f == IF now - attempts.last > Window THEN 1 ELSE attempts.failures + 1
<1>1. f \in Nat \ {0} /\ now \in 0 .. MaxTime
  BY DEF TypeOK
<1>2. attempts' = [failures |-> f, last |-> now,
                   until |-> IF f >= Threshold THEN now + LockFor(f) ELSE 0]
  BY DEF CountFailure, Failure
<1>3. f <= MaxFailures
  BY <1>2 DEF CountFailure
<1> HIDE DEF f
<1>4. f >= Threshold => LockFor(f) \in 0 .. MaxLock
  BY <1>1, <1>3, LockForType
<1>5. attempts' \in [failures: 0 .. MaxFailures, last: 0 .. MaxTime, until: 0 .. MaxTime + MaxLock]
  BY <1>1, <1>2, <1>3, <1>4, SignInAssumption
<1>6. LockAsCounted'
  BY <1>1, <1>2 DEF LockAsCounted
<1> QED  BY <1>5, <1>6

-----------------------------------------------------------------------------
(* The password *)

LEMMA InitInOrder == Init => IInv
<1> SUFFICES ASSUME Init PROVE IInv
  OBVIOUS
<1>1. TypeOK
  <2>1. now \in 0 .. MaxTime /\ password \in 1 .. MaxPasswords
    BY SignInAssumption DEF Init
  <2>2. totp \in [state: {"off", "pending", "on"}, secret: 0 .. MaxSecrets, last: Steps \cup {-1}]
    BY SignInAssumption DEF Init, NoTotp
  <2>3. attempts \in [failures: 0 .. MaxFailures, last: 0 .. MaxTime, until: 0 .. MaxTime + MaxLock]
    BY SignInAssumption DEF Init, NoRow
  <2>4. made \in [secrets: 0 .. MaxSecrets, codes: 0 .. MaxCodes,
                  tickets: 0 .. MaxTickets, challenges: 0 .. MaxChallenges]
    BY SignInAssumption DEF Init
  <2>5. requests \in [Requests -> {Idle} \cup Awaiting] /\ spent \in [Proofs -> Nat]
    BY DEF Init
  <2> QED  BY <2>1, <2>2, <2>3, <2>4, <2>5 DEF TypeOK, Init
<1>2. Spent
  BY DueAreProofs DEF Init, Spent, ProofsSpentOnce, DueUnspent
<1>3. Tickets /\ ChallengesApart /\ Enrolled
  BY SignInAssumption
  DEF Init, Tickets, TicketOfItsEnrolment, TicketsApart, ChallengesApart, Signing, Idle,
      Enrolled, NoTotp
<1>4. LockAsCounted
  BY SignInAssumption DEF Init, LockAsCounted, NoRow
<1> QED  BY <1>1, <1>2, <1>3, <1>4 DEF IInv

\* A request begins, or ends with nothing done.
LEMMA RequestMovesOn ==
    ASSUME IInv, NEW r \in Requests, NEW what \in {Idle} \cup Awaiting,
           what.stage # "signature", requests' = [requests EXCEPT ![r] = what],
           sessions' \subseteq 0 .. MaxPasswords,
           UNCHANGED <<now, proofs, attempts, made, spent>>
    PROVE  IInv'
<1> USE DEF IInv, proofs
<1>1. Tickets' /\ TicketsDue' = TicketsDue
  BY TicketsLeft
<1>2. /\ requests' \in [Requests -> {Idle} \cup Awaiting]
      /\ ChallengesApart' /\ ChallengesDue' \subseteq ChallengesDue
  BY GoesElsewhere
<1>3. Enrolled' /\ CodesDue' = CodesDue /\ RecoveryDue' = RecoveryDue
  BY EnrolmentLeft
<1>4. LockAsCounted'
  BY LockLeft
<1>5. Spent'
  BY <1>1, <1>2, <1>3, DueByKind, NothingSpent
<1>6. TypeOK'
  BY <1>2 DEF TypeOK
<1> QED  BY <1>1, <1>2, <1>3, <1>4, <1>5, <1>6

LEMMA WrongPasswordKeeps ==
    ASSUME IInv, NEW r \in Requests, WrongPassword(r)
    PROVE  IInv'
<1> USE DEF IInv, WrongPassword, proofs
<1>1. Tickets' /\ TicketsDue' = TicketsDue
  BY TicketsLeft
<1>2. /\ requests' \in [Requests -> {Idle} \cup Awaiting]
      /\ ChallengesApart' /\ ChallengesDue' \subseteq ChallengesDue
  BY GoesElsewhere DEF Done, Idle
<1>3. Enrolled' /\ CodesDue' = CodesDue /\ RecoveryDue' = RecoveryDue
  BY EnrolmentLeft
<1>4. /\ attempts' \in [failures: 0 .. MaxFailures, last: 0 .. MaxTime, until: 0 .. MaxTime + MaxLock]
      /\ LockAsCounted'
  BY CountFailureCounts
<1>5. Spent'
  BY <1>1, <1>2, <1>3, DueByKind, NothingSpent
<1>6. TypeOK'
  BY <1>2, <1>4 DEF TypeOK
<1> QED  BY <1>1, <1>2, <1>3, <1>4, <1>5, <1>6

\* A success forgets the failures.
LEMMA NoRowCounts ==
    ASSUME TypeOK, attempts' = NoRow, UNCHANGED now
    PROVE  /\ attempts' \in [failures: 0 .. MaxFailures, last: 0 .. MaxTime, until: 0 .. MaxTime + MaxLock]
           /\ LockAsCounted'
BY SignInAssumption DEF TypeOK, NoRow, LockAsCounted

LEMMA RightPasswordKeeps ==
    ASSUME IInv, NEW r \in Requests, RightPassword(r)
    PROVE  IInv'
<1> USE DEF IInv, RightPassword, proofs
<1>1. requests[r].guess \in 1 .. MaxPasswords
  BY DEF TypeOK, Awaiting, Idle
<1>2. ChallengesApart' /\ ChallengesDue' \subseteq ChallengesDue
      /\ requests' \in [Requests -> {Idle} \cup Awaiting]
  <2>1. UNCHANGED made.challenges
    BY DEF TypeOK
  <2>2. requests' = [requests EXCEPT ![r] = Idle] /\ Idle.stage # "signature"
    BY DEF Done, Idle
  <2>3. requests' \in [Requests -> {Idle} \cup Awaiting]
    BY <2>2 DEF TypeOK
  <2>4. \A q \in Requests : Signing(q)' => Signing(q) /\ requests'[q] = requests[q]
    BY <2>2 DEF TypeOK, Signing
  <2> QED  BY <2>1, <2>3, <2>4 DEF ChallengesApart, ChallengesDue
<1>3. Enrolled' /\ CodesDue' \subseteq CodesDue /\ RecoveryDue' \subseteq RecoveryDue
  BY DEF TypeOK, Enrolled, CodesDue, RecoveryDue
<1>4. /\ attempts' \in [failures: 0 .. MaxFailures, last: 0 .. MaxTime, until: 0 .. MaxTime + MaxLock]
      /\ LockAsCounted'
  BY NoRowCounts
<1>5. CASE ~FactorAsked(r)
  <2>1. UNCHANGED <<made, tickets>> /\ sessions' \subseteq 0 .. MaxPasswords
    BY <1>1, <1>5 DEF TypeOK
  <2>2. Tickets' /\ TicketsDue' = TicketsDue
    BY <2>1, TicketsLeft
  <2>3. Spent'
    BY <1>2, <1>3, <2>2, DueByKind, NothingSpent
  <2>4. TypeOK'
    BY <1>2, <1>4, <2>1 DEF TypeOK
  <2> QED  BY <1>2, <1>3, <1>4, <2>2, <2>3, <2>4
<1>6. CASE FactorAsked(r)
  <2> DEFINE i == made.tickets + 1
             t == [id |-> i, at |-> now, tries |-> 0,
                   password |-> requests[r].guess, secret |-> totp.secret]
  <2>1. made' = [made EXCEPT !.tickets = i] /\ i \in 1 .. MaxTickets
    BY <1>6, SignInAssumption DEF TypeOK
  <2>2. tickets' = tickets \cup {t} /\ UNCHANGED sessions
    BY <1>6
  <2>3. totp.state = "on" /\ totp.secret \in 1 .. MaxSecrets
    BY <1>6 DEF FactorAsked, TypeOK, Enrolled
  <2>4. t \in Ticket
    BY <1>1, <2>1, <2>3, SignInAssumption DEF Ticket, TypeOK
  <2>5. \A u \in tickets : u.id < i
    BY DEF Tickets, TicketsApart, TypeOK, Ticket
  <2>6. t.id = i /\ t.secret = totp.secret /\ made'.tickets = i
    BY <2>1 DEF TypeOK
  <2> HIDE DEF t
  <2>7. Tickets'
    <3>1. \A u \in tickets' : u = t \/ u \in tickets
      BY <2>2
    <3>2. TicketOfItsEnrolment'
      BY <2>3, <2>6, <3>1 DEF Tickets, TicketOfItsEnrolment
    <3>3. \A u \in tickets' : u.id <= i
      BY <2>1, <2>4, <2>5, <2>6, <3>1 DEF TypeOK, Ticket
    <3>4. \A u, v \in tickets' : u.id = v.id => u = v
      BY <2>5, <2>6, <2>1, <3>1 DEF Tickets, TicketsApart, TypeOK, Ticket
    <3> QED  BY <2>6, <3>2, <3>3, <3>4 DEF Tickets, TicketsApart
  <2>8. TicketsDue' \subseteq TicketsDue
    <3>1. SUFFICES ASSUME NEW j \in TicketsDue' PROVE j \in TicketsDue
      OBVIOUS
    <3>2. j \in 1 .. MaxTickets /\ (j > i \/ (\E u \in tickets : u.id = j) \/ j = i)
      BY <2>2, <2>6 DEF TicketsDue
    <3> QED  BY <3>2 DEF TicketsDue, TypeOK
  <2>9. Spent'
    BY <1>2, <1>3, <2>8, DueByKind, NothingSpent
  <2>10. TypeOK'
    <3>1. tickets' \subseteq Ticket
      BY <2>2, <2>4 DEF TypeOK
    <3>2. made' \in [secrets: 0 .. MaxSecrets, codes: 0 .. MaxCodes,
                      tickets: 0 .. MaxTickets, challenges: 0 .. MaxChallenges]
      BY <2>1 DEF TypeOK
    <3> QED  BY <1>2, <1>4, <2>2, <2>9, <3>1, <3>2 DEF TypeOK, Spent
  <2> QED  BY <1>2, <1>3, <1>4, <2>7, <2>9, <2>10
<1> QED  BY <1>5, <1>6

-----------------------------------------------------------------------------
(* The second factor *)

LEMMA FailedTries ==
    ASSUME TypeOK, Tickets, NEW t \in tickets, tickets' = Failed(t),
           UNCHANGED <<made, totp>>
    PROVE  tickets' \subseteq Ticket /\ Tickets' /\ TicketsDue' \subseteq TicketsDue
<1> DEFINE u == [t EXCEPT !.tries = @ + 1]
<1>1. t \in Ticket
  BY DEF TypeOK
<1>2. u.id = t.id /\ u.secret = t.secret
  BY <1>1 DEF Ticket
<1>3. u.tries < TicketTries => u \in Ticket
  BY <1>1, SignInAssumption DEF Ticket
<1>4. \A x \in tickets' : (x \in tickets /\ x # t) \/ (x = u /\ u.tries < TicketTries)
  BY DEF Failed, FailedForever
<1> HIDE DEF u
<1>5. tickets' \subseteq Ticket
  BY <1>3, <1>4 DEF TypeOK
<1>6. Tickets'
  <2>1. TicketOfItsEnrolment'
    BY <1>2, <1>4 DEF Tickets, TicketOfItsEnrolment
  <2>2. TicketsApart'
    BY <1>2, <1>4 DEF Tickets, TicketsApart
  <2> QED  BY <2>1, <2>2 DEF Tickets
<1>7. TicketsDue' \subseteq TicketsDue
  BY <1>2, <1>4 DEF TicketsDue
<1> QED  BY <1>5, <1>6, <1>7

LEMMA TicketsGo ==
    ASSUME TypeOK, Tickets, tickets' \subseteq tickets, UNCHANGED made,
           tickets' = {} \/ (totp'.state = totp.state /\ totp'.secret = totp.secret)
    PROVE  tickets' \subseteq Ticket /\ Tickets' /\ TicketsDue' \subseteq TicketsDue
BY DEF TypeOK, Tickets, TicketOfItsEnrolment, TicketsApart, TicketsDue

\* The ticket that was used is due no longer.
LEMMA TicketUsed ==
    ASSUME TypeOK, Tickets, NEW t \in tickets, tickets' = tickets \ {t}, UNCHANGED made
    PROVE  t.id \in TicketsDue /\ t.id \notin TicketsDue'
<1>1. t \in Ticket
  BY DEF TypeOK
<1>2. t.id \in 1 .. MaxTickets /\ t.id <= made.tickets /\ made.tickets \in Nat
  BY <1>1 DEF Ticket, Tickets, TicketsApart, TypeOK
<1>3. \A u \in tickets' : u.id # t.id
  BY DEF Tickets, TicketsApart
<1> QED  BY <1>2, <1>3 DEF TicketsDue

LEMMA DropTicketKeeps ==
    ASSUME IInv, NEW t \in tickets, DropTicket(t)
    PROVE  IInv'
<1> USE DEF IInv, DropTicket
<1>1. tickets' \subseteq Ticket /\ Tickets' /\ TicketsDue' \subseteq TicketsDue
  BY TicketsGo
<1>2. ChallengesApart' /\ ChallengesDue' = ChallengesDue
  BY ChallengesLeft
<1>3. Enrolled' /\ CodesDue' = CodesDue /\ RecoveryDue' = RecoveryDue
  BY EnrolmentLeft
<1>4. LockAsCounted'
  BY LockLeft
<1>5. Spent'
  BY <1>1, <1>2, <1>3, DueByKind, NothingSpent
<1>6. TypeOK'
  BY <1>1 DEF TypeOK
<1> QED  BY <1>1, <1>2, <1>3, <1>4, <1>5, <1>6

\* A code is refused: the try and the failure are counted.
LEMMA CodeRefused ==
    ASSUME IInv, NEW t \in tickets, tickets' = Failed(t), CountFailure,
           UNCHANGED <<now, password, totp, codes, challenges, sessions, requests, made, spent>>
    PROVE  IInv'
<1> USE DEF IInv
<1>1. tickets' \subseteq Ticket /\ Tickets' /\ TicketsDue' \subseteq TicketsDue
  BY FailedTries
<1>2. ChallengesApart' /\ ChallengesDue' = ChallengesDue
  BY ChallengesLeft
<1>3. Enrolled' /\ CodesDue' = CodesDue /\ RecoveryDue' = RecoveryDue
  BY EnrolmentLeft
<1>4. /\ attempts' \in [failures: 0 .. MaxFailures, last: 0 .. MaxTime, until: 0 .. MaxTime + MaxLock]
      /\ LockAsCounted'
  BY CountFailureCounts
<1>5. Spent'
  BY <1>1, <1>2, <1>3, DueByKind, NothingSpent
<1>6. TypeOK'
  BY <1>1, <1>4 DEF TypeOK
<1> QED  BY <1>1, <1>2, <1>3, <1>4, <1>5, <1>6

\* A code is honoured: it is spent with its ticket.
LEMMA CodeHonoured ==
    ASSUME IInv, NEW t \in tickets, NEW p, UseTicket(t, {p}), p \in Due, p[1] # "ticket",
           p \notin Due', Enrolled', CodesDue' \subseteq CodesDue, RecoveryDue' \subseteq RecoveryDue,
           totp' \in [state: {"off", "pending", "on"}, secret: 0 .. MaxSecrets, last: Steps \cup {-1}],
           totp'.state = totp.state /\ totp'.secret = totp.secret, codes' \subseteq codes,
           UNCHANGED <<now, password, challenges, requests, made>>
    PROVE  IInv'
<1> USE DEF IInv, UseTicket
<1> DEFINE ps == {p} \cup {<<"ticket", t.id>>}
<1>1. tickets' \subseteq Ticket /\ Tickets' /\ TicketsDue' \subseteq TicketsDue
  BY TicketsGo
<1>2. ChallengesApart' /\ ChallengesDue' = ChallengesDue
  BY ChallengesLeft
<1>3. t.id \in TicketsDue /\ t.id \notin TicketsDue'
  BY TicketUsed
<1>4. <<"ticket", t.id>> \in Due /\ <<"ticket", t.id>> \notin Due'
  BY <1>3 DEF Due
<1>5. Spent'
  <2>1. Due' \subseteq Due
    BY <1>1, <1>2, DueByKind
  <2>2. ps \subseteq Due /\ Due' \cap ps = {} /\ Spend(ps)
    BY <1>4
  <2> HIDE DEF ps
  <2> QED  BY <2>1, <2>2, SpentWhenDue
<1>6. /\ attempts' \in [failures: 0 .. MaxFailures, last: 0 .. MaxTime, until: 0 .. MaxTime + MaxLock]
      /\ LockAsCounted'
  BY NoRowCounts
<1>7. sessions' \subseteq 0 .. MaxPasswords
  <2>1. t \in Ticket /\ sessions \subseteq 0 .. MaxPasswords
    BY DEF TypeOK
  <2>2. t.password \in 0 .. MaxPasswords
    BY <2>1 DEF Ticket
  <2> QED  BY <2>1, <2>2
<1>8. TypeOK'
  BY <1>1, <1>5, <1>6, <1>7 DEF TypeOK, Spent
<1> QED  BY <1>1, <1>2, <1>5, <1>6, <1>8

LEMMA TotpCodeKeeps ==
    ASSUME IInv, NEW t \in tickets, NEW step \in Steps, TotpCode(t, step)
    PROVE  IInv'
<1>1. CASE Replayed(step)
  BY <1>1, CodeRefused DEF TotpCode
<1>2. CASE ~Replayed(step)
  <2> DEFINE x == <<totp.secret, step>>
  <2>1. /\ UseTicket(t, {<<"code", x>>}) /\ totp' = [totp EXCEPT !.last = step]
        /\ UNCHANGED <<now, password, codes, challenges, requests, made>>
    BY <1>2 DEF TotpCode
  <2>2. /\ totp.state = "on" /\ totp.secret \in 1 .. MaxSecrets
        /\ totp.secret <= made.secrets /\ step > totp.last
        /\ made.secrets \in Nat /\ totp.last \in Int /\ step \in Int
    BY <1>2, SignInAssumption DEF TotpCode, Replayed, IInv, TypeOK, Enrolled, Steps
  <2>3. /\ totp' \in [state: {"off", "pending", "on"}, secret: 0 .. MaxSecrets, last: Steps \cup {-1}]
        /\ totp'.state = "on" /\ totp'.secret = totp.secret /\ totp'.last = step
    BY <2>1, <2>2 DEF IInv, TypeOK
  <2>4. Enrolled' /\ RecoveryDue' = RecoveryDue
    BY <2>1, <2>2, <2>3 DEF IInv, Enrolled, RecoveryDue
  <2>5. CodesDue' \subseteq CodesDue
    BY <2>1, <2>2, <2>3 DEF CodesDue, Steps
  <2>6. x \in CodesDue /\ x \notin CodesDue'
    BY <2>1, <2>2, <2>3 DEF CodesDue
  <2>7. <<"code", x>> \in Due /\ <<"code", x>> \notin Due' /\ <<"code", x>>[1] # "ticket"
    BY <2>6 DEF Due
  <2> HIDE DEF x
  <2> QED  BY <2>1, <2>2, <2>3, <2>4, <2>5, <2>7, CodeHonoured
<1> QED  BY <1>1, <1>2

LEMMA RecoveryCodeKeeps ==
    ASSUME IInv, NEW t \in tickets, NEW c \in codes, RecoveryCode(t, c)
    PROVE  IInv'
<1>1. /\ UseTicket(t, {<<"recovery", c>>}) /\ codes' = codes \ {c}
      /\ UNCHANGED <<now, password, totp, challenges, requests, made>>
  BY DEF RecoveryCode
<1>2. c \in 1 .. MaxCodes /\ c <= made.codes /\ made.codes \in Nat
  BY DEF IInv, TypeOK, Enrolled
<1>3. RecoveryDue' \subseteq RecoveryDue /\ c \in RecoveryDue /\ c \notin RecoveryDue'
  BY <1>1, <1>2 DEF RecoveryDue
<1>4. Enrolled' /\ CodesDue' = CodesDue
  BY <1>1 DEF IInv, Enrolled, CodesDue
<1>5. /\ <<"recovery", c>> \in Due /\ <<"recovery", c>> \notin Due'
      /\ <<"recovery", c>>[1] # "ticket"
  BY <1>3 DEF Due
<1>6. totp \in [state: {"off", "pending", "on"}, secret: 0 .. MaxSecrets, last: Steps \cup {-1}]
  BY DEF IInv, TypeOK
<1> QED  BY <1>1, <1>3, <1>4, <1>5, <1>6, CodeHonoured

LEMMA WrongCodeKeeps ==
    ASSUME IInv, NEW t \in tickets, WrongCode(t)
    PROVE  IInv'
BY CodeRefused DEF WrongCode

-----------------------------------------------------------------------------
(* Passkeys *)

LEMMA PutChallengeKeeps ==
    ASSUME IInv, PutChallenge
    PROVE  IInv'
<1> USE DEF IInv, PutChallenge
<1> DEFINE i == made.challenges + 1
           c == [id |-> i, at |-> now]
<1>1. /\ i \in 1 .. MaxChallenges /\ made' = [made EXCEPT !.challenges = i]
      /\ challenges' = challenges \cup {c}
  BY SignInAssumption DEF TypeOK
<1>2. /\ made' \in [secrets: 0 .. MaxSecrets, codes: 0 .. MaxCodes,
                     tickets: 0 .. MaxTickets, challenges: 0 .. MaxChallenges]
      /\ made'.tickets = made.tickets /\ made'.codes = made.codes
      /\ made'.secrets = made.secrets /\ made'.challenges = i
  BY <1>1 DEF TypeOK
<1>3. c \in Challenge /\ c.id = i
  BY <1>1 DEF Challenge, TypeOK
<1>4. Tickets' /\ TicketsDue' = TicketsDue
  BY <1>2 DEF Tickets, TicketOfItsEnrolment, TicketsApart, TicketsDue
<1>5. Enrolled' /\ CodesDue' = CodesDue /\ RecoveryDue' = RecoveryDue
  BY <1>2 DEF Enrolled, CodesDue, RecoveryDue
<1>6. /\ \A d \in challenges : d.id \in Nat /\ d.id < i
      /\ \A r \in Requests : Signing(r) => requests[r].challenge \in Nat /\ requests[r].challenge < i
  <2>1. made.challenges \in Nat
    BY DEF TypeOK
  <2>2. \A d \in challenges : d.id \in Nat /\ d.id <= made.challenges
    BY DEF TypeOK, Challenge, ChallengesApart
  <2>3. \A r \in Requests : Signing(r) => requests[r].challenge \in Nat
    BY DEF TypeOK, Signing, Awaiting, Idle
  <2>4. \A r \in Requests : Signing(r) => requests[r].challenge <= made.challenges
    BY DEF ChallengesApart
  <2> QED  BY <2>1, <2>2, <2>3, <2>4
<1> HIDE DEF c
<1>7. ChallengesApart'
  <2>1. \A d \in challenges' : d.id <= i
    BY <1>1, <1>3, <1>6
  <2>2. \A d, e \in challenges' : d.id = e.id => d = e
    BY <1>1, <1>3, <1>6 DEF ChallengesApart
  <2>3. \A r \in Requests : Signing(r) =>
           /\ requests[r].challenge <= i
           /\ \A d \in challenges' : d.id # requests[r].challenge
    BY <1>1, <1>3, <1>6 DEF ChallengesApart
  <2> QED  BY <1>2, <2>1, <2>2, <2>3 DEF ChallengesApart, Signing
<1>8. ChallengesDue' \subseteq ChallengesDue
  <2>1. made.challenges \in Nat
    BY DEF TypeOK
  <2> QED  BY <1>1, <1>2, <1>3, <2>1 DEF ChallengesDue, Signing
<1>9. Spent'
  BY <1>4, <1>5, <1>8, DueByKind, NothingSpent
<1>10. LockAsCounted'
  BY LockLeft
<1>11. TypeOK'
  BY <1>1, <1>2, <1>3 DEF TypeOK
<1> QED  BY <1>4, <1>5, <1>7, <1>9, <1>10, <1>11

\* A challenge leaves the table with the request that takes it.
LEMMA BeginPasskeyKeeps ==
    ASSUME IInv, NEW r \in Requests, NEW c \in challenges, BeginPasskey(r, c)
    PROVE  IInv'
<1> USE DEF IInv, BeginPasskey
<1> DEFINE what == [stage |-> "signature", challenge |-> c.id]
<1>1. challenges' = challenges \ {c} /\ requests[r] = Idle
  BY DEF TakeChallenge
<1>2. requests' = [requests EXCEPT ![r] = what] \/ UNCHANGED requests
  BY DEF Await
<1>3. c.id \in 1 .. MaxChallenges /\ c.id <= made.challenges /\ what \in Awaiting
  BY DEF TypeOK, Challenge, ChallengesApart, Awaiting
<1>4. requests' \in [Requests -> {Idle} \cup Awaiting]
  BY <1>2, <1>3 DEF TypeOK
<1>5. \A q \in Requests : Signing(q)' =>
         \/ Signing(q) /\ requests'[q].challenge = requests[q].challenge
         \/ q = r /\ requests'[q].challenge = c.id
  BY <1>2 DEF TypeOK, Signing
<1>6. ~Signing(r)
  BY <1>1 DEF Signing, Idle
<1>7. \A d \in challenges' : d \in challenges /\ d.id # c.id
  BY <1>1 DEF ChallengesApart
<1> HIDE DEF what
<1>8. ChallengesApart'
  <2>1. /\ \A d \in challenges' : d.id <= made'.challenges
        /\ \A d, e \in challenges' : d.id = e.id => d = e
    BY <1>7 DEF ChallengesApart
  <2>2. ASSUME NEW q \in Requests, Signing(q)'
        PROVE  /\ requests'[q].challenge <= made'.challenges
               /\ \A d \in challenges' : d.id # requests'[q].challenge
    BY <1>3, <1>5, <1>7, <2>2 DEF ChallengesApart
  <2>3. ASSUME NEW q \in Requests, NEW p \in Requests \ {q}, Signing(q)', Signing(p)'
        PROVE  requests'[p].challenge # requests'[q].challenge
    <3>1. /\ q = r \/ (Signing(q) /\ requests'[q].challenge = requests[q].challenge)
          /\ p = r \/ (Signing(p) /\ requests'[p].challenge = requests[p].challenge)
          /\ q = r => requests'[q].challenge = c.id
          /\ p = r => requests'[p].challenge = c.id
      BY <1>5, <1>6, <2>3
    <3> QED  BY <3>1 DEF ChallengesApart
  <2> QED  BY <2>1, <2>2, <2>3 DEF ChallengesApart
<1>9. ChallengesDue' \subseteq ChallengesDue
  BY <1>5, <1>7 DEF ChallengesDue
<1>10. Tickets' /\ TicketsDue' = TicketsDue
  BY TicketsLeft
<1>11. Enrolled' /\ CodesDue' = CodesDue /\ RecoveryDue' = RecoveryDue
  BY EnrolmentLeft
<1>12. Spent'
  BY <1>9, <1>10, <1>11, DueByKind, NothingSpent
<1>13. LockAsCounted'
  BY LockLeft
<1>14. TypeOK'
  BY <1>1, <1>4 DEF TypeOK
<1> QED  BY <1>8, <1>10, <1>11, <1>12, <1>13, <1>14

LEMMA FinishPasskeyKeeps ==
    ASSUME IInv, NEW r \in Requests, FinishPasskey(r)
    PROVE  IInv'
<1> USE DEF IInv, FinishPasskey
<1> DEFINE i == requests[r].challenge
<1>1. i \in 1 .. MaxChallenges
  BY DEF TypeOK, Awaiting, Idle
<1>2. /\ requests' \in [Requests -> {Idle} \cup Awaiting]
      /\ ChallengesApart' /\ ChallengesDue' \subseteq ChallengesDue
  BY GoesElsewhere DEF Done, Idle
<1>3. i \in ChallengesDue
  BY <1>1 DEF ChallengesDue, Signing
<1>4. i \notin ChallengesDue'
  <2>1. i <= made.challenges /\ i \in Nat /\ made.challenges \in Nat
    BY <1>1 DEF ChallengesApart, Signing, TypeOK
  <2>2. \A q \in Requests : Signing(q)' => q # r /\ Signing(q) /\ requests'[q] = requests[q]
    BY DEF Done, Idle, Signing, TypeOK
  <2>3. \A q \in Requests : Signing(q)' => requests'[q].challenge # i
    BY <2>2 DEF ChallengesApart, Signing
  <2>4. \A c \in challenges' : c.id # i
    BY DEF ChallengesApart, Signing
  <2> QED  BY <2>1, <2>3, <2>4 DEF ChallengesDue
<1>5. Tickets' /\ TicketsDue' = TicketsDue
  BY TicketsLeft
<1>6. Enrolled' /\ CodesDue' = CodesDue /\ RecoveryDue' = RecoveryDue
  BY EnrolmentLeft
<1>7. Spent'
  <2>1. Due' \subseteq Due
    BY <1>2, <1>5, <1>6, DueByKind
  <2>2. <<"challenge", i>> \in Due /\ <<"challenge", i>> \notin Due'
    BY <1>3, <1>4 DEF Due
  <2> QED  BY <2>1, <2>2, SpentWhenDue
<1>8. LockAsCounted'
  BY LockLeft
<1>9. TypeOK'
  <2>1. sessions' \subseteq 0 .. MaxPasswords
    BY SignInAssumption DEF TypeOK
  <2> QED  BY <1>2, <1>7, <2>1 DEF TypeOK, Spent
<1> QED  BY <1>2, <1>5, <1>6, <1>7, <1>8, <1>9

-----------------------------------------------------------------------------
(* The authenticator *)

LEMMA StartEnrolmentKeeps ==
    ASSUME IInv, StartEnrolment
    PROVE  IInv'
<1> USE DEF IInv, StartEnrolment
<1> DEFINE s == made.secrets + 1
<1>1. s \in 1 .. MaxSecrets /\ made.secrets \in Nat
  BY SignInAssumption DEF TypeOK
<1>2. /\ made' \in [secrets: 0 .. MaxSecrets, codes: 0 .. MaxCodes,
                     tickets: 0 .. MaxTickets, challenges: 0 .. MaxChallenges]
      /\ made'.tickets = made.tickets /\ made'.codes = made.codes
      /\ made'.secrets = s /\ made'.challenges = made.challenges
  BY <1>1 DEF TypeOK
<1>3. /\ totp' \in [state: {"off", "pending", "on"}, secret: 0 .. MaxSecrets, last: Steps \cup {-1}]
      /\ totp'.state = "pending" /\ totp'.secret = s /\ totp'.last = -1
  BY <1>1
<1>4. tickets = {}
  BY DEF Tickets, TicketOfItsEnrolment
<1>5. Tickets' /\ TicketsDue' = TicketsDue
  BY <1>2, <1>4 DEF Tickets, TicketOfItsEnrolment, TicketsApart, TicketsDue
<1>6. ChallengesApart' /\ ChallengesDue' = ChallengesDue
  BY <1>2 DEF ChallengesApart, ChallengesDue, Signing
<1>7. Enrolled' /\ RecoveryDue' = RecoveryDue
  BY <1>1, <1>2, <1>3 DEF Enrolled, RecoveryDue
<1>8. CodesDue' \subseteq CodesDue
  BY <1>1, <1>2, <1>3 DEF CodesDue
<1>9. Spent'
  BY <1>5, <1>6, <1>7, <1>8, DueByKind, NothingSpent
<1>10. LockAsCounted'
  BY LockLeft
<1>11. TypeOK'
  BY <1>2, <1>3 DEF TypeOK
<1> QED  BY <1>5, <1>6, <1>7, <1>9, <1>10, <1>11

LEMMA NewCodesAreDue ==
    ASSUME TypeOK, NewCodes
    PROVE  /\ made' \in [secrets: 0 .. MaxSecrets, codes: 0 .. MaxCodes,
                         tickets: 0 .. MaxTickets, challenges: 0 .. MaxChallenges]
           /\ made'.tickets = made.tickets /\ made'.challenges = made.challenges
           /\ made'.secrets = made.secrets
           /\ codes' \subseteq 1 .. MaxCodes /\ (\A c \in codes' : c <= made'.codes)
           /\ RecoveryDue' \subseteq RecoveryDue
<1> DEFINE i == made.codes + 1
<1>1. i \in 1 .. MaxCodes /\ made.codes \in Nat
  BY SignInAssumption DEF TypeOK, NewCodes
<1>2. made' = [made EXCEPT !.codes = i] /\ codes' = {i}
  BY DEF NewCodes
<1>3. /\ made' \in [secrets: 0 .. MaxSecrets, codes: 0 .. MaxCodes,
                     tickets: 0 .. MaxTickets, challenges: 0 .. MaxChallenges]
      /\ made'.tickets = made.tickets /\ made'.challenges = made.challenges
      /\ made'.secrets = made.secrets /\ made'.codes = i
  BY <1>1, <1>2 DEF TypeOK
<1>4. RecoveryDue' \subseteq RecoveryDue
  BY <1>1, <1>2, <1>3 DEF RecoveryDue
<1> QED  BY <1>1, <1>2, <1>3, <1>4

LEMMA EnableTotpKeeps ==
    ASSUME IInv, NEW step \in Steps, EnableTotp(step)
    PROVE  IInv'
<1> USE DEF IInv, EnableTotp
<1> DEFINE x == <<totp.secret, step>>
<1>1. /\ totp.secret \in 1 .. MaxSecrets /\ totp.secret <= made.secrets
      /\ made.secrets \in Nat /\ totp.last = -1 /\ step \in Nat
  BY SignInAssumption DEF TypeOK, Enrolled, Steps
<1>2. /\ totp' \in [state: {"off", "pending", "on"}, secret: 0 .. MaxSecrets, last: Steps \cup {-1}]
      /\ totp'.state = "on" /\ totp'.secret = totp.secret /\ totp'.last = step
  BY DEF TypeOK
<1>3. /\ made' \in [secrets: 0 .. MaxSecrets, codes: 0 .. MaxCodes,
                     tickets: 0 .. MaxTickets, challenges: 0 .. MaxChallenges]
      /\ made'.tickets = made.tickets /\ made'.challenges = made.challenges
      /\ made'.secrets = made.secrets
      /\ codes' \subseteq 1 .. MaxCodes /\ (\A c \in codes' : c <= made'.codes)
      /\ RecoveryDue' \subseteq RecoveryDue
  BY NewCodesAreDue
<1>4. tickets = {}
  BY DEF Tickets, TicketOfItsEnrolment
<1>5. Tickets' /\ TicketsDue' = TicketsDue
  BY <1>3, <1>4 DEF Tickets, TicketOfItsEnrolment, TicketsApart, TicketsDue
<1>6. ChallengesApart' /\ ChallengesDue' = ChallengesDue
  BY <1>3 DEF ChallengesApart, ChallengesDue, Signing
<1>7. Enrolled'
  BY <1>1, <1>2, <1>3 DEF Enrolled
<1>8. CodesDue' \subseteq CodesDue
  BY <1>1, <1>2, <1>3 DEF CodesDue, Steps
<1>9. x \in CodesDue /\ x \notin CodesDue'
  BY <1>1, <1>2, <1>3 DEF CodesDue
<1>10. <<"code", x>> \in Due /\ <<"code", x>> \notin Due'
  BY <1>9 DEF Due
<1>11. Spent'
  <2>1. Due' \subseteq Due
    BY <1>3, <1>5, <1>6, <1>8, DueByKind
  <2> HIDE DEF x
  <2>2. Spend({<<"code", x>>})
    BY DEF x
  <2> QED  BY <1>10, <2>1, <2>2, SpentWhenDue
<1>12. LockAsCounted'
  BY LockLeft
<1>13. TypeOK'
  BY <1>2, <1>3, <1>11 DEF TypeOK, Spent
<1> QED  BY <1>5, <1>6, <1>7, <1>11, <1>12, <1>13

LEMMA RenewCodesKeeps ==
    ASSUME IInv, NEW r \in Requests, RenewCodes(r)
    PROVE  IInv'
<1> USE DEF IInv, RenewCodes
<1>1. /\ made' \in [secrets: 0 .. MaxSecrets, codes: 0 .. MaxCodes,
                     tickets: 0 .. MaxTickets, challenges: 0 .. MaxChallenges]
      /\ made'.tickets = made.tickets /\ made'.challenges = made.challenges
      /\ made'.secrets = made.secrets
      /\ codes' \subseteq 1 .. MaxCodes /\ (\A c \in codes' : c <= made'.codes)
      /\ RecoveryDue' \subseteq RecoveryDue
  BY NewCodesAreDue
<1>2. Tickets' /\ TicketsDue' = TicketsDue
  BY <1>1 DEF Tickets, TicketOfItsEnrolment, TicketsApart, TicketsDue
<1>3. requests' = [requests EXCEPT ![r] = Idle]
  BY DEF Done
<1>4. requests' \in [Requests -> {Idle} \cup Awaiting]
  BY <1>3 DEF TypeOK
<1>5. \A q \in Requests : Signing(q)' => Signing(q) /\ requests'[q] = requests[q]
  BY <1>3 DEF TypeOK, Signing, Idle
<1>6. ChallengesApart' /\ ChallengesDue' \subseteq ChallengesDue
  BY <1>1, <1>5 DEF ChallengesApart, ChallengesDue
<1>7. Enrolled' /\ CodesDue' = CodesDue
  BY <1>1 DEF Enrolled, CodesDue
<1>8. Spent'
  BY <1>1, <1>2, <1>6, <1>7, DueByKind, NothingSpent
<1>9. LockAsCounted'
  BY LockLeft
<1>10. TypeOK'
  BY <1>1, <1>4 DEF TypeOK
<1> QED  BY <1>2, <1>6, <1>7, <1>8, <1>9, <1>10

\* With the enrolment go its secret, its codes and the tickets that wait for it.
LEMMA SwitchOffKeeps ==
    ASSUME IInv, SwitchOff, requests' \in [Requests -> {Idle} \cup Awaiting],
           ChallengesApart', ChallengesDue' \subseteq ChallengesDue
    PROVE  IInv'
<1> USE DEF IInv, SwitchOff
<1>1. tickets' \subseteq Ticket /\ Tickets' /\ TicketsDue' \subseteq TicketsDue
  BY TicketsGo DEF ClearTickets
<1>2. /\ totp' \in [state: {"off", "pending", "on"}, secret: 0 .. MaxSecrets, last: Steps \cup {-1}]
      /\ totp'.state = "off" /\ totp'.secret = 0
  BY SignInAssumption DEF NoTotp
<1>3. Enrolled' /\ RecoveryDue' \subseteq RecoveryDue
  BY <1>2 DEF Enrolled, RecoveryDue, TypeOK
<1>4. CodesDue' \subseteq CodesDue
  BY <1>2 DEF CodesDue
<1>5. Spent'
  BY <1>1, <1>3, <1>4, DueByKind, NothingSpent
<1>6. LockAsCounted'
  BY LockLeft
<1>7. TypeOK'
  BY <1>1, <1>2 DEF TypeOK
<1> QED  BY <1>1, <1>3, <1>5, <1>6, <1>7

LEMMA DisableTotpKeeps ==
    ASSUME IInv, NEW r \in Requests, DisableTotp(r)
    PROVE  IInv'
<1>1. /\ requests' \in [Requests -> {Idle} \cup Awaiting]
      /\ ChallengesApart' /\ ChallengesDue' \subseteq ChallengesDue
  BY GoesElsewhere DEF IInv, DisableTotp, SwitchOff, Done, Idle
<1> QED  BY <1>1, SwitchOffKeeps DEF DisableTotp

LEMMA AdminClearTotpKeeps == ASSUME IInv, AdminClearTotp PROVE IInv'
<1>1. ChallengesApart' /\ ChallengesDue' = ChallengesDue
  BY ChallengesLeft DEF IInv, AdminClearTotp, SwitchOff
<1>2. requests' \in [Requests -> {Idle} \cup Awaiting]
  BY DEF IInv, TypeOK, AdminClearTotp
<1> QED  BY <1>1, <1>2, SwitchOffKeeps DEF AdminClearTotp

-----------------------------------------------------------------------------
(* The password changes, sessions end, time passes *)

LEMMA SetPasswordKeeps ==
    ASSUME IInv, NEW r \in Requests, SetPassword(r)
    PROVE  IInv'
<1> USE DEF IInv, SetPassword
<1> DEFINE what == [requests[r] EXCEPT !.stage = "sweep"]
<1>1. what \in Awaiting /\ what.stage # "signature"
  BY DEF TypeOK, Awaiting, Idle
<1>2. requests' = [requests EXCEPT ![r] = what]
  BY DEF Await
<1> HIDE DEF what
<1>3. /\ requests' \in [Requests -> {Idle} \cup Awaiting]
      /\ ChallengesApart' /\ ChallengesDue' \subseteq ChallengesDue
  BY <1>1, <1>2, GoesElsewhere
<1>4. Tickets' /\ TicketsDue' = TicketsDue
  BY TicketsLeft
<1>5. Enrolled' /\ CodesDue' = CodesDue /\ RecoveryDue' = RecoveryDue
  BY EnrolmentLeft
<1>6. Spent'
  BY <1>3, <1>4, <1>5, DueByKind, NothingSpent
<1>7. LockAsCounted'
  BY LockLeft
<1>8. TypeOK'
  BY <1>3, SignInAssumption DEF TypeOK
<1> QED  BY <1>3, <1>4, <1>5, <1>6, <1>7, <1>8

\* Time passes, sessions end, and an administrator forgets the failures.
LEMMA NothingPresented ==
    ASSUME IInv, UNCHANGED <<password, proofs, requests, made, spent>>,
           now' \in 0 .. MaxTime, sessions' \subseteq 0 .. MaxPasswords,
           attempts' \in [failures: 0 .. MaxFailures, last: 0 .. MaxTime, until: 0 .. MaxTime + MaxLock],
           LockAsCounted'
    PROVE  IInv'
<1> USE DEF IInv, proofs
<1>1. Tickets' /\ TicketsDue' = TicketsDue
  BY TicketsLeft
<1>2. ChallengesApart' /\ ChallengesDue' = ChallengesDue
  BY ChallengesLeft
<1>3. Enrolled' /\ CodesDue' = CodesDue /\ RecoveryDue' = RecoveryDue
  BY EnrolmentLeft
<1>4. Spent'
  BY <1>1, <1>2, <1>3, DueByKind, NothingSpent
<1>5. TypeOK'
  BY DEF TypeOK
<1> QED  BY <1>1, <1>2, <1>3, <1>4, <1>5

LEMMA TickKeeps == ASSUME IInv, Tick PROVE IInv'
<1>1. now' \in 0 .. MaxTime /\ now' >= now /\ now \in Nat
  BY SignInAssumption DEF Tick, IInv, TypeOK
<1>2. LockAsCounted'
  BY <1>1 DEF Tick, IInv, LockAsCounted, TypeOK
<1>3. /\ sessions' \subseteq 0 .. MaxPasswords
      /\ attempts' \in [failures: 0 .. MaxFailures, last: 0 .. MaxTime, until: 0 .. MaxTime + MaxLock]
  BY DEF Tick, IInv, TypeOK
<1> QED  BY <1>1, <1>2, <1>3, NothingPresented DEF Tick, proofs

LEMMA ClearLockoutKeeps == ASSUME IInv, ClearLockout PROVE IInv'
<1>1. /\ attempts' \in [failures: 0 .. MaxFailures, last: 0 .. MaxTime, until: 0 .. MaxTime + MaxLock]
      /\ LockAsCounted'
  BY NoRowCounts DEF ClearLockout, IInv
<1> QED  BY <1>1, NothingPresented DEF ClearLockout, proofs, IInv, TypeOK

LEMMA EndSessionKeeps == ASSUME IInv, NEW p \in sessions, EndSession(p) PROVE IInv'
<1>1. LockAsCounted'
  BY LockLeft DEF EndSession, IInv
<1>2. sessions' \subseteq 0 .. MaxPasswords
  BY DEF EndSession, IInv, TypeOK
<1> QED  BY <1>1, <1>2, NothingPresented DEF EndSession, proofs, IInv, TypeOK

-----------------------------------------------------------------------------
(* Every step *)

\* What a request may be set to await, but for a signature.
LEMMA JobsToAwait ==
    /\ Idle.stage # "signature"
    /\ \A guess \in 0 .. MaxPasswords, factor \in BOOLEAN :
          [stage |-> "verify", guess |-> guess, factor |-> factor] \in Awaiting
    /\ \A for \in {"codes", "disable"} : [stage |-> "confirm", for |-> for] \in Awaiting
    /\ \A keep \in 0 .. MaxPasswords : [stage |-> "change", keep |-> keep] \in Awaiting
BY DEF Awaiting, Idle

LEMMA BeginPasswordKeeps ==
    ASSUME IInv, NEW r \in Requests, NEW guess \in {0, password}, BeginPassword(r, guess)
    PROVE  IInv'
<1> DEFINE job == [stage |-> "verify", guess |-> guess, factor |-> totp.state = "on"]
<1>1. guess \in 0 .. MaxPasswords /\ sessions \subseteq 0 .. MaxPasswords
  BY SignInAssumption DEF IInv, TypeOK
<1>2. job \in Awaiting /\ job.stage # "signature"
  BY <1>1, JobsToAwait, Zenon
<1>3. requests' = [requests EXCEPT ![r] = job]
  BY DEF BeginPassword, Await
<1> HIDE DEF job
<1> QED  BY <1>1, <1>2, <1>3, RequestMovesOn DEF BeginPassword

LEMMA BeginConfirmKeeps ==
    ASSUME IInv, NEW r \in Requests, NEW for \in {"codes", "disable"}, BeginConfirm(r, for)
    PROVE  IInv'
<1>1. sessions \subseteq 0 .. MaxPasswords
  BY DEF IInv, TypeOK
<1> QED  BY <1>1, JobsToAwait, RequestMovesOn DEF BeginConfirm, Await

LEMMA BeginChangeKeeps ==
    ASSUME IInv, NEW r \in Requests, NEW keep \in sessions, BeginChange(r, keep)
    PROVE  IInv'
<1>1. sessions \subseteq 0 .. MaxPasswords /\ keep \in 0 .. MaxPasswords
  BY DEF IInv, TypeOK
<1> QED  BY <1>1, JobsToAwait, RequestMovesOn DEF BeginChange, Await

LEMMA SweepSessionsKeeps ==
    ASSUME IInv, NEW r \in Requests, SweepSessions(r)
    PROVE  IInv'
<1>1. sessions' \subseteq 0 .. MaxPasswords
  BY SignInAssumption DEF SweepSessions
<1> QED  BY <1>1, JobsToAwait, RequestMovesOn DEF SweepSessions, Done, proofs

LEMMA RefuseKeeps ==
    ASSUME IInv, NEW r \in Requests, Refuse(r)
    PROVE  IInv'
<1>1. sessions \subseteq 0 .. MaxPasswords
  BY DEF IInv, TypeOK
<1> QED  BY <1>1, JobsToAwait, RequestMovesOn DEF Refuse, Done

LEMMA StepKeeps == IInv /\ [Next]_vars => IInv'
<1> SUFFICES ASSUME IInv, [Next]_vars PROVE IInv'
  OBVIOUS
<1>1. CASE Tick \/ AdminClearTotp \/ ClearLockout \/ StartEnrolment \/ PutChallenge
  BY <1>1, TickKeeps, AdminClearTotpKeeps, ClearLockoutKeeps, StartEnrolmentKeeps,
     PutChallengeKeeps
<1>2. ASSUME NEW r \in Requests,
             \/ \E guess \in {0, password} : BeginPassword(r, guess)
             \/ \E keep \in sessions : BeginChange(r, keep)
             \/ \E for \in {"codes", "disable"} : BeginConfirm(r, for)
             \/ \E c \in challenges : BeginPasskey(r, c)
             \/ WrongPassword(r) \/ RightPassword(r) \/ FinishPasskey(r)
             \/ RenewCodes(r) \/ DisableTotp(r)
             \/ SetPassword(r) \/ SweepSessions(r) \/ Refuse(r)
      PROVE  IInv'
  BY <1>2, BeginPasswordKeeps, BeginChangeKeeps, BeginConfirmKeeps, BeginPasskeyKeeps,
     WrongPasswordKeeps, RightPasswordKeeps, FinishPasskeyKeeps, RenewCodesKeeps,
     DisableTotpKeeps, SetPasswordKeeps, SweepSessionsKeeps, RefuseKeeps
<1>3. ASSUME NEW t \in tickets,
             \/ DropTicket(t) \/ WrongCode(t)
             \/ \E step \in Steps : TotpCode(t, step)
             \/ \E c \in codes : RecoveryCode(t, c)
      PROVE  IInv'
  BY <1>3, DropTicketKeeps, WrongCodeKeeps, TotpCodeKeeps, RecoveryCodeKeeps
<1>4. CASE \E step \in Steps : EnableTotp(step)
  BY <1>4, EnableTotpKeeps
<1>5. CASE \E p \in sessions : EndSession(p)
  BY <1>5, EndSessionKeeps
<1>6. CASE UNCHANGED vars
  <2>1. UNCHANGED <<password, proofs, requests, made, spent, now, sessions, attempts>>
    BY <1>6 DEF vars, proofs
  <2>2. LockAsCounted'
    BY <2>1, LockLeft DEF IInv
  <2> QED  BY <2>1, <2>2, NothingPresented DEF IInv, TypeOK
<1> QED  BY <1>1, <1>2, <1>3, <1>4, <1>5, <1>6 DEF Next

THEOREM SignInIsInvariant == Spec => []IInv
<1>1. Init => IInv
  BY InitInOrder
<1>2. IInv /\ [Next]_vars => IInv'
  BY StepKeeps
<1> QED  BY <1>1, <1>2, PTL DEF Spec

\* Whatever two requests do between each other's awaits, a ticket, a code and a
\* challenge open one session at most, and a ticket is finished with the
\* authenticator it was given under or not at all.
THEOREM EveryProofCountsOnce == Spec => []ProofsInOrder
<1>1. IInv => ProofsInOrder
  BY DEF IInv, ProofsInOrder, Spent, Tickets
<1> QED  BY <1>1, SignInIsInvariant, PTL

-----------------------------------------------------------------------------
(* The lock runs on *)

LEMMA LockForGrows ==
    ASSUME NEW n \in Nat, n >= Threshold, n < MaxFailures
    PROVE  LockFor(n) <= LockFor(n + 1)
<1> DEFINE k == n - Threshold
<1>1. k \in 0 .. MaxFailures /\ k + 1 \in 0 .. MaxFailures /\ (n + 1) - Threshold = k + 1
  BY SignInAssumption
<1>2. 2 ^ k \in Nat /\ 2 ^ (k + 1) \in Nat /\ 2 ^ k <= 2 ^ (k + 1)
  BY <1>1, DoublingAssumption
<1>3. BaseLock \in Nat /\ MaxLock \in Nat
  BY SignInAssumption
<1> DEFINE x == BaseLock * 2 ^ k
           y == BaseLock * 2 ^ (k + 1)
<1>4. x \in Nat /\ y \in Nat /\ x <= y
  BY <1>2, <1>3
<1>5. LockFor(n) = Smaller(x, MaxLock) /\ LockFor(n + 1) = Smaller(y, MaxLock)
  BY <1>1 DEF LockFor
<1> HIDE DEF x, y
<1> QED  BY <1>3, <1>4, <1>5 DEF Smaller

\* A lock lasts no longer than the window, so a failure while it runs is one more.
LEMMA FailureLocksOn ==
    ASSUME IInv, Locked, CountFailure
    PROVE  attempts'.until >= attempts.until
<1> DEFINE f == attempts.failures
<1>1. /\ f \in 0 .. MaxFailures /\ attempts.last \in Nat /\ attempts.until \in Nat
      /\ now \in Nat /\ attempts.last <= now
  BY SignInAssumption DEF IInv, TypeOK, LockAsCounted
<1>2. f >= Threshold /\ attempts.until = attempts.last + LockFor(f)
  BY <1>1 DEF IInv, LockAsCounted, Locked
<1>3. LockFor(f) \in 0 .. MaxLock /\ MaxLock <= Window /\ MaxLock \in Nat /\ Window \in Nat
      /\ Threshold \in Nat /\ MaxFailures \in Nat
  BY <1>1, <1>2, LockForType, SignInAssumption
<1>4. ~(now - attempts.last > Window)
  BY <1>1, <1>2, <1>3 DEF Locked
<1>5. attempts' = [failures |-> f + 1, last |-> now,
                   until |-> IF f + 1 >= Threshold THEN now + LockFor(f + 1) ELSE 0]
  BY <1>4 DEF CountFailure, Failure
<1>6. f + 1 <= MaxFailures
  BY <1>5 DEF CountFailure
<1> HIDE DEF f
<1>7. attempts'.until = now + LockFor(f + 1)
  BY <1>1, <1>2, <1>3, <1>5
<1>8. LockFor(f) <= LockFor(f + 1) /\ LockFor(f + 1) \in Nat
  BY <1>1, <1>2, <1>3, <1>6, LockForGrows, LockForType
<1> QED  BY <1>1, <1>2, <1>3, <1>7, <1>8

\* What a step does to the lockout row.
LEMMA AttemptsStep ==
    ASSUME IInv, [Next]_vars
    PROVE  UNCHANGED attempts \/ attempts' = NoRow \/ CountFailure
<1>1. CASE Tick \/ AdminClearTotp \/ ClearLockout \/ StartEnrolment \/ PutChallenge
  BY <1>1 DEF Tick, AdminClearTotp, SwitchOff, ClearLockout, StartEnrolment, PutChallenge
<1>2. ASSUME NEW r \in Requests,
             \/ \E guess \in {0, password} : BeginPassword(r, guess)
             \/ \E keep \in sessions : BeginChange(r, keep)
             \/ \E for \in {"codes", "disable"} : BeginConfirm(r, for)
             \/ \E c \in challenges : BeginPasskey(r, c)
             \/ WrongPassword(r) \/ RightPassword(r) \/ FinishPasskey(r)
             \/ RenewCodes(r) \/ DisableTotp(r)
             \/ SetPassword(r) \/ SweepSessions(r) \/ Refuse(r)
      PROVE  UNCHANGED attempts \/ attempts' = NoRow \/ CountFailure
  BY <1>2 DEF BeginPassword, BeginChange, BeginConfirm, BeginPasskey, WrongPassword,
     RightPassword, FinishPasskey, RenewCodes, DisableTotp, SwitchOff, SetPassword,
     SweepSessions, Refuse
<1>3. ASSUME NEW t \in tickets,
             \/ DropTicket(t) \/ WrongCode(t)
             \/ \E step \in Steps : TotpCode(t, step)
             \/ \E c \in codes : RecoveryCode(t, c)
      PROVE  UNCHANGED attempts \/ attempts' = NoRow \/ CountFailure
  BY <1>3 DEF DropTicket, WrongCode, TotpCode, RecoveryCode, UseTicket
<1>4. CASE \/ \E step \in Steps : EnableTotp(step)
           \/ \E p \in sessions : EndSession(p)
           \/ UNCHANGED vars
  BY <1>4 DEF EnableTotp, EndSession, vars
<1> QED  BY <1>1, <1>2, <1>3, <1>4 DEF Next

\* A guess that was being checked when the account was locked makes the lock
\* end no sooner: recordFailure only ever adds to a lock that runs.
THEOREM LocksRunOn == Spec => LockNeverShortened
<1>1. IInv /\ [Next]_vars => (Locked => attempts' = NoRow \/ attempts'.until >= attempts.until)
  <2> SUFFICES ASSUME IInv, [Next]_vars, Locked
               PROVE  attempts' = NoRow \/ attempts'.until >= attempts.until
    OBVIOUS
  <2>1. attempts.until \in Int
    BY DEF IInv, TypeOK
  <2> QED  BY <2>1, AttemptsStep, FailureLocksOn
<1>2. IInv /\ [Next]_vars
      => [Locked => attempts' = NoRow \/ attempts'.until >= attempts.until]_vars
  BY <1>1
<1> QED  BY <1>2, SignInIsInvariant, PTL DEF Spec, LockNeverShortened

-----------------------------------------------------------------------------
(* The second factor *)

\* Where a session on a password comes from.
LEMMA SessionsStep ==
    ASSUME [Next]_vars, NEW p \in sessions' \ sessions, p # 0, totp.state = "on"
    PROVE  \E t \in tickets : t.password = p /\ t \notin tickets'
<1> DEFINE Good == \E t \in tickets : t.password = p /\ t \notin tickets'
<1>1. CASE Tick \/ AdminClearTotp \/ ClearLockout \/ StartEnrolment \/ PutChallenge
  BY <1>1 DEF Tick, AdminClearTotp, SwitchOff, ClearLockout, StartEnrolment, PutChallenge
<1>2. ASSUME NEW r \in Requests,
             \/ \E guess \in {0, password} : BeginPassword(r, guess)
             \/ \E keep \in sessions : BeginChange(r, keep)
             \/ \E for \in {"codes", "disable"} : BeginConfirm(r, for)
             \/ \E c \in challenges : BeginPasskey(r, c)
             \/ WrongPassword(r) \/ RightPassword(r) \/ FinishPasskey(r)
             \/ RenewCodes(r) \/ DisableTotp(r)
             \/ SetPassword(r) \/ SweepSessions(r) \/ Refuse(r)
      PROVE  Good
  <2>1. CASE RightPassword(r)
    BY <2>1 DEF RightPassword, FactorAsked
  <2>2. CASE FinishPasskey(r) \/ SweepSessions(r)
    BY <2>2 DEF FinishPasskey, SweepSessions
  <2>3. CASE UNCHANGED sessions
    BY <2>3
  <2>4. RightPassword(r) \/ FinishPasskey(r) \/ SweepSessions(r) \/ UNCHANGED sessions
    BY <1>2 DEF BeginPassword, BeginChange, BeginConfirm, BeginPasskey, WrongPassword,
       RenewCodes, DisableTotp, SwitchOff, SetPassword, Refuse
  <2> QED  BY <2>1, <2>2, <2>3, <2>4
<1>3. ASSUME NEW t \in tickets,
             \/ DropTicket(t) \/ WrongCode(t)
             \/ \E step \in Steps : TotpCode(t, step)
             \/ \E c \in codes : RecoveryCode(t, c)
      PROVE  Good
  <2>1. ASSUME NEW ps, UseTicket(t, ps) PROVE Good
    BY <2>1 DEF UseTicket
  <2>2. CASE UNCHANGED sessions
    BY <2>2
  <2>3. UNCHANGED sessions \/ \E ps : UseTicket(t, ps)
    BY <1>3 DEF DropTicket, WrongCode, TotpCode, RecoveryCode
  <2> QED  BY <2>1, <2>2, <2>3
<1>4. CASE \/ \E step \in Steps : EnableTotp(step)
           \/ \E q \in sessions : EndSession(q)
           \/ UNCHANGED vars
  BY <1>4 DEF EnableTotp, EndSession, vars
<1> QED  BY <1>1, <1>2, <1>3, <1>4 DEF Next

\* While the second factor is on, a session on a password is opened with a
\* ticket only, also when the factor came on while the password was compared.
THEOREM SecondFactorIsAsked == Spec => SecondFactorHolds
<1>1. [Next]_vars =>
         [\A p \in sessions' \ sessions :
             p # 0 /\ totp.state = "on" => \E t \in tickets : t.password = p /\ t \notin tickets']_vars
  BY SessionsStep
<1> QED  BY <1>1, PTL DEF Spec, SecondFactorHolds

===============================================================================
