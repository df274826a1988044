------------------------------ MODULE Accounts ------------------------------
(***************************************************************************)
(* Who has an account, what it may do, and whose session is good for what: *)
(* first-run setup, sign-in, automatic sign-in of a console, the gate of   *)
(* pending actions (auth/routes, auth/plugin, auth/pending, auth/autologin)*)
(* and user management (admin/routes), over db/users and db/sessions.      *)
(*                                                                         *)
(* Nothing keeps two handlers apart.  A request looks up its session and   *)
(* the account's role when its header arrives, and its handler runs when   *)
(* its body has: Arrive, then one of the handlers.  Where a handler awaits *)
(* (hashing, the breach list, smbpasswd) other handlers run in between.    *)
(*                                                                         *)
(* Sessions are told apart by how they came to be, not counted: "opened"   *)
(* by a sign-in of an account that was not disabled, "late" by a sign-in   *)
(* that finished after its account had been disabled, "autologin".  How a  *)
(* password, code or passkey is proved is SignIn's subject.                *)
(*                                                                         *)
(* Importing a configuration overrules what all of this takes care of, so  *)
(* Spec is the system in which none is imported, ImportSpec the one in     *)
(* which they are.                                                         *)
(***************************************************************************)
EXTENDS Naturals

CONSTANTS
    Users,      \* the accounts there can ever be: ids are never used again
    Devices,    \* those whose owner has an authenticator and a passkey to enrol
    Requests,   \* requests that may be in flight at once
    None        \* no account

ASSUME AccountsAssumption == None \notin Users /\ Devices \subseteq Users

VARIABLES
    live,        \* accounts with a row
    gone,        \* accounts that have been deleted
    admins, disabled, mustChange, twoFactor, keyed, \* flags of the rows; keyed: has a passkey
    requirePasskey,  \* the policy: every account must carry a passkey
    autologin,   \* the setting: [enabled, user], its networks not empty when enabled
    sessions,    \* account -> kinds of sessions it has
    codes,       \* accounts for which the identity provider holds a code
    requests     \* what each request in flight has read, and awaits

flags == <<admins, disabled, mustChange, twoFactor, keyed>>
besides == <<requirePasskey, autologin, codes>>
vars == <<live, gone, flags, besides, sessions, requests>>

Kinds == {"opened", "late", "autologin"}
Idle == [stage |-> "idle"]

Arrived == [stage: {"arrived"}, actor: Users, via: Kinds, admin: BOOLEAN]
Awaiting ==
    [stage: {"hashing"}]                                   \* setup, before its row
    \cup [stage: {"greeting"}, target: Users]              \* setup, after its row
    \cup [stage: {"checking"}, target: Users, disabled: BOOLEAN]
    \cup [stage: {"creating"}]
    \cup [stage: {"resetting"}, target: Users]
    \cup [stage: {"changing"}, target: Users, via: Kinds]
    \cup [stage: {"confirming"}, target: Users]            \* two factors off

TypeOK ==
    /\ live \subseteq Users /\ gone \subseteq Users /\ live \cap gone = {}
    /\ admins \subseteq live /\ disabled \subseteq live /\ mustChange \subseteq live
    /\ twoFactor \subseteq live /\ keyed \subseteq live
    /\ requirePasskey \in BOOLEAN
    /\ autologin \in [enabled: BOOLEAN, user: Users \cup {None}]
    /\ sessions \in [Users -> SUBSET Kinds]
    /\ codes \subseteq Users
    /\ requests \in [Requests -> {Idle} \cup Arrived \cup Awaiting]

-----------------------------------------------------------------------------
\* Accounts that can still administer, and those among them other than u.
ActiveAdmins == admins \ disabled
OtherAdminRows(u) == admins \ {u}   \* mutant: counts the disabled ones
OtherAdmins(u) == ActiveAdmins \ {u}

\* What keeps an account at the gate: read from the database at each request.
Pending(u) == u \in mustChange \/ (requirePasskey /\ u \notin keyed)

\* mustChange after the flag is set or cleared: an update touches no row of an
\* account that has been deleted meanwhile.
Mark(u, temporary) ==
    IF temporary THEN mustChange \cup ({u} \cap live) ELSE mustChange \ {u}

\* sessions after those of a disabled account, or all automatic ones, are ended.
KickNobody(u, off) == sessions       \* mutant
Kick(u, off) == IF off = "yes" THEN [sessions EXCEPT ![u] = {}] ELSE sessions
KeepAutologin == sessions            \* mutant
DropAutologin == [x \in Users |-> sessions[x] \ {"autologin"}]

Open(u, kind) == sessions' = [sessions EXCEPT ![u] = @ \cup {kind}]
SignInKind(u) == IF u \in disabled THEN "late" ELSE "opened"

Done(r) == requests' = [requests EXCEPT ![r] = Idle]
Await(r, what) == requests' = [requests EXCEPT ![r] = what]

NewRow(u, isAdmin, temporary) ==
    /\ u \notin live \cup gone
    /\ live' = live \cup {u}
    /\ admins' = IF isAdmin THEN admins \cup {u} ELSE admins
    /\ mustChange' = IF temporary THEN mustChange \cup {u} ELSE mustChange
    /\ UNCHANGED <<gone, disabled, twoFactor, keyed>>

-----------------------------------------------------------------------------
\* First-run setup: refused once there is an account, by a count read before
\* the password is screened and hashed.
BeginSetup(r) ==
    /\ requests[r] = Idle /\ live = {}
    /\ Await(r, [stage |-> "hashing"])
    /\ UNCHANGED <<live, gone, flags, besides, sessions>>

CreateFirst(r, u) ==
    /\ requests[r].stage = "hashing"
    /\ NewRow(u, TRUE, FALSE)
    /\ Await(r, [stage |-> "greeting", target |-> u])
    /\ UNCHANGED <<besides, sessions>>

FinishSetup(r) ==
    LET u == requests[r].target
    IN  /\ requests[r].stage = "greeting"
        /\ IF u \in live THEN Open(u, SignInKind(u)) ELSE UNCHANGED sessions
        /\ Done(r)
        /\ UNCHANGED <<live, gone, flags, besides>>

\* A password sign-in reads the row, and awaits the hash. A right password then
\* opens a session, or hands out a ticket if the account has two factors by now.
BeginPassword(r, u) ==
    /\ requests[r] = Idle /\ u \in live
    /\ Await(r, [stage |-> "checking", target |-> u, disabled |-> u \in disabled])
    /\ UNCHANGED <<live, gone, flags, besides, sessions>>

FinishPassword(r) ==
    LET u == requests[r].target
    IN  /\ requests[r].stage = "checking"
        /\ IF ~requests[r].disabled /\ u \in live \ twoFactor
           THEN Open(u, SignInKind(u)) ELSE UNCHANGED sessions
        /\ Done(r)
        /\ UNCHANGED <<live, gone, flags, besides>>

\* A code, a passkey or the identity provider: each reads the account again when
\* it has its proof.
SignInFresh(u) ==
    /\ u \in live \ disabled
    /\ Open(u, "opened")
    /\ UNCHANGED <<live, gone, flags, besides, requests>>

\* An identity that is not linked yet gets an account; the first one administers.
ProvisionSso(u) ==
    /\ NewRow(u, live = {}, FALSE)
    /\ Open(u, "opened")
    /\ UNCHANGED <<besides, requests>>

\* GET /me without a session, from one of the console's networks.
ConsoleSignIn ==
    LET u == autologin.user
    IN  /\ autologin.enabled
        /\ u \in live \ (admins \cup disabled \cup mustChange)
        /\ Open(u, "autologin")
        /\ UNCHANGED <<live, gone, flags, besides, requests>>

-----------------------------------------------------------------------------
\* Logout, expiry, or a session revoked from the list of them.
EndSession(u, kind) ==
    /\ kind \in sessions[u]
    /\ sessions' = [sessions EXCEPT ![u] = @ \ {kind}]
    /\ UNCHANGED <<live, gone, flags, besides, requests>>

\* onRequest: the session and the account, as they are when the header arrives.
\* A console's session is dropped by a request from elsewhere: EndSession.
Arrive(r, u, kind) ==
    /\ requests[r] = Idle /\ kind \in sessions[u]
    /\ kind = "autologin" => autologin.enabled
    /\ Await(r, [stage |-> "arrived", actor |-> u, via |-> kind, admin |-> u \in admins])
    /\ UNCHANGED <<live, gone, flags, besides, sessions>>

\* Any of the handlers answers with an error, or fails.
Refuse(r) ==
    /\ requests[r] # Idle
    /\ Done(r)
    /\ UNCHANGED <<live, gone, flags, besides, sessions>>

\* The hooks in front of a handler under /api: pendingGate, which asks the
\* database again, then requireAdmin, which looks at what arrived.
MayCallUngated(r) == requests[r].stage = "arrived"   \* mutant: only a banner
MayCall(r) == requests[r].stage = "arrived" /\ ~Pending(requests[r].actor)
MayAdminister(r) == MayCall(r) /\ requests[r].admin

PatchUser(r, u, role, off) ==
    LET demoting == role = "user" \/ off = "yes"
    IN  /\ MayAdminister(r) /\ u \in live
        /\ ~(u \in admins /\ demoting /\ OtherAdmins(u) = {})
        /\ ~(requests[r].actor = u /\ off = "yes")
        /\ admins' = CASE role = "admin" -> admins \cup {u}
                       [] role = "user" -> admins \ {u}
                       [] OTHER -> admins
        /\ disabled' = CASE off = "yes" -> disabled \cup {u}
                         [] off = "no" -> disabled \ {u}
                         [] OTHER -> disabled
        /\ sessions' = Kick(u, off)
        /\ Done(r)
        /\ UNCHANGED <<live, gone, mustChange, twoFactor, keyed, besides>>

DeleteUser(r, u) ==
    /\ MayAdminister(r) /\ u \in live /\ u # requests[r].actor
    /\ ~(u \in admins /\ OtherAdmins(u) = {})
    /\ live' = live \ {u} /\ gone' = gone \cup {u}
    /\ admins' = admins \ {u} /\ disabled' = disabled \ {u}
    /\ mustChange' = mustChange \ {u} /\ twoFactor' = twoFactor \ {u}
    /\ keyed' = keyed \ {u}
    /\ sessions' = [sessions EXCEPT ![u] = {}]   \* ON DELETE CASCADE
    /\ Done(r)
    /\ UNCHANGED besides

BeginCreate(r) ==
    /\ MayAdminister(r)
    /\ Await(r, [stage |-> "creating"])
    /\ UNCHANGED <<live, gone, flags, besides, sessions>>

CreateUser(r, u, isAdmin, temporary) ==
    /\ requests[r].stage = "creating"
    /\ NewRow(u, isAdmin, temporary)
    /\ Done(r)
    /\ UNCHANGED <<besides, sessions>>

BeginReset(r, u) ==
    /\ MayAdminister(r) /\ u \in live
    /\ Await(r, [stage |-> "resetting", target |-> u])
    /\ UNCHANGED <<live, gone, flags, besides, sessions>>

ResetPassword(r, temporary) ==
    LET u == requests[r].target
    IN  /\ requests[r].stage = "resetting"
        /\ mustChange' = Mark(u, temporary)
        /\ Done(r)
        /\ UNCHANGED <<live, gone, admins, disabled, twoFactor, keyed, besides, sessions>>

ClearTwoFactor(r, u) ==
    /\ MayAdminister(r) /\ u \in twoFactor
    /\ twoFactor' = twoFactor \ {u}
    /\ Done(r)
    /\ UNCHANGED <<live, gone, admins, disabled, mustChange, keyed, besides, sessions>>

AutologinIneligible(u) == u \in admins \cup disabled \cup twoFactor \cup mustChange

PutAutologin(r, enabled, u) ==
    /\ MayAdminister(r)
    /\ enabled => u \in live /\ ~AutologinIneligible(u)
    /\ autologin' = [enabled |-> enabled, user |-> u]
    /\ sessions' = DropAutologin
    /\ Done(r)
    /\ UNCHANGED <<live, gone, flags, requirePasskey, codes>>

PutPolicy(r, required) ==
    /\ MayAdminister(r)
    /\ required => requests[r].actor \in keyed
    /\ requirePasskey' = required
    /\ Done(r)
    /\ UNCHANGED <<live, gone, flags, autologin, codes, sessions>>

-----------------------------------------------------------------------------
\* What an account does to itself. The gate lets the first three through: they
\* are how it is opened.
BeginChange(r) ==
    LET a == requests[r]
    IN  /\ a.stage = "arrived"
        /\ Await(r, [stage |-> "changing", target |-> a.actor, via |-> a.via])
        /\ UNCHANGED <<live, gone, flags, besides, sessions>>

\* The other sessions of the account go, whatever opened them.
ChangePassword(r) ==
    LET u == requests[r].target
    IN  /\ requests[r].stage = "changing"
        /\ mustChange' = Mark(u, FALSE)
        /\ sessions' = [sessions EXCEPT ![u] = @ \cap {requests[r].via}]
        /\ Done(r)
        /\ UNCHANGED <<live, gone, admins, disabled, twoFactor, keyed, besides>>

SetPasskey(r, have) ==
    LET u == requests[r].actor
    IN  /\ requests[r].stage = "arrived" /\ u \in live
        /\ have => u \in Devices
        /\ keyed' = IF have THEN keyed \cup {u} ELSE keyed \ {u}
        /\ Done(r)
        /\ UNCHANGED <<live, gone, admins, disabled, mustChange, twoFactor, besides, sessions>>

EnableTwoFactor(r) ==
    LET u == requests[r].actor
    IN  /\ MayCall(r) /\ u \in live \cap Devices
        /\ twoFactor' = twoFactor \cup {u}
        /\ Done(r)
        /\ UNCHANGED <<live, gone, admins, disabled, mustChange, keyed, besides, sessions>>

BeginDisableTwoFactor(r) ==
    /\ MayCall(r)
    /\ Await(r, [stage |-> "confirming", target |-> requests[r].actor])
    /\ UNCHANGED <<live, gone, flags, besides, sessions>>

DisableTwoFactor(r) ==
    /\ requests[r].stage = "confirming"
    /\ twoFactor' = twoFactor \ {requests[r].target}
    /\ Done(r)
    /\ UNCHANGED <<live, gone, admins, disabled, mustChange, keyed, besides, sessions>>

-----------------------------------------------------------------------------
\* POST /oidc/authorize is not under /api, and no gate is in front of it: the
\* account says yes, and an application gets a code to sign it in with.
Authorize(r) ==
    /\ requests[r].stage = "arrived"
    /\ codes' = codes \cup {requests[r].actor}
    /\ Done(r)
    /\ UNCHANGED <<live, gone, flags, requirePasskey, autologin, sessions>>

\* Exchanged for a token, a minute old, or lost in a restart (see IdProvider).
SpendCode(u) ==
    /\ u \in codes
    /\ codes' = codes \ {u}
    /\ UNCHANGED <<live, gone, flags, requirePasskey, autologin, sessions, requests>>

-----------------------------------------------------------------------------
Init ==
    /\ live = {} /\ gone = {}
    /\ admins = {} /\ disabled = {} /\ mustChange = {} /\ twoFactor = {} /\ keyed = {}
    /\ requirePasskey = FALSE
    /\ autologin = [enabled |-> FALSE, user |-> None]
    /\ sessions = [u \in Users |-> {}] /\ codes = {}
    /\ requests = [r \in Requests |-> Idle]

Administer(r) ==
    \/ \E u \in Users :
          \/ \E role \in {"admin", "user", "as is"}, off \in {"yes", "no", "as is"} :
                PatchUser(r, u, role, off)
          \/ DeleteUser(r, u)
          \/ BeginReset(r, u) \/ ClearTwoFactor(r, u)
          \/ PutAutologin(r, TRUE, u)
    \/ PutAutologin(r, FALSE, None)
    \/ BeginCreate(r)
    \/ \E required \in BOOLEAN : PutPolicy(r, required)

Resume(r) ==
    \/ \E u \in Users : CreateFirst(r, u)
    \/ \E u \in Users, isAdmin, temporary \in BOOLEAN : CreateUser(r, u, isAdmin, temporary)
    \/ \E temporary \in BOOLEAN : ResetPassword(r, temporary)
    \/ FinishSetup(r) \/ FinishPassword(r)
    \/ ChangePassword(r) \/ DisableTwoFactor(r)

Next ==
    \/ \E r \in Requests :
          \/ BeginSetup(r) \/ Refuse(r) \/ Administer(r) \/ Resume(r)
          \/ BeginChange(r) \/ EnableTwoFactor(r) \/ BeginDisableTwoFactor(r)
          \/ Authorize(r)
          \/ \E u \in Users : BeginPassword(r, u)
          \/ \E u \in Users, kind \in Kinds : Arrive(r, u, kind)
          \/ \E have \in BOOLEAN : SetPasskey(r, have)
    \/ \E u \in Users : SignInFresh(u) \/ ProvisionSso(u) \/ SpendCode(u)
    \/ \E u \in Users, kind \in Kinds : EndSession(u, kind)
    \/ ConsoleSignIn

Spec == Init /\ [][Next]_vars

-----------------------------------------------------------------------------
\* POST /config/import. A backup, of this machine or of another, says what the
\* accounts it knows are, accounts it alone knows get a row, disabled, and the
\* settings become its own. One that has no password (from SSO, or from an
\* earlier import) is disabled whatever it says.
Backups ==
    [known: SUBSET Users, admins: SUBSET Users, disabled: SUBSET Users,
     autologin: [enabled: BOOLEAN, user: Users \cup {None}], requirePasskey: BOOLEAN]

ImportConfig(r, b) ==
    LET here == b.known \cap live
        fresh == b.known \ live
    IN  /\ MayAdminister(r) /\ fresh \cap gone = {}
        /\ live' = live \cup fresh
        /\ admins' = (admins \ here) \cup (b.admins \cap b.known)
        /\ \E unusable \in SUBSET here :      \* has no password
              disabled' = (disabled \ here) \cup (b.disabled \cap here) \cup unusable \cup fresh
        /\ autologin' = b.autologin /\ requirePasskey' = b.requirePasskey
        /\ Done(r)
        /\ UNCHANGED <<gone, mustChange, twoFactor, keyed, codes, sessions>>

\* The same system, in which a configuration may also be imported.
ImportNext == Next \/ \E r \in Requests, b \in Backups : ImportConfig(r, b)
ImportSpec == Init /\ [][ImportNext]_vars

-----------------------------------------------------------------------------
\* Once there is an account, there is always an administrator who is not
\* disabled: demotions, disablings and deletions that look at the other
\* administrators (countAdmins) do so in the step that changes the row, whoever
\* asked and whatever was in flight. ROADMAP.md:31 has it without condition
\* ("Checks that prevent removing or disabling the last administrator"), but an
\* import looks at nobody.
ActiveAdminRemains == live # {} => ActiveAdmins # {}

\* Disabling an account ends its sessions, and every way in asks afresh, except
\* for a sign-in that was awaiting when the account was disabled: its session is
\* the only one a disabled account can have.
DisabledSessionsAreLate == \A u \in disabled : sessions[u] \subseteq {"late"}

\* A session nobody had to prove anything for belongs to the account the setting
\* names: changing the setting throws away every one granted under the old one.
AutologinAsConfigured ==
    \A u \in Users : "autologin" \in sessions[u] => autologin.enabled /\ autologin.user = u

\* A request of an account with something pending (a temporary password, a
\* passkey the policy wants) clears that, gets a code in its own name from the
\* identity provider, whose routes are outside the gate, or does nothing, even
\* when it became pending after the request's session had been looked up.
GateHolds ==
    [][\A r \in Requests :
          /\ requests[r].stage = "arrived" /\ Pending(requests[r].actor)
          /\ requests'[r] # requests[r]
          => /\ requests'[r].stage \in {"idle", "changing"}
             /\ UNCHANGED <<live, gone, admins, disabled, mustChange, twoFactor,
                            requirePasskey, autologin, sessions>>
             /\ \A u \in Users \ {requests[r].actor} :
                   (u \in keyed' <=> u \in keyed) /\ (u \in codes' <=> u \in codes)]_vars

=============================================================================
