--------------------------- MODULE AccountsProofs ---------------------------
(***************************************************************************)
(* Proofs about Accounts, for any accounts and any number of requests in   *)
(* flight: an administrator remains, a disabled account's or a console's   *)
(* sessions are what they should be, and an account with something pending *)
(* gets past no gate, which the identity provider is not behind.           *)
(*                                                                         *)
(* The last administrator cannot be taken by a step that looks at the      *)
(* others, so what is left is how accounts come to be: a row that is not   *)
(* an administrator's is only written when there is an account already,    *)
(* because a request that creates one was sent by one (CallersExist), and  *)
(* only an account with a row has a session to send it with.               *)
(***************************************************************************)
EXTENDS Accounts, TLAPS

SessionsHaveRows == \A u \in Users : sessions[u] # {} => u \in live

CallersExist == \A r \in Requests : requests[r].stage \in {"arrived", "creating"} => live # {}

IInv ==
    /\ TypeOK
    /\ ActiveAdminRemains
    /\ DisabledSessionsAreLate
    /\ AutologinAsConfigured
    /\ SessionsHaveRows
    /\ CallersExist

-----------------------------------------------------------------------------
\* What a request in flight carries, by its stage.
LEMMA Carried ==
    ASSUME TypeOK, NEW r \in Requests
    PROVE  /\ requests[r].stage = "arrived" => requests[r] \in Arrived
           /\ requests[r].stage = "arrived" =>
                 requests[r].actor \in Users /\ requests[r].via \in Kinds
           /\ requests[r].stage \in {"greeting", "checking", "resetting", "changing", "confirming"}
                 => requests[r].target \in Users
           /\ requests[r].stage = "changing" => requests[r].via \in Kinds
    BY DEF TypeOK, Idle, Arrived, Awaiting

\* Every change of one request keeps the others, and keeps them typed.
LEMMA DoneTyped ==
    ASSUME TypeOK, NEW r \in Requests, Done(r)
    PROVE  /\ requests' \in [Requests -> {Idle} \cup Arrived \cup Awaiting]
           /\ requests'[r] = Idle
           /\ \A q \in Requests \ {r} : requests'[q] = requests[q]
    BY DEF TypeOK, Done

LEMMA AwaitTyped ==
    ASSUME TypeOK, NEW r \in Requests, NEW what \in Arrived \cup Awaiting, Await(r, what)
    PROVE  /\ requests' \in [Requests -> {Idle} \cup Arrived \cup Awaiting]
           /\ requests'[r] = what
           /\ \A q \in Requests \ {r} : requests'[q] = requests[q]
    BY DEF TypeOK, Await

\* The first accounts are administrators, and a new row disturbs nobody else's.
LEMMA NewRowKeeps ==
    ASSUME IInv, NEW u \in Users, NEW isAdmin \in BOOLEAN, NEW temporary \in BOOLEAN,
           NewRow(u, isAdmin, temporary), isAdmin \/ live # {}
    PROVE  /\ live' \subseteq Users /\ gone' \subseteq Users /\ live' \cap gone' = {}
           /\ admins' \subseteq live' /\ disabled' \subseteq live' /\ mustChange' \subseteq live'
           /\ twoFactor' \subseteq live' /\ keyed' \subseteq live'
           /\ ActiveAdminRemains'
           /\ live \subseteq live' /\ u \in live' /\ disabled' = disabled /\ u \notin disabled
    BY DEF IInv, TypeOK, NewRow, ActiveAdminRemains, ActiveAdmins

\* A step that leaves the rows alone keeps what is said of them.
LEMMA RowsKept ==
    ASSUME IInv, UNCHANGED <<live, gone, flags>>
    PROVE  /\ live' \subseteq Users /\ gone' \subseteq Users /\ live' \cap gone' = {}
           /\ admins' \subseteq live' /\ disabled' \subseteq live' /\ mustChange' \subseteq live'
           /\ twoFactor' \subseteq live' /\ keyed' \subseteq live'
           /\ ActiveAdminRemains'
    BY DEF IInv, TypeOK, flags, ActiveAdminRemains, ActiveAdmins

\* Opening a session of an account with a row.
LEMMA OpenKeeps ==
    ASSUME IInv, NEW u \in Users, NEW kind \in Kinds, Open(u, kind),
           kind = "autologin" => autologin.enabled /\ autologin.user = u,
           u \in disabled => kind = "late",
           disabled' = disabled, autologin' = autologin, live \subseteq live', u \in live'
    PROVE  /\ sessions' \in [Users -> SUBSET Kinds]
           /\ DisabledSessionsAreLate' /\ AutologinAsConfigured' /\ SessionsHaveRows'
<1>1. /\ sessions' \in [Users -> SUBSET Kinds]
      /\ sessions'[u] = sessions[u] \cup {kind}
      /\ \A x \in Users \ {u} : sessions'[x] = sessions[x]
    BY DEF IInv, TypeOK, Open
<1>2. disabled \subseteq Users
    BY DEF IInv, TypeOK
<1>. QED
    BY <1>1, <1>2 DEF IInv, DisabledSessionsAreLate, AutologinAsConfigured, SessionsHaveRows, Kinds

\* A step that only takes sessions away, of accounts that keep their rows.
LEMMA FewerSessions ==
    ASSUME IInv, sessions' \in [Users -> SUBSET Kinds],
           \A u \in Users : sessions'[u] \subseteq sessions[u],
           disabled' \subseteq disabled, autologin' = autologin, live \subseteq live'
    PROVE  DisabledSessionsAreLate' /\ AutologinAsConfigured' /\ SessionsHaveRows'
<1>1. disabled \subseteq Users
    BY DEF IInv, TypeOK
<1>. QED
    BY <1>1 DEF IInv, TypeOK, DisabledSessionsAreLate, AutologinAsConfigured, SessionsHaveRows

\* A step of one request, or of none.
LEMMA CallersKept ==
    ASSUME IInv, NEW r \in Requests, live # {} => live' # {},
           \A q \in Requests \ {r} : requests'[q] = requests[q],
           requests'[r].stage \in {"arrived", "creating"} => live # {}
    PROVE  CallersExist'
    BY DEF IInv, CallersExist

LEMMA CallersUnmoved ==
    ASSUME IInv, live # {} => live' # {}, requests' = requests
    PROVE  CallersExist'
    BY DEF IInv, CallersExist

\* A request that starts or goes on to await, and changes nothing else.
LEMMA AwaitKeeps ==
    ASSUME IInv, NEW r \in Requests, NEW what \in Arrived \cup Awaiting, Await(r, what),
           what.stage \in {"arrived", "creating"} => live # {},
           UNCHANGED <<live, gone, flags, besides, sessions>>
    PROVE  IInv'
<1>1. TypeOK
    BY DEF IInv
<1>2. CallersExist'
    BY <1>1, AwaitTyped, CallersKept
<1>3. sessions' \in [Users -> SUBSET Kinds] /\ disabled' = disabled /\ autologin' = autologin
    BY <1>1 DEF TypeOK, flags, besides
<1>4. DisabledSessionsAreLate' /\ AutologinAsConfigured' /\ SessionsHaveRows'
    BY <1>3, FewerSessions
<1>5. TypeOK' /\ ActiveAdminRemains'
    BY <1>1, <1>3, RowsKept, AwaitTyped DEF TypeOK, besides
<1>. QED
    BY <1>2, <1>4, <1>5 DEF IInv

\* A request that ends, having opened a session or none.
LEMMA SignInKeeps ==
    ASSUME IInv, NEW r \in Requests, NEW u \in Users, Done(r),
           \/ u \in live /\ Open(u, SignInKind(u))
           \/ UNCHANGED sessions,
           UNCHANGED <<live, gone, flags, besides>>
    PROVE  IInv'
<1>1. TypeOK
    BY DEF IInv
<1>2. CallersExist'
    BY <1>1, DoneTyped, CallersKept DEF Idle
<1>3. disabled' = disabled /\ autologin' = autologin
    BY DEF flags, besides
<1>4. /\ sessions' \in [Users -> SUBSET Kinds]
      /\ DisabledSessionsAreLate' /\ AutologinAsConfigured' /\ SessionsHaveRows'
  <2>1. CASE u \in live /\ Open(u, SignInKind(u))
    <3>1. SignInKind(u) \in Kinds /\ SignInKind(u) # "autologin"
          /\ (u \in disabled => SignInKind(u) = "late")
        BY DEF SignInKind, Kinds
    <3>. QED
        BY <1>3, <2>1, <3>1, OpenKeeps
  <2>2. CASE UNCHANGED sessions
      BY <1>1, <1>3, <2>2, FewerSessions DEF TypeOK
  <2>. QED
      BY <2>1, <2>2
<1>5. TypeOK' /\ ActiveAdminRemains'
    BY <1>1, <1>4, RowsKept, DoneTyped DEF TypeOK, besides
<1>. QED
    BY <1>2, <1>4, <1>5 DEF IInv

-----------------------------------------------------------------------------
\* No account at all.
LEMMA InitInv == Init => IInv
<1>. SUFFICES ASSUME Init PROVE IInv
    OBVIOUS
<1>1. /\ {} \subseteq Users /\ autologin \in [enabled: BOOLEAN, user: Users \cup {None}]
      /\ sessions \in [Users -> SUBSET Kinds]
      /\ requests \in [Requests -> {Idle} \cup Arrived \cup Awaiting]
    BY DEF Init
<1>2. TypeOK
    BY <1>1 DEF Init, TypeOK
<1>3. \A u \in Users : sessions[u] = {}
    BY DEF Init
<1>4. \A r \in Requests : requests[r].stage = "idle"
    BY DEF Init, Idle
<1>5. ActiveAdminRemains /\ DisabledSessionsAreLate
    BY DEF Init, ActiveAdminRemains, DisabledSessionsAreLate
<1>. QED
    BY <1>2, <1>3, <1>4, <1>5 DEF IInv, AutologinAsConfigured, SessionsHaveRows, CallersExist

\* Flags nobody's session or administration depends on.
LEMMA FlagsKeep ==
    ASSUME IInv, NEW r \in Requests, Done(r),
           mustChange' \subseteq live, twoFactor' \subseteq live, keyed' \subseteq live,
           requirePasskey' \in BOOLEAN, sessions' \in [Users -> SUBSET Kinds],
           \A u \in Users : sessions'[u] \subseteq sessions[u],
           codes' \subseteq Users, UNCHANGED <<live, gone, admins, disabled, autologin>>
    PROVE  IInv'
<1>1. TypeOK
    BY DEF IInv
<1>2. CallersExist'
    BY <1>1, DoneTyped, CallersKept DEF Idle
<1>3. DisabledSessionsAreLate' /\ AutologinAsConfigured' /\ SessionsHaveRows'
    BY FewerSessions
<1>4. ActiveAdminRemains'
    BY DEF IInv, ActiveAdminRemains, ActiveAdmins
<1>5. TypeOK'
    BY <1>1, DoneTyped DEF TypeOK
<1>. QED
    BY <1>2, <1>3, <1>4, <1>5 DEF IInv

-----------------------------------------------------------------------------
LEMMA NextInv == IInv /\ [Next]_vars => IInv'
<1>. SUFFICES ASSUME IInv, [Next]_vars PROVE IInv'
    OBVIOUS
<1>0. TypeOK /\ "opened" \in Kinds /\ "autologin" \in Kinds
    BY DEF IInv, Kinds
<1>1. ASSUME NEW r \in Requests, BeginSetup(r) PROVE IInv'
    BY <1>1, AwaitKeeps DEF BeginSetup, Awaiting
<1>2. ASSUME NEW r \in Requests, NEW u \in Users, CreateFirst(r, u) PROVE IInv'
  <2>1. [stage |-> "greeting", target |-> u] \in Awaiting
        /\ NewRow(u, TRUE, FALSE) /\ Await(r, [stage |-> "greeting", target |-> u])
        /\ UNCHANGED <<besides, sessions>>
      BY <1>2 DEF CreateFirst, Awaiting
  <2>2. CallersExist'
    <3>1. live \subseteq live'
        BY <2>1, NewRowKeeps
    <3>2. requests'[r].stage = "greeting" /\ \A q \in Requests \ {r} : requests'[q] = requests[q]
        BY <1>0, <2>1, AwaitTyped
    <3>. QED
        BY <3>1, <3>2, CallersKept
  <2>3. DisabledSessionsAreLate' /\ AutologinAsConfigured' /\ SessionsHaveRows'
      BY <1>0, <2>1, NewRowKeeps, FewerSessions DEF TypeOK, besides
  <2>4. TypeOK' /\ ActiveAdminRemains'
      BY <1>0, <2>1, AwaitTyped, NewRowKeeps DEF TypeOK, besides
  <2>. QED
      BY <2>2, <2>3, <2>4 DEF IInv
<1>3. ASSUME NEW r \in Requests, FinishSetup(r) PROVE IInv'
    BY <1>0, <1>3, Carried, SignInKeeps DEF FinishSetup
<1>4. ASSUME NEW r \in Requests, NEW u \in Users, BeginPassword(r, u) PROVE IInv'
  <2>1. [stage |-> "checking", target |-> u, disabled |-> u \in disabled] \in Awaiting
      BY DEF Awaiting
  <2>. QED
      BY <1>4, <2>1, AwaitKeeps DEF BeginPassword
<1>5. ASSUME NEW r \in Requests, FinishPassword(r) PROVE IInv'
    BY <1>0, <1>5, Carried, SignInKeeps DEF FinishPassword
<1>6. ASSUME NEW u \in Users, SignInFresh(u) PROVE IInv'
  <2>1. live' = live /\ disabled' = disabled /\ autologin' = autologin /\ requests' = requests
        /\ u \in live /\ u \notin disabled /\ Open(u, "opened")
      BY <1>6 DEF SignInFresh, flags, besides
  <2>2. /\ sessions' \in [Users -> SUBSET Kinds]
        /\ DisabledSessionsAreLate' /\ AutologinAsConfigured' /\ SessionsHaveRows'
      BY <1>0, <2>1, OpenKeeps
  <2>3. CallersExist'
      BY <2>1, CallersUnmoved
  <2>4. TypeOK' /\ ActiveAdminRemains'
      BY <1>0, <1>6, <2>1, <2>2, RowsKept DEF TypeOK, SignInFresh, besides
  <2>. QED
      BY <2>2, <2>3, <2>4 DEF IInv
<1>7. ASSUME NEW u \in Users, ProvisionSso(u) PROVE IInv'
  <2>1. /\ NewRow(u, live = {}, FALSE) /\ Open(u, "opened") /\ requests' = requests
        /\ requirePasskey' = requirePasskey /\ autologin' = autologin /\ codes' = codes
        /\ (live = {}) \in BOOLEAN /\ ((live = {}) \/ live # {})
      BY <1>7 DEF ProvisionSso, besides
  <2>2. /\ live' \subseteq Users /\ gone' \subseteq Users /\ live' \cap gone' = {}
        /\ admins' \subseteq live' /\ disabled' \subseteq live' /\ mustChange' \subseteq live'
        /\ twoFactor' \subseteq live' /\ keyed' \subseteq live'
        /\ ActiveAdminRemains'
        /\ live \subseteq live' /\ u \in live' /\ disabled' = disabled /\ u \notin disabled
      BY <2>1, NewRowKeeps
  <2>3. /\ sessions' \in [Users -> SUBSET Kinds]
        /\ DisabledSessionsAreLate' /\ AutologinAsConfigured' /\ SessionsHaveRows'
      BY <1>0, <2>1, <2>2, OpenKeeps
  <2>4. CallersExist'
      BY <2>1, <2>2, CallersUnmoved
  <2>5. TypeOK'
      BY <1>0, <2>1, <2>2, <2>3 DEF TypeOK
  <2>. QED
      BY <2>2, <2>3, <2>4, <2>5 DEF IInv
<1>8. ASSUME ConsoleSignIn PROVE IInv'
  <2>. DEFINE u == autologin.user
  <2>1. /\ live' = live /\ disabled' = disabled /\ autologin' = autologin /\ requests' = requests
        /\ u \in live /\ u \in Users /\ u \notin disabled /\ Open(u, "autologin")
        /\ autologin.enabled
      BY <1>0, <1>8 DEF ConsoleSignIn, flags, besides, TypeOK
  <2>2. /\ sessions' \in [Users -> SUBSET Kinds]
        /\ DisabledSessionsAreLate' /\ AutologinAsConfigured' /\ SessionsHaveRows'
      BY <1>0, <2>1, OpenKeeps
  <2>3. CallersExist'
      BY <2>1, CallersUnmoved
  <2>4. TypeOK' /\ ActiveAdminRemains'
      BY <1>0, <1>8, <2>1, <2>2, RowsKept DEF TypeOK, ConsoleSignIn, besides
  <2>. QED
      BY <2>2, <2>3, <2>4 DEF IInv
<1>9. ASSUME NEW u \in Users, NEW kind \in Kinds, EndSession(u, kind) PROVE IInv'
  <2>1. /\ live' = live /\ disabled' = disabled /\ autologin' = autologin /\ requests' = requests
        /\ sessions' \in [Users -> SUBSET Kinds]
        /\ \A x \in Users : sessions'[x] \subseteq sessions[x]
      BY <1>0, <1>9 DEF EndSession, flags, besides, TypeOK
  <2>2. DisabledSessionsAreLate' /\ AutologinAsConfigured' /\ SessionsHaveRows'
      BY <2>1, FewerSessions
  <2>3. CallersExist'
      BY <2>1, CallersUnmoved
  <2>4. TypeOK' /\ ActiveAdminRemains'
      BY <1>0, <1>9, <2>1, RowsKept DEF TypeOK, EndSession, besides
  <2>. QED
      BY <2>2, <2>3, <2>4 DEF IInv
<1>10. ASSUME NEW r \in Requests, NEW u \in Users, NEW kind \in Kinds, Arrive(r, u, kind)
       PROVE  IInv'
  <2>1. [stage |-> "arrived", actor |-> u, via |-> kind, admin |-> u \in admins] \in Arrived
      BY DEF Arrived
  <2>2. live # {}
      BY <1>10 DEF Arrive, IInv, SessionsHaveRows
  <2>. QED
      BY <1>10, <2>1, <2>2, AwaitKeeps DEF Arrive
<1>11. ASSUME NEW r \in Requests, Refuse(r) PROVE IInv'
  <2>1. \A u \in Users : sessions'[u] \subseteq sessions[u]
      BY <1>11 DEF Refuse
  <2>. QED
      BY <1>0, <1>11, <2>1, FlagsKeep DEF Refuse, flags, besides, TypeOK
<1>12. ASSUME NEW r \in Requests, NEW u \in Users,
              NEW role \in {"admin", "user", "as is"}, NEW off \in {"yes", "no", "as is"},
              PatchUser(r, u, role, off)
       PROVE  IInv'
  <2>1. /\ u \in live /\ live' = live /\ gone' = gone /\ autologin' = autologin
        /\ mustChange' = mustChange /\ twoFactor' = twoFactor /\ keyed' = keyed
        /\ requirePasskey' = requirePasskey /\ codes' = codes /\ Done(r)
        /\ sessions' = Kick(u, off)
        /\ ~(u \in admins /\ (role = "user" \/ off = "yes") /\ OtherAdmins(u) = {})
      BY <1>12 DEF PatchUser, besides
  <2>2. /\ admins' \subseteq live /\ admins \ {u} \subseteq admins'
        /\ (role # "user" => admins \subseteq admins')
        /\ disabled' \subseteq live /\ disabled' \subseteq disabled \cup {u}
        /\ (off # "yes" => disabled' \subseteq disabled)
      BY <1>0, <1>12, <2>1 DEF PatchUser, TypeOK
  <2>3. /\ sessions' \in [Users -> SUBSET Kinds]
        /\ \A x \in Users : sessions'[x] \subseteq sessions[x]
        /\ off = "yes" => sessions'[u] = {}
      BY <1>0, <2>1 DEF Kick, TypeOK
  <2>4. ActiveAdminRemains'
    <3>1. ActiveAdmins # {}
        BY <2>1 DEF IInv, ActiveAdminRemains
    <3>2. CASE role = "user" \/ off = "yes"
      <4>1. OtherAdmins(u) # {}
          BY <2>1, <3>1, <3>2 DEF ActiveAdmins, OtherAdmins
      <4>. QED
          BY <2>2, <4>1 DEF OtherAdmins, ActiveAdmins, ActiveAdminRemains
    <3>3. CASE role # "user" /\ off # "yes"
        BY <2>2, <3>1, <3>3 DEF ActiveAdmins, ActiveAdminRemains
    <3>. QED
        BY <3>2, <3>3
  <2>5. DisabledSessionsAreLate'
    <3>1. ASSUME NEW x \in disabled' PROVE sessions'[x] \subseteq {"late"}
      <4>1. x \in disabled \/ (x = u /\ off = "yes")
          BY <2>2, <3>1
      <4>. QED
          BY <1>0, <2>1, <2>3, <4>1 DEF IInv, DisabledSessionsAreLate, TypeOK
    <3>. QED
        BY <3>1 DEF DisabledSessionsAreLate
  <2>6. AutologinAsConfigured' /\ SessionsHaveRows'
      BY <2>1, <2>3 DEF IInv, AutologinAsConfigured, SessionsHaveRows
  <2>7. CallersExist'
      BY <1>0, <2>1, DoneTyped, CallersKept DEF Idle
  <2>8. TypeOK'
      BY <1>0, <2>1, <2>2, <2>3, DoneTyped DEF TypeOK
  <2>. QED
      BY <2>4, <2>5, <2>6, <2>7, <2>8 DEF IInv
<1>13. ASSUME NEW r \in Requests, NEW u \in Users, DeleteUser(r, u) PROVE IInv'
  <2>1. /\ u \in live /\ live' = live \ {u} /\ gone' = gone \cup {u}
        /\ admins' = admins \ {u} /\ disabled' = disabled \ {u}
        /\ mustChange' = mustChange \ {u} /\ twoFactor' = twoFactor \ {u}
        /\ keyed' = keyed \ {u}
        /\ requirePasskey' = requirePasskey /\ autologin' = autologin /\ codes' = codes
        /\ Done(r)
        /\ ~(u \in admins /\ OtherAdmins(u) = {})
        /\ sessions' = [sessions EXCEPT ![u] = {}]
      BY <1>13 DEF DeleteUser, besides
  <2>2. OtherAdmins(u) # {} /\ ActiveAdmins' = OtherAdmins(u)
      BY <2>1 DEF IInv, ActiveAdminRemains, OtherAdmins, ActiveAdmins
  <2>3. live' # {}
      BY <1>0, <2>1, <2>2 DEF OtherAdmins, ActiveAdmins, TypeOK
  <2>4. /\ sessions' \in [Users -> SUBSET Kinds] /\ sessions'[u] = {}
        /\ \A x \in Users \ {u} : sessions'[x] = sessions[x]
      BY <1>0, <2>1 DEF TypeOK
  <2>5. DisabledSessionsAreLate' /\ AutologinAsConfigured' /\ SessionsHaveRows'
      BY <1>0, <2>1, <2>4
         DEF IInv, TypeOK, DisabledSessionsAreLate, AutologinAsConfigured, SessionsHaveRows
  <2>6. CallersExist'
      BY <1>0, <2>1, <2>3, DoneTyped, CallersKept DEF Idle
  <2>7. TypeOK' /\ ActiveAdminRemains'
      BY <1>0, <2>1, <2>2, <2>4, DoneTyped DEF TypeOK, ActiveAdminRemains
  <2>. QED
      BY <2>5, <2>6, <2>7 DEF IInv
<1>14. ASSUME NEW r \in Requests, BeginCreate(r) PROVE IInv'
  <2>1. requests[r].stage = "arrived"
      BY <1>14 DEF BeginCreate, MayAdminister, MayCall
  <2>2. [stage |-> "creating"] \in Awaiting /\ live # {}
      BY <2>1 DEF IInv, CallersExist, Awaiting
  <2>. QED
      BY <1>14, <2>2, AwaitKeeps DEF BeginCreate
<1>15. ASSUME NEW r \in Requests, NEW u \in Users, NEW isAdmin \in BOOLEAN,
              NEW temporary \in BOOLEAN, CreateUser(r, u, isAdmin, temporary)
       PROVE  IInv'
  <2>1. /\ NewRow(u, isAdmin, temporary) /\ Done(r) /\ UNCHANGED <<besides, sessions>>
        /\ live # {}
      BY <1>15 DEF CreateUser, IInv, CallersExist
  <2>2. CallersExist'
      BY <1>0, <2>1, DoneTyped, NewRowKeeps, CallersKept DEF Idle
  <2>3. DisabledSessionsAreLate' /\ AutologinAsConfigured' /\ SessionsHaveRows'
      BY <1>0, <2>1, NewRowKeeps, FewerSessions DEF TypeOK, besides
  <2>4. TypeOK' /\ ActiveAdminRemains'
      BY <1>0, <2>1, DoneTyped, NewRowKeeps DEF TypeOK, besides
  <2>. QED
      BY <2>2, <2>3, <2>4 DEF IInv
<1>16. ASSUME NEW r \in Requests, NEW u \in Users, BeginReset(r, u) PROVE IInv'
  <2>1. [stage |-> "resetting", target |-> u] \in Awaiting
      BY DEF Awaiting
  <2>. QED
      BY <1>16, <2>1, AwaitKeeps DEF BeginReset
<1>17. ASSUME NEW r \in Requests, NEW temporary \in BOOLEAN, ResetPassword(r, temporary)
       PROVE  IInv'
  <2>1. mustChange' \subseteq live
      BY <1>0, <1>17 DEF ResetPassword, Mark, TypeOK
  <2>. QED
      BY <1>0, <1>17, <2>1, FlagsKeep DEF ResetPassword, besides, TypeOK
<1>18. ASSUME NEW r \in Requests, NEW u \in Users, ClearTwoFactor(r, u) PROVE IInv'
  <2>1. twoFactor' \subseteq live
      BY <1>0, <1>18 DEF ClearTwoFactor, TypeOK
  <2>. QED
      BY <1>0, <1>18, <2>1, FlagsKeep DEF ClearTwoFactor, besides, TypeOK
<1>19. ASSUME NEW r \in Requests, NEW enabled \in BOOLEAN, NEW u \in Users \cup {None},
              PutAutologin(r, enabled, u)
       PROVE  IInv'
  <2>1. /\ autologin' = [enabled |-> enabled, user |-> u] /\ Done(r)
        /\ sessions' = [x \in Users |-> sessions[x] \ {"autologin"}]
        /\ UNCHANGED <<live, gone, flags, requirePasskey, codes>>
      BY <1>19 DEF PutAutologin, DropAutologin
  <2>2. /\ sessions' \in [Users -> SUBSET Kinds]
        /\ \A x \in Users : sessions'[x] = sessions[x] \ {"autologin"}
        /\ disabled' = disabled /\ live' = live /\ disabled \subseteq Users
      BY <1>0, <2>1 DEF TypeOK, flags
  <2>3. DisabledSessionsAreLate' /\ AutologinAsConfigured' /\ SessionsHaveRows'
      BY <2>2 DEF IInv, DisabledSessionsAreLate, AutologinAsConfigured, SessionsHaveRows
  <2>4. CallersExist'
      BY <1>0, <2>1, <2>2, DoneTyped, CallersKept DEF Idle
  <2>5. TypeOK' /\ ActiveAdminRemains'
      BY <1>0, <2>1, <2>2, RowsKept, DoneTyped DEF TypeOK
  <2>. QED
      BY <2>3, <2>4, <2>5 DEF IInv
<1>20. ASSUME NEW r \in Requests, NEW required \in BOOLEAN, PutPolicy(r, required)
       PROVE  IInv'
    BY <1>0, <1>20, FlagsKeep DEF PutPolicy, flags, TypeOK
<1>21. ASSUME NEW r \in Requests, BeginChange(r) PROVE IInv'
  <2>1. [stage |-> "changing", target |-> requests[r].actor, via |-> requests[r].via] \in Awaiting
      BY <1>0, <1>21, Carried DEF BeginChange, Awaiting
  <2>. QED
      BY <1>21, <2>1, AwaitKeeps DEF BeginChange
<1>22. ASSUME NEW r \in Requests, ChangePassword(r) PROVE IInv'
  <2>1. mustChange' \subseteq live
      BY <1>0, <1>22 DEF ChangePassword, Mark, TypeOK
  <2>2. /\ sessions' \in [Users -> SUBSET Kinds]
        /\ \A u \in Users : sessions'[u] \subseteq sessions[u]
      BY <1>0, <1>22 DEF ChangePassword, TypeOK
  <2>. QED
      BY <1>0, <1>22, <2>1, <2>2, FlagsKeep DEF ChangePassword, besides, TypeOK
<1>23. ASSUME NEW r \in Requests, NEW have \in BOOLEAN, SetPasskey(r, have) PROVE IInv'
  <2>1. keyed' \subseteq live
      BY <1>0, <1>23 DEF SetPasskey, TypeOK
  <2>. QED
      BY <1>0, <1>23, <2>1, FlagsKeep DEF SetPasskey, besides, TypeOK
<1>24. ASSUME NEW r \in Requests, EnableTwoFactor(r) PROVE IInv'
  <2>1. twoFactor' \subseteq live
      BY <1>0, <1>24 DEF EnableTwoFactor, TypeOK
  <2>. QED
      BY <1>0, <1>24, <2>1, FlagsKeep DEF EnableTwoFactor, besides, TypeOK
<1>25. ASSUME NEW r \in Requests, BeginDisableTwoFactor(r) PROVE IInv'
  <2>1. [stage |-> "confirming", target |-> requests[r].actor] \in Awaiting
      BY <1>0, <1>25, Carried DEF BeginDisableTwoFactor, MayCall, Awaiting
  <2>. QED
      BY <1>25, <2>1, AwaitKeeps DEF BeginDisableTwoFactor
<1>26. ASSUME NEW r \in Requests, DisableTwoFactor(r) PROVE IInv'
  <2>1. twoFactor' \subseteq live
      BY <1>0, <1>26 DEF DisableTwoFactor, TypeOK
  <2>. QED
      BY <1>0, <1>26, <2>1, FlagsKeep DEF DisableTwoFactor, besides, TypeOK
<1>27. ASSUME NEW r \in Requests, Authorize(r) PROVE IInv'
  <2>1. codes' \subseteq Users
      BY <1>0, <1>27, Carried DEF Authorize, TypeOK
  <2>. QED
      BY <1>0, <1>27, <2>1, FlagsKeep DEF Authorize, flags, TypeOK
<1>28. ASSUME NEW u \in Users, SpendCode(u) PROVE IInv'
  <2>1. /\ UNCHANGED <<live, gone, flags, requirePasskey, autologin, sessions, requests>>
        /\ codes' \subseteq Users
      BY <1>0, <1>28 DEF SpendCode, TypeOK
  <2>2. DisabledSessionsAreLate' /\ AutologinAsConfigured' /\ SessionsHaveRows'
      BY <1>0, <2>1, FewerSessions DEF flags, TypeOK
  <2>3. CallersExist'
      BY <2>1, CallersUnmoved
  <2>4. TypeOK' /\ ActiveAdminRemains'
      BY <1>0, <2>1, RowsKept DEF TypeOK
  <2>. QED
      BY <2>2, <2>3, <2>4 DEF IInv
<1>29. ASSUME UNCHANGED vars PROVE IInv'
    BY <1>29 DEF IInv, vars, flags, besides, TypeOK, ActiveAdminRemains, ActiveAdmins,
       DisabledSessionsAreLate, AutologinAsConfigured, SessionsHaveRows, CallersExist
<1>. QED
    BY <1>1, <1>2, <1>3, <1>4, <1>5, <1>6, <1>7, <1>8, <1>9, <1>10, <1>11, <1>12, <1>13,
       <1>14, <1>15, <1>16, <1>17, <1>18, <1>19, <1>20, <1>21, <1>22, <1>23, <1>24, <1>25,
       <1>26, <1>27, <1>28, <1>29 DEF Next, Administer, Resume

-----------------------------------------------------------------------------
\* The invariant that carries the others.
THEOREM AccountsInvariant == Spec => []IInv
    BY InitInv, NextInv, PTL DEF Spec

\* Whatever was in flight, an account that can administer is left.
THEOREM AdministratorRemains == Spec => []ActiveAdminRemains
    BY AccountsInvariant, PTL DEF IInv

\* A disabled account's only sessions are of sign-ins that were awaiting when it
\* was disabled.
THEOREM DisabledAccountsStayOut == Spec => []DisabledSessionsAreLate
    BY AccountsInvariant, PTL DEF IInv

\* A console's session is its configured account's.
THEOREM ConsolesAreConfigured == Spec => []AutologinAsConfigured
    BY AccountsInvariant, PTL DEF IInv

-----------------------------------------------------------------------------
\* The gate. What an arrived request of a pending account may come to.
Pends(r) == requests[r].stage = "arrived" /\ Pending(requests[r].actor)

OpensGateOnly(r) ==
    /\ requests'[r].stage \in {"idle", "changing"}
    /\ UNCHANGED <<live, gone, admins, disabled, mustChange, twoFactor,
                   requirePasskey, autologin, sessions>>
    /\ \A u \in Users \ {requests[r].actor} :
          (u \in keyed' <=> u \in keyed) /\ (u \in codes' <=> u \in codes)

\* A request is only moved by its own handler.
LEMMA OwnStep ==
    ASSUME TypeOK, NEW r \in Requests, NEW q \in Requests, requests'[r] # requests[r],
           \E what : requests' = [requests EXCEPT ![q] = what]
    PROVE  q = r
    BY DEF TypeOK

\* Its handlers are behind the hook, but for the three that open the gate and
\* the identity provider's.
LEMMA PendingStep ==
    ASSUME TypeOK, Next, NEW r \in Requests, Pends(r), requests'[r] # requests[r]
    PROVE  OpensGateOnly(r)
<1>1. requests[r].stage = "arrived" /\ ~MayCall(r) /\ ~MayAdminister(r) /\ requests[r] # Idle
    BY DEF Pends, MayCall, MayAdminister, Idle
<1>2. requests' # requests
    OBVIOUS
<1>3. ASSUME NEW q \in Requests, Refuse(q) PROVE OpensGateOnly(r)
  <2>1. q = r
      BY <1>3, OwnStep DEF Refuse, Done
  <2>2. requests'[r] = Idle
      BY <1>3, <2>1, DoneTyped DEF Refuse
  <2>. QED
      BY <1>3, <2>2 DEF Refuse, flags, besides, OpensGateOnly, Idle
<1>4. ASSUME NEW q \in Requests, BeginChange(q) PROVE OpensGateOnly(r)
  <2>1. q = r
      BY <1>4, OwnStep DEF BeginChange, Await
  <2>2. requests'[r].stage = "changing"
      BY <1>4, <2>1 DEF BeginChange, Await, TypeOK
  <2>. QED
      BY <1>4, <2>2 DEF BeginChange, flags, besides, OpensGateOnly
<1>5. ASSUME NEW q \in Requests, NEW have \in BOOLEAN, SetPasskey(q, have)
      PROVE  OpensGateOnly(r)
  <2>1. q = r
      BY <1>5, OwnStep DEF SetPasskey, Done
  <2>2. requests'[r] = Idle
      BY <1>5, <2>1, DoneTyped DEF SetPasskey
  <2>. QED
      BY <1>5, <2>1, <2>2 DEF SetPasskey, besides, OpensGateOnly, Idle
<1>6. ASSUME NEW q \in Requests, Administer(q) PROVE FALSE
  <2>1. MayAdminister(q)
      BY <1>6 DEF Administer, PatchUser, DeleteUser, BeginReset, ClearTwoFactor, PutAutologin,
         BeginCreate, PutPolicy
  <2>2. \E what : requests' = [requests EXCEPT ![q] = what]
      BY <1>6 DEF Administer, PatchUser, DeleteUser, BeginReset, ClearTwoFactor, PutAutologin,
         BeginCreate, PutPolicy, Done, Await
  <2>. QED
      BY <1>1, <2>1, <2>2, OwnStep
<1>7. ASSUME NEW q \in Requests, Resume(q) PROVE FALSE
  <2>1. requests[q].stage # "arrived"
      BY <1>7 DEF Resume, CreateFirst, CreateUser, ResetPassword, FinishSetup, FinishPassword,
         ChangePassword, DisableTwoFactor
  <2>2. \E what : requests' = [requests EXCEPT ![q] = what]
      BY <1>7 DEF Resume, CreateFirst, CreateUser, ResetPassword, FinishSetup, FinishPassword,
         ChangePassword, DisableTwoFactor, Done, Await
  <2>. QED
      BY <1>1, <2>1, <2>2, OwnStep
<1>8. ASSUME NEW q \in Requests, EnableTwoFactor(q) \/ BeginDisableTwoFactor(q) PROVE FALSE
  <2>1. MayCall(q) /\ \E what : requests' = [requests EXCEPT ![q] = what]
      BY <1>8 DEF EnableTwoFactor, BeginDisableTwoFactor, Done, Await
  <2>. QED
      BY <1>1, <2>1, OwnStep
<1>9. ASSUME NEW q \in Requests,
             \/ BeginSetup(q)
             \/ \E u \in Users : BeginPassword(q, u)
             \/ \E u \in Users, kind \in Kinds : Arrive(q, u, kind)
      PROVE  FALSE
  <2>1. requests[q] = Idle /\ \E what : requests' = [requests EXCEPT ![q] = what]
      BY <1>9 DEF BeginSetup, BeginPassword, Arrive, Await
  <2>. QED
      BY <1>1, <2>1, OwnStep
<1>10. ~(\/ \E u \in Users : SignInFresh(u) \/ ProvisionSso(u) \/ SpendCode(u)
         \/ \E u \in Users, kind \in Kinds : EndSession(u, kind)
         \/ ConsoleSignIn)
    BY <1>2 DEF SignInFresh, ProvisionSso, SpendCode, EndSession, ConsoleSignIn
<1>11. ASSUME NEW q \in Requests, Authorize(q) PROVE OpensGateOnly(r)
  <2>1. q = r
      BY <1>11, OwnStep DEF Authorize, Done
  <2>2. requests'[r] = Idle
      BY <1>11, <2>1, DoneTyped DEF Authorize
  <2>. QED
      BY <1>11, <2>1, <2>2 DEF Authorize, flags, OpensGateOnly, Idle
<1>. QED
    BY <1>3, <1>4, <1>5, <1>6, <1>7, <1>8, <1>9, <1>10, <1>11 DEF Next

\* Whatever is in flight, and however late the account became pending: its
\* request opens the gate, gets a code in the account's own name from the
\* identity provider, which no gate is in front of, or comes to nothing.
THEOREM GateIsKept == Spec => GateHolds
<1>. DEFINE Holds ==
       \A r \in Requests : Pends(r) /\ requests'[r] # requests[r] => OpensGateOnly(r)
<1>1. IInv /\ [Next]_vars => [Holds]_vars
    BY PendingStep DEF IInv
<1>2. Holds <=> \A r \in Requests :
        /\ requests[r].stage = "arrived" /\ Pending(requests[r].actor)
        /\ requests'[r] # requests[r]
        => /\ requests'[r].stage \in {"idle", "changing"}
           /\ UNCHANGED <<live, gone, admins, disabled, mustChange, twoFactor,
                          requirePasskey, autologin, sessions>>
           /\ \A u \in Users \ {requests[r].actor} :
                 (u \in keyed' <=> u \in keyed) /\ (u \in codes' <=> u \in codes)
    BY DEF Pends, OpensGateOnly
<1>. QED
    BY <1>1, <1>2, AccountsInvariant, PTL DEF Spec, GateHolds

=============================================================================
