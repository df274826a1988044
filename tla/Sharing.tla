------------------------------ MODULE Sharing ------------------------------
(***************************************************************************)
(* Who can reach which shared folder: from the rows an administrator edits *)
(* (db/users, db/groups, db/shares, db/nfs-rules, the services setting),   *)
(* through the generated smb.conf and exports (services/services.ts), to   *)
(* the daemons and the system accounts the backend keeps in step with them *)
(* by running privileged commands (the file-sharing part of                *)
(* system/integration.ts; the routes are in admin/routes.ts).              *)
(*                                                                         *)
(* A handler changes the rows at once, and then awaits one command after   *)
(* the other; nothing keeps two handlers apart.  todo[p] is what handler p *)
(* still has to do.  A command that fails is logged and passed over.       *)
(***************************************************************************)
EXTENDS Naturals, Sequences, FiniteSets

CONSTANTS
    Requests,    \* request handlers that may be in flight at once
    Boot,        \* the state enforcement started by index.ts
    Users, Groups, Shares, Clients,  \* names, and NFS client specs
    Network,     \* the client spec of a share without rules of its own
    None,        \* no such row, no such system group, or a stopped daemon
    MaxChanges,  \* bound: changes requested
    MaxMishaps   \* bound: failed commands and writes, restarts and reboots

\* What a generated file says of a share: who is in its list.
Listed == Users \cup Groups \cup Clients \cup {Network}

ASSUME SharingAssumption ==
    /\ Boot \notin Requests
    /\ IsFiniteSet(Users) /\ Users \cap Groups = {}
    /\ Network \notin Clients
    /\ \A members \in SUBSET Users : members # None
    /\ \A served \in [Shares -> SUBSET Listed] : served # None
    /\ MaxChanges \in Nat /\ MaxMishaps \in Nat

VARIABLES
    users, groups, shares, enabled,   \* the rows
    sysUsers, passdb, sysGroups,      \* /etc/passwd, Samba's accounts, /etc/group
    file,                             \* smb.conf and exports
    loaded,                           \* what each daemon serves, None if it is down
    boot,                             \* the units in the default runlevel
    todo,
    changes, mishaps,
    unwritten,  \* history: rows lost their last write of the files
    unserved,   \* history: units whose last reload was left out or failed
    muddled     \* history: two handlers overlapped, or a command failed

rows    == <<users, groups, shares, enabled>>
system  == <<sysUsers, passdb, sysGroups, loaded, boot>>
history == <<unwritten, unserved, muddled>>
vars == <<rows, system, file, todo, changes, mishaps, history>>

Procs == Requests \cup {Boot}
Units == {"smb", "nfs"}
Quiet == \A p \in Procs : todo[p] = <<>>

-----------------------------------------------------------------------------
(* The generated files *)

Share == [people : SUBSET Users, teams : SUBSET Groups, clients : SUBSET Clients,
          by : Requests \cup {None}]   \* by: the request that made this row

\* generateExports: a share's own rules, or what is allowed to everyone.
Exported(share) == IF share.clients = {} THEN {Network} ELSE share.clients

\* generateSmbConf: "valid users", with groups by name; and generateExports.
Generated(sh) ==
    [u \in Units |-> [s \in Shares |->
        IF sh[s] = None THEN {}
        ELSE IF u = "nfs" THEN Exported(sh[s])
        ELSE sh[s].people \cup sh[s].teams]]

Mishap == mishaps < MaxMishaps /\ mishaps' = mishaps + 1

\* Each file is written on its own; a write that fails is logged.
ApplyGeneratedConfigs(sh) ==
    \/ file' = Generated(sh) /\ unwritten' = FALSE /\ UNCHANGED mishaps
    \/ \E lost \in Units :
          /\ Mishap /\ unwritten' = TRUE
          /\ file' = [Generated(sh) EXCEPT ![lost] = file[lost]]

-----------------------------------------------------------------------------
(* What handlers await *)

Do(op, on, who) == <<[op |-> op, on |-> on, who |-> who]>>

\* The orders in which the members of a set can be gone through.
Orders(S) ==
    {s \in [1 .. Cardinality(S) -> S] : \A x \in S : \E i \in DOMAIN s : s[i] = x}

\* One command for each of them.
DoEach(op, on, order) ==
    [i \in DOMAIN order |-> [op |-> op, on |-> on, who |-> {order[i]}]]

Write   == Do("write", None, {})
Reloads == Do("reload", "smb", {}) \o Do("reload", "nfs", {})

SyncUser(u)     == Do("makeUser", u, {}) \o Do("setPassword", u, {})
RemoveUser(u)   == Do("dropPassword", u, {}) \o Do("dropUser", u, {})
SyncGroup(g, m) == Do("makeGroup", g, {}) \o Do("readGroup", g, m)

Switch(on, u) ==
    IF u \in on THEN Do("bootAdd", u, {}) \o Do("start", u, {})
                ELSE Do("stop", u, {}) \o Do("bootDel", u, {})
ApplyServiceStates(on) == Switch(on, "smb") \o Switch(on, "nfs")

Begin(r, steps) ==
    /\ todo[r] = <<>> /\ changes < MaxChanges
    /\ changes' = changes + 1
    /\ todo' = [todo EXCEPT ![r] = steps]
    /\ muddled' = (muddled \/ ~Quiet)
    /\ UNCHANGED <<system, unserved>>

-----------------------------------------------------------------------------
(* The routes, each up to its first await *)

\* Nothing regenerates smb.conf: a deleted name stays in it.
NoWrite == UNCHANGED <<file, mishaps>>

CreateUser(r, u) ==
    /\ u \notin users
    /\ users' = users \cup {u}
    /\ Begin(r, SyncUser(u)) /\ NoWrite
    /\ UNCHANGED <<groups, shares, enabled, unwritten>>

\* A reset, or the user's own change: the hash is computed first.
ChangePassword(r, u) ==
    /\ u \in users
    /\ Begin(r, Do("hash", u, {}) \o SyncUser(u)) /\ NoWrite
    /\ UNCHANGED <<rows, unwritten>>

DeleteUser(r, u) ==
    /\ u \in users
    /\ users' = users \ {u}
    /\ groups' = [g \in Groups |->
                     IF groups[g] = None THEN None ELSE groups[g] \ {u}]
    /\ shares' = [s \in Shares |->
                     IF shares[s] = None THEN None
                     ELSE [shares[s] EXCEPT !.people = @ \ {u}]]
    /\ Begin(r, RemoveUser(u)) /\ NoWrite
    /\ unwritten' = TRUE
    /\ UNCHANGED enabled

CreateGroup(r, g) ==
    /\ groups[g] = None
    /\ groups' = [groups EXCEPT ![g] = {}]
    /\ Begin(r, SyncGroup(g, {})) /\ NoWrite
    /\ UNCHANGED <<users, shares, enabled, unwritten>>

SetMembers(r, g, m) ==
    /\ groups[g] # None /\ m \subseteq users
    /\ groups' = [groups EXCEPT ![g] = m]
    /\ Begin(r, SyncGroup(g, m) \o Write \o Reloads) /\ NoWrite
    /\ UNCHANGED <<users, shares, enabled, unwritten>>

DeleteGroup(r, g) ==
    /\ groups[g] # None
    /\ groups' = [groups EXCEPT ![g] = None]
    /\ shares' = [s \in Shares |->
                     IF shares[s] = None THEN None
                     ELSE [shares[s] EXCEPT !.teams = @ \ {g}]]
    /\ Begin(r, Do("dropGroup", g, {}) \o Write \o Reloads) /\ NoWrite
    /\ UNCHANGED <<users, enabled, unwritten>>

CreateShare(r, s) ==
    /\ shares[s] = None
    /\ shares' = [shares EXCEPT ![s] =
                     [people |-> {}, teams |-> {}, clients |-> {}, by |-> r]]
    /\ Begin(r, Do("mkdir", s, {}) \o Write \o Reloads) /\ NoWrite
    /\ UNCHANGED <<users, groups, enabled, unwritten>>

\* Mutant of UpdateShare: the files are written from the rows as they were.
UpdateShareLate(r, s, people, teams) ==
    /\ shares[s] # None
    /\ people \subseteq users /\ \A g \in teams : groups[g] # None
    /\ shares' = [shares EXCEPT ![s].people = people, ![s].teams = teams]
    /\ ApplyGeneratedConfigs(shares)
    /\ Begin(r, Reloads)
    /\ UNCHANGED <<users, groups, enabled>>

\* Mutant of UpdateShare: the daemons are not told.
UpdateShareUntold(r, s, people, teams) ==
    /\ shares[s] # None
    /\ people \subseteq users /\ \A g \in teams : groups[g] # None
    /\ shares' = [shares EXCEPT ![s].people = people, ![s].teams = teams]
    /\ ApplyGeneratedConfigs(shares')
    /\ Begin(r, <<>>)
    /\ UNCHANGED <<users, groups, enabled>>

\* Rows and files in one go, unless a quota has to be set in between.
UpdateShare(r, s, people, teams) ==
    /\ shares[s] # None
    /\ people \subseteq users /\ \A g \in teams : groups[g] # None
    /\ shares' = [shares EXCEPT ![s].people = people, ![s].teams = teams]
    /\ \/ ApplyGeneratedConfigs(shares') /\ Begin(r, Reloads)
       \/ /\ Begin(r, Do("quota", s, {}) \o Write \o Reloads)
          /\ NoWrite /\ UNCHANGED unwritten
    /\ UNCHANGED <<users, groups, enabled>>

DeleteShare(r, s) ==
    /\ shares[s] # None
    /\ shares' = [shares EXCEPT ![s] = None]
    /\ ApplyGeneratedConfigs(shares')
    /\ Begin(r, Reloads)
    /\ UNCHANGED <<users, groups, enabled>>

\* POST and DELETE nfs-rules: the files are written, and no daemon is told.
ChangeNfsRules(s, k) ==
    /\ shares[s] # None /\ changes < MaxChanges
    /\ changes' = changes + 1
    /\ \E own \in {shares[s].clients \cup {k}, shares[s].clients \ {k}} :
          shares' = [shares EXCEPT ![s].clients = own]
    /\ ApplyGeneratedConfigs(shares')
    /\ unserved' = Units
    /\ UNCHANGED <<users, groups, enabled, system, todo, muddled>>

PutServices(r, on) ==
    /\ enabled' = on
    /\ ApplyGeneratedConfigs(shares)
    /\ Begin(r, ApplyServiceStates(on) \o Reloads)
    /\ UNCHANGED <<users, groups, shares>>

-----------------------------------------------------------------------------
(* The commands *)

Now(p, op) == todo[p] # <<>> /\ Head(todo[p]).op = op
On(p)      == Head(todo[p]).on
Advance(p) == todo' = [todo EXCEPT ![p] = Tail(@)]

UnchangedByCommand == UNCHANGED <<rows, changes, muddled>>

\* Nothing the other handlers see: the hash is worked out, the quota is set.
Pause(p) ==
    /\ Now(p, "hash") \/ Now(p, "quota")
    /\ Advance(p)
    /\ UNCHANGED <<system, file, mishaps, unwritten, unserved>>
    /\ UnchangedByCommand

MakeDirectory(p) ==
    /\ Now(p, "mkdir") /\ Advance(p)
    /\ UNCHANGED <<system, file, mishaps, unwritten, unserved>>
    /\ UnchangedByCommand

\* The row is taken back, and the handler ends there.
MakeDirectoryFails(p) ==
    /\ Now(p, "mkdir") /\ Mishap
    /\ shares' = [shares EXCEPT ![On(p)] =
                     IF @ # None /\ @.by = p THEN None ELSE @]
    /\ unwritten' = TRUE
    /\ todo' = [todo EXCEPT ![p] = <<>>]
    /\ UNCHANGED <<users, groups, enabled, system, file, changes, unserved,
                   muddled>>

WriteFiles(p) ==
    /\ Now(p, "write") /\ Advance(p)
    /\ ApplyGeneratedConfigs(shares)
    /\ UNCHANGED <<system, unserved>> /\ UnchangedByCommand

\* smbcontrol all reload-config; exportfs -ra
Reload(p) ==
    /\ Now(p, "reload") /\ Advance(p)
    /\ loaded' = IF loaded[On(p)] = None THEN loaded
                 ELSE [loaded EXCEPT ![On(p)] = file[On(p)]]
    /\ unserved' = unserved \ {On(p)}
    /\ UNCHANGED <<sysUsers, passdb, sysGroups, boot, file, mishaps, unwritten>>
    /\ UnchangedByCommand

\* rc-service start; stop.  A unit that is up already stays as it is.
StartOrStop(p) ==
    /\ Now(p, "start") \/ Now(p, "stop")
    /\ Advance(p)
    /\ loaded' = [loaded EXCEPT ![On(p)] =
                     IF Now(p, "stop") THEN None
                     ELSE IF @ = None THEN file[On(p)] ELSE @]
    /\ unserved' = IF loaded[On(p)] = None \/ Now(p, "stop")
                   THEN unserved \ {On(p)} ELSE unserved
    /\ UNCHANGED <<sysUsers, passdb, sysGroups, boot, file, mishaps, unwritten>>
    /\ UnchangedByCommand

\* Mutant of SetRunlevel: a unit switched off stays in the runlevel.
SetRunlevelOnly(p) ==
    /\ Now(p, "bootAdd") \/ Now(p, "bootDel")
    /\ Advance(p)
    /\ boot' = boot \cup {On(p)}
    /\ UNCHANGED <<sysUsers, passdb, sysGroups, loaded, file, mishaps, unwritten,
                   unserved>>
    /\ UnchangedByCommand

\* rc-update add; del
SetRunlevel(p) ==
    /\ Now(p, "bootAdd") \/ Now(p, "bootDel")
    /\ Advance(p)
    /\ boot' = IF Now(p, "bootAdd") THEN boot \cup {On(p)} ELSE boot \ {On(p)}
    /\ UNCHANGED <<sysUsers, passdb, sysGroups, loaded, file, mishaps, unwritten,
                   unserved>>
    /\ UnchangedByCommand

\* adduser when there is none; deluser takes the user out of every group.
ChangeSystemUser(p) ==
    /\ Now(p, "makeUser") \/ Now(p, "dropUser")
    /\ Advance(p)
    /\ IF Now(p, "makeUser")
       THEN sysUsers' = sysUsers \cup {On(p)} /\ UNCHANGED sysGroups
       ELSE /\ sysUsers' = sysUsers \ {On(p)}
            /\ sysGroups' = [g \in Groups |->
                  IF sysGroups[g] = None THEN None ELSE sysGroups[g] \ {On(p)}]
    /\ UNCHANGED <<passdb, loaded, boot, file, mishaps, unwritten, unserved>>
    /\ UnchangedByCommand

\* smbpasswd -a needs the system user; smbpasswd -x
ChangeSambaUser(p) ==
    /\ Now(p, "setPassword") \/ Now(p, "dropPassword")
    /\ Advance(p)
    /\ passdb' = IF Now(p, "dropPassword") THEN passdb \ {On(p)}
                 ELSE passdb \cup ({On(p)} \cap sysUsers)
    /\ UNCHANGED <<sysUsers, sysGroups, loaded, boot, file, mishaps, unwritten,
                   unserved>>
    /\ UnchangedByCommand

\* getent group, addgroup; delgroup
ChangeSystemGroup(p) ==
    /\ Now(p, "makeGroup") \/ Now(p, "dropGroup")
    /\ Advance(p)
    /\ sysGroups' = [sysGroups EXCEPT ![On(p)] =
          IF Now(p, "dropGroup") THEN None ELSE IF @ = None THEN {} ELSE @]
    /\ UNCHANGED <<sysUsers, passdb, loaded, boot, file, mishaps, unwritten,
                   unserved>>
    /\ UnchangedByCommand

\* The current members are read, and the difference is worked off: first
\* those who join, then those who leave.
Reconcile(p, current) ==
    LET wanted == Head(todo[p]).who
    IN  \E joining \in Orders(wanted \ current), leaving \in Orders(current \ wanted) :
           todo' = [todo EXCEPT ![p] = DoEach("join", On(p), joining)
                       \o DoEach("leave", On(p), leaving) \o Tail(@)]

ReadGroup(p) ==
    /\ Now(p, "readGroup")
    /\ Reconcile(p, IF sysGroups[On(p)] = None THEN {} ELSE sysGroups[On(p)])
    /\ UNCHANGED <<system, file, mishaps, unwritten, unserved>>
    /\ UnchangedByCommand

\* runCapture: a getent that fails reads as a group without members.
ReadGroupFails(p) ==
    /\ Now(p, "readGroup") /\ Mishap
    /\ Reconcile(p, {})
    /\ muddled' = TRUE
    /\ UNCHANGED <<rows, system, file, changes, unwritten, unserved>>

\* Mutant of ChangeMembership: members are only ever added.
OnlyJoin(p) ==
    /\ Now(p, "join") \/ Now(p, "leave")
    /\ Advance(p)
    /\ sysGroups' = [sysGroups EXCEPT ![On(p)] =
          IF @ = None THEN None ELSE @ \cup (Head(todo[p]).who \cap sysUsers)]
    /\ UNCHANGED <<sysUsers, passdb, loaded, boot, file, mishaps, unwritten,
                   unserved>>
    /\ UnchangedByCommand

\* addgroup user group, for a user there is; delgroup user group
ChangeMembership(p) ==
    /\ Now(p, "join") \/ Now(p, "leave")
    /\ Advance(p)
    /\ LET who == Head(todo[p]).who IN
       sysGroups' = [sysGroups EXCEPT ![On(p)] =
          IF @ = None THEN None
          ELSE IF Now(p, "join") THEN @ \cup (who \cap sysUsers) ELSE @ \ who]
    /\ UNCHANGED <<sysUsers, passdb, loaded, boot, file, mishaps, unwritten,
                   unserved>>
    /\ UnchangedByCommand

\* priv: a failure is logged, and the handler goes on.
CommandFails(p) ==
    /\ todo[p] # <<>> /\ Head(todo[p]).op \notin {"hash", "quota", "mkdir", "write", "readGroup"}
    /\ Mishap /\ Advance(p)
    /\ muddled' = TRUE
    /\ unserved' = IF Head(todo[p]).op \in {"reload", "start", "stop"}
                   THEN unserved \cup {On(p)} ELSE unserved
    /\ UNCHANGED <<rows, system, file, changes, unwritten>>

-----------------------------------------------------------------------------
\* The handlers are gone; index.ts enforces the stored service states and
\* does not write the files.
Stopped ==
    /\ Mishap
    /\ todo' = [p \in Procs |->
                   IF p = Boot THEN ApplyServiceStates(enabled) ELSE <<>>]
    /\ unwritten' = (unwritten \/ ~Quiet)
    /\ muddled' = (muddled \/ ~Quiet)
    /\ UNCHANGED <<rows, file, changes>>

Restart ==
    /\ Stopped
    /\ unserved' = IF Quiet THEN unserved ELSE Units
    /\ UNCHANGED system

Reboot ==
    /\ Stopped
    /\ loaded' = [u \in Units |-> IF u \in boot THEN file[u] ELSE None]
    /\ unserved' = {}
    /\ UNCHANGED <<sysUsers, passdb, sysGroups, boot>>

\* An appliance in use and at rest: whatever is granted and switched on, the
\* files, the daemons and the accounts are in step with it.
Init ==
    /\ users = Users /\ sysUsers = Users /\ passdb = Users
    /\ groups \in [Groups -> SUBSET Users] /\ sysGroups = groups
    /\ shares \in [Shares -> [people : SUBSET Users, teams : SUBSET Groups,
                               clients : {{}}, by : {None}]]
    /\ enabled \in SUBSET Units /\ boot = enabled
    /\ file = Generated(shares)
    /\ loaded = [u \in Units |-> IF u \in enabled THEN file[u] ELSE None]
    /\ todo = [p \in Procs |-> <<>>]
    /\ changes = 0 /\ mishaps = 0
    /\ unwritten = FALSE /\ unserved = {} /\ muddled = FALSE

Request(r) ==
    \/ \E u \in Users : CreateUser(r, u) \/ ChangePassword(r, u) \/ DeleteUser(r, u)
    \/ \E g \in Groups : CreateGroup(r, g) \/ DeleteGroup(r, g)
    \/ \E g \in Groups, m \in SUBSET Users : SetMembers(r, g, m)
    \/ \E s \in Shares : CreateShare(r, s) \/ DeleteShare(r, s)
    \/ \E s \in Shares, people \in SUBSET Users, teams \in SUBSET Groups :
          UpdateShare(r, s, people, teams)
    \/ \E on \in SUBSET Units : PutServices(r, on)

Perform(p) ==
    \/ Pause(p) \/ MakeDirectory(p) \/ MakeDirectoryFails(p)
    \/ WriteFiles(p) \/ Reload(p) \/ StartOrStop(p) \/ SetRunlevel(p)
    \/ ChangeSystemUser(p) \/ ChangeSambaUser(p)
    \/ ChangeSystemGroup(p) \/ ReadGroup(p) \/ ReadGroupFails(p)
    \/ ChangeMembership(p) \/ CommandFails(p)

Next ==
    \/ \E r \in Requests : Request(r)
    \/ \E s \in Shares, k \in Clients : ChangeNfsRules(s, k)
    \/ \E p \in Procs : Perform(p)
    \/ Restart \/ Reboot

Spec == Init /\ [][Next]_vars

-----------------------------------------------------------------------------
(* Properties *)

TypeOK ==
    /\ users \subseteq Users /\ enabled \subseteq Units
    /\ groups \in [Groups -> {None} \cup SUBSET Users]
    /\ shares \in [Shares -> {None} \cup Share]
    /\ sysUsers \subseteq Users /\ passdb \subseteq Users
    /\ sysGroups \in [Groups -> {None} \cup SUBSET Users]
    /\ file \in [Units -> [Shares -> SUBSET Listed]]
    /\ loaded = [u \in Units |-> loaded[u]]
    /\ \A u \in Units : loaded[u] = None
          \/ loaded[u] \in [Shares -> SUBSET Listed]
    /\ boot \subseteq Units
    /\ changes \in 0 .. MaxChanges /\ mishaps \in 0 .. MaxMishaps
    /\ unwritten \in BOOLEAN /\ unserved \subseteq Units /\ muddled \in BOOLEAN

\* With no handler in flight the generated files say what the rows say, however
\* many handlers overlapped and whatever commands failed.  Only a deleted
\* account, a failed write or mkdir and a restart halfway leave them behind,
\* and the next change of any kind makes good for all of these.
FilesMatchRows == Quiet /\ ~unwritten => file = Generated(shares)

\* A daemon that is up serves the files as they are, however the handlers that
\* wrote and reloaded them overlapped, unless its own last reload failed or
\* was left out.
DaemonsServeFiles ==
    Quiet => \A u \in Units \ unserved : loaded[u] \in {None, file[u]}

\* The rows reach the files, and the files the daemons. (And every variable keeps
\* its type.)
RowsAreServed == TypeOK /\ FilesMatchRows /\ DaemonsServeFiles

\* A unit switched off is down and stays down across a reboot; one switched on
\* is up and comes back.
ServicesAsConfigured ==
    (Quiet /\ ~muddled) =>
        /\ boot = enabled
        /\ \A u \in Units : loaded[u] # None <=> u \in enabled

Granted(u, s) ==
    /\ u \in users /\ shares[s] # None
    /\ u \in shares[s].people \/ \E g \in shares[s].teams : u \in groups[g]

\* What Samba makes of its configuration and the system's accounts.
Reaches(u, s) ==
    /\ loaded["smb"] # None /\ u \in passdb
    /\ \/ u \in loaded["smb"][s]
       \/ \E g \in loaded["smb"][s] \cap Groups :
             sysGroups[g] # None /\ u \in sysGroups[g]

\* End to end: when handlers came one at a time, every command worked and the
\* files were written since an account was last deleted, an account reaches over
\* SMB exactly the shares its rows grant it.  Before they are written again the
\* code does not keep this: DeleteUser writes no files, which go on naming the
\* account, and one created under its name reaches shares no row grants it.
ReachableIsGranted ==
    (Quiet /\ ~muddled /\ ~unwritten /\ unserved = {}) =>
        \A u \in Users, s \in Shares :
            Reaches(u, s) <=> (Granted(u, s) /\ "smb" \in enabled)

\* integration.ts, of syncShareGroup: "Members are reconciled rather than
\* appended: someone removed from the group in the UI must actually lose
\* access."  With every command working, two overlapping changes of one group
\* can leave a member in the system group whom the rows no longer have.
RemovedLosesAccess ==
    (Quiet /\ mishaps = 0) =>
        \A g \in Groups : groups[g] # None /\ sysGroups[g] # None =>
            sysGroups[g] \subseteq groups[g]
=============================================================================
