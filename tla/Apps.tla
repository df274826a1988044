-------------------------------- MODULE Apps --------------------------------
(***************************************************************************)
(* Installing, updating and removing apps: the review and its staging area *)
(* (apps/staging.ts), the steps that put a package on disk and in the      *)
(* table or take it away (apps/framework.ts), the routes (apps/routes.ts)  *)
(* and the updates from repositories (apps/repo.ts).                       *)
(*                                                                         *)
(* Every file operation is an await: while one handler replaces an app's   *)
(* code another may replace or remove it.                                  *)
(***************************************************************************)
EXTENDS Naturals, Sequences, FiniteSets, SequencesExt

CONSTANTS
    AppIds,
    Packages,
    AppOf,       \* the id in a package's manifest
    Permissions,
    Asks,        \* the permissions in a package's manifest
    Fetch,       \* the permission without which a manifest lists no hosts
    Hosts,
    HostsOf,     \* the hosts in a package's manifest (fetchHosts)
    Publisher,   \* whose valid signature a package has, or None
    Parts,       \* a package's files are 1 .. Parts
    Handlers,
    MaxStaged,   \* MAX_STAGED
    None,
    MaxStarts    \* bound: handlers started

ASSUME AppsAssumption ==
    /\ AppOf \in [Packages -> AppIds]
    /\ Asks \in [Packages -> SUBSET Permissions]
    /\ HostsOf \in [Packages -> SUBSET Hosts]
    /\ \A p \in Packages : HostsOf[p] # {} <=> Fetch \in Asks[p]
    /\ None \notin Packages
    /\ Parts \in Nat \ {0} /\ MaxStaged \in Nat \ {0} /\ MaxStarts \in Nat

VARIABLES
    row,       \* installed_apps: the package whose manifest it holds, or None
    files,     \* <appsDir>/<id>: which package each file is from, or None
    kept,      \* apps that rows of tasks, grants or access lists speak of
    trusted,   \* trusted_publishers
    staged,    \* packages that wait for approval, the oldest first
    job,       \* the handler in flight, and the await it stands at
    approved,  \* history: permissions an administrator ever approved per app
    rough,     \* history: apps whose last change met another, or did not end
    starts

vars == <<row, files, kept, trusted, staged, job, approved, rough, starts>>

Publishers == {Publisher[p] : p \in Packages} \ {None}
NoFiles == [n \in 1 .. Parts |-> None]
Entry == [pkg : Packages, isUpdate : BOOLEAN]

Idle == [at |-> "idle"]
Job == {Idle}
    \cup [at : {"download"}]
    \cup [at : {"clear", "write"}, app : AppIds, pkg : Packages,
          written : 0 .. Parts, crossed : BOOLEAN]
    \cup [at : {"remove", "forget"}, app : AppIds, crossed : BOOLEAN]

\* The handlers that are changing an app's code.
Changing(a) ==
    {h \in Handlers : job[h].at \notin {"idle", "download"} /\ job[h].app = a}

-----------------------------------------------------------------------------
(* Beginning and ending a change *)

Begin(h, j) ==
    job' = [g \in Handlers |->
       IF g = h THEN j
       ELSE IF g \in Changing(j.app) THEN [job[g] EXCEPT !.crossed = TRUE]
       ELSE job[g]]

BeginCommit(h, p) ==
    Begin(h, [at |-> "clear", app |-> AppOf[p], pkg |-> p, written |-> 0,
              crossed |-> Changing(AppOf[p]) # {}])

MoveOn(h, at) == job' = [job EXCEPT ![h].at = at]

\* A change that met no other leaves the app in order, whatever was before.
Complete(h) ==
    /\ job' = [job EXCEPT ![h] = Idle]
    /\ rough' = IF job[h].crossed THEN rough \cup {job[h].app}
                                  ELSE rough \ {job[h].app}

Abandon(h) ==
    /\ job' = [job EXCEPT ![h] = Idle]
    /\ rough' = rough \cup {job[h].app}

Start(h) == job[h].at = "idle" /\ starts < MaxStarts /\ starts' = starts + 1

-----------------------------------------------------------------------------
(* Review *)

Granted(a) == IF row[a] = None THEN {} ELSE Asks[row[a]]

\* What the fetch proxy and the scheduler let an app reach.
Reached(a) == IF row[a] = None THEN {} ELSE HostsOf[row[a]]

\* Permissions are compared, and hosts are not.
NewPermissions(p) == Asks[p] \ Granted(AppOf[p])
Verified(p) == Publisher[p] # None /\ Publisher[p] \in trusted

\* Mutant of Stage: nothing makes room.
StageAlways(p) ==
    staged' = Append(staged, [pkg |-> p, isUpdate |-> row[AppOf[p]] # None])

\* The oldest go to make room.
Stage(p) ==
    LET room == IF Len(staged) < MaxStaged THEN staged
                ELSE SubSeq(staged, Len(staged) - MaxStaged + 2, Len(staged))
    IN  staged' = Append(room, [pkg |-> p, isUpdate |-> row[AppOf[p]] # None])

\* prepareInstall: an upload, or a download from a repository that has ended.
Install(h, p) ==
    /\ Start(h)
    /\ IF NewPermissions(p) # {} \/ ~Verified(p)
         THEN Stage(p) /\ UNCHANGED job
         ELSE BeginCommit(h, p) /\ UNCHANGED staged
    /\ UNCHANGED <<row, files, kept, trusted, approved, rough>>

\* An update is found for an installed app and downloaded, unasked perhaps.
StartUpdate(h) ==
    /\ Start(h)
    /\ \E a \in AppIds : row[a] # None
    /\ job' = [job EXCEPT ![h] = [at |-> "download"]]
    /\ UNCHANGED <<row, files, kept, trusted, staged, approved, rough>>

\* Mutant of ApplyUpdate: the version found at the check decides.
ApplyUnreviewed(h, p) ==
    /\ job[h].at = "download"
    /\ BeginCommit(h, p)
    /\ UNCHANGED <<row, files, kept, trusted, staged, approved, rough, starts>>

\* applyUpdate, the package being there: it says itself which app it is, and
\* is reviewed against what is installed by now.
ApplyUpdate(h, p) ==
    /\ job[h].at = "download"
    /\ IF NewPermissions(p) # {}
         THEN Stage(p) /\ job' = [job EXCEPT ![h] = Idle]
         ELSE BeginCommit(h, p) /\ UNCHANGED staged
    /\ UNCHANGED <<row, files, kept, trusted, approved, rough, starts>>

DownloadFails(h) ==
    /\ job[h].at = "download"
    /\ job' = [job EXCEPT ![h] = Idle]
    /\ UNCHANGED <<row, files, kept, trusted, staged, approved, rough, starts>>

\* POST /install/confirm: the token names one staged package and is used up.
Confirm(h, p, i) ==
    /\ Start(h)
    /\ staged[i].pkg = p
    /\ approved' = [approved EXCEPT ![AppOf[p]] = @ \cup Asks[p]]
    /\ BeginCommit(h, p)
    /\ staged' = RemoveAt(staged, i)
    /\ UNCHANGED <<row, files, kept, trusted, rough>>

\* Declined, or five minutes old.
Discard(i) ==
    /\ staged' = RemoveAt(staged, i)
    /\ UNCHANGED <<row, files, kept, trusted, job, approved, rough, starts>>

Trust(a, on) ==
    /\ row[a] # None /\ Publisher[row[a]] # None
    /\ trusted' = IF on THEN trusted \cup {Publisher[row[a]]}
                        ELSE trusted \ {Publisher[row[a]]}
    /\ UNCHANGED <<row, files, kept, staged, job, approved, rough, starts>>

-----------------------------------------------------------------------------
(* commitPackage *)

ClearCode(h) ==
    /\ job[h].at = "clear"
    /\ files' = [files EXCEPT ![job[h].app] = NoFiles]
    /\ MoveOn(h, "write")
    /\ UNCHANGED <<row, kept, trusted, staged, approved, rough, starts>>

WriteFile(h) ==
    /\ job[h].at = "write" /\ job[h].written < Parts
    /\ LET n == job[h].written + 1
       IN  /\ files' = [files EXCEPT ![job[h].app][n] = job[h].pkg]
           /\ job' = [job EXCEPT ![h].written = n]
    /\ UNCHANGED <<row, kept, trusted, staged, approved, rough, starts>>

\* The row still speaks of the version before.
CommitFails(h) ==
    /\ job[h].at \in {"clear", "write"} /\ job[h].written < Parts
    /\ Abandon(h)
    /\ UNCHANGED <<row, files, kept, trusted, staged, approved, starts>>

\* Mutant of Record: a row that is there stays as it is.
RecordOnce(h) ==
    /\ job[h].at = "write" /\ job[h].written = Parts
    /\ row' = [row EXCEPT ![job[h].app] = IF @ = None THEN job[h].pkg ELSE @]
    /\ Complete(h)
    /\ UNCHANGED <<files, kept, trusted, staged, approved, starts>>

\* upsertInstalledApp
Record(h) ==
    /\ job[h].at = "write" /\ job[h].written = Parts
    /\ row' = [row EXCEPT ![job[h].app] = job[h].pkg]
    /\ Complete(h)
    /\ UNCHANGED <<files, kept, trusted, staged, approved, starts>>

-----------------------------------------------------------------------------
(* Removal *)

\* An app schedules work, a user grants it a folder, an administrator puts it
\* on a list.
Acquire(a) ==
    /\ row[a] # None
    /\ kept' = kept \cup {a}
    /\ UNCHANGED <<row, files, trusted, staged, job, approved, rough, starts>>

\* The row goes at once.
RemoveApp(h, a) ==
    /\ Start(h)
    /\ row[a] # None
    /\ row' = [row EXCEPT ![a] = None]
    /\ Begin(h, [at |-> "remove", app |-> a, crossed |-> Changing(a) # {}])
    /\ UNCHANGED <<files, kept, trusted, staged, approved, rough>>

RemoveCode(h) ==
    /\ job[h].at = "remove"
    /\ files' = [files EXCEPT ![job[h].app] = NoFiles]
    /\ MoveOn(h, "forget")
    /\ UNCHANGED <<row, kept, trusted, staged, approved, rough, starts>>

RemovalFails(h) ==
    /\ job[h].at \in {"remove", "forget"}
    /\ Abandon(h)
    /\ UNCHANGED <<row, files, kept, trusted, staged, approved, starts>>

\* Mutant of FinishRemoval: what is staged stays.
FinishKeepingStaged(h) ==
    /\ job[h].at = "forget"
    /\ kept' = kept \ {job[h].app}
    /\ Complete(h)
    /\ UNCHANGED <<row, files, trusted, staged, approved, starts>>

\* discardStagedFor: what is left when one entry after the other was looked at.
StagedForOthers(a) ==
    LET left[i \in 0 .. Len(staged)] ==
            IF i = 0 THEN <<>>
            ELSE IF AppOf[staged[i].pkg] = a THEN left[i - 1]
            ELSE Append(left[i - 1], staged[i])
    IN  left[Len(staged)]

\* deleteTasksForApp, revokeAllForApp, discardStagedFor, forgetApp
FinishRemoval(h) ==
    /\ job[h].at = "forget"
    /\ kept' = kept \ {job[h].app}
    /\ staged' = StagedForOthers(job[h].app)
    /\ Complete(h)
    /\ UNCHANGED <<row, files, trusted, approved, starts>>

-----------------------------------------------------------------------------

\* Handlers and staged packages are in memory.
Restart ==
    /\ job' = [h \in Handlers |-> Idle]
    /\ staged' = <<>>
    /\ rough' = rough \cup {a \in AppIds : Changing(a) # {}}
    /\ UNCHANGED <<row, files, kept, trusted, approved, starts>>

Init ==
    /\ row = [a \in AppIds |-> None]
    /\ files = [a \in AppIds |-> NoFiles]
    /\ kept = {} /\ trusted = {} /\ staged = <<>>
    /\ job = [h \in Handlers |-> Idle]
    /\ approved = [a \in AppIds |-> {}]
    /\ rough = {} /\ starts = 0

Next ==
    \/ \E h \in Handlers :
         \/ \E p \in Packages :
              \/ Install(h, p) \/ ApplyUpdate(h, p)
              \/ \E i \in DOMAIN staged : Confirm(h, p, i)
         \/ \E a \in AppIds : RemoveApp(h, a)
         \/ StartUpdate(h) \/ DownloadFails(h)
         \/ ClearCode(h) \/ WriteFile(h) \/ CommitFails(h) \/ Record(h)
         \/ RemoveCode(h) \/ RemovalFails(h) \/ FinishRemoval(h)
    \/ \E i \in DOMAIN staged : Discard(i)
    \/ \E a \in AppIds : Acquire(a) \/ \E on \in BOOLEAN : Trust(a, on)
    \/ Restart

Spec == Init /\ [][Next]_vars

-----------------------------------------------------------------------------
(* Properties *)

TypeOK ==
    /\ row \in [AppIds -> Packages \cup {None}]
    /\ files \in [AppIds -> [1 .. Parts -> Packages \cup {None}]]
    /\ kept \subseteq AppIds /\ trusted \subseteq Publishers
    /\ staged \in Seq(Entry) /\ Len(staged) <= MaxStaged
    /\ job \in [Handlers -> Job]
    /\ approved \in [AppIds -> SUBSET Permissions]
    /\ rough \subseteq AppIds
    /\ starts \in 0 .. MaxStarts

\* No app ever holds a permission that no administrator approved for it,
\* whatever is installed, updated, removed and approved at once, and whatever
\* fails ("never silently widen what an app is allowed to do").  It is about
\* permissions alone: the hosts behind "fetch" may widen unapproved.
PermissionsApproved ==
    \A a \in AppIds : row[a] # None => Asks[row[a]] \subseteq approved[a]

\* The last change of the app met no other and got to its end.
InOrder(a) == a \notin rough /\ Changing(a) = {}

\* The code that is served and the manifest that decides what it may do are
\* one package's (commitPackage replaces the directory and then the row).
CodeIsOfRow ==
    \A a \in AppIds : InOrder(a) => files[a] = [n \in 1 .. Parts |-> row[a]]

\* Nothing that speaks of a removed app is left for the next install of it:
\* no task, grant or access, and no update that waits for approval.
NothingLeft ==
    \A a \in AppIds : InOrder(a) /\ row[a] = None =>
        /\ a \notin kept
        /\ \A i \in DOMAIN staged :
              AppOf[staged[i].pkg] = a => ~staged[i].isUpdate

\* What there is of each app is what its row says: one package's code while it is
\* installed, and nothing once it is not.  And every variable keeps its type: no
\* more packages wait than there is room for.
AppsAsRecorded == TypeOK /\ CodeIsOfRow /\ NothingLeft

Review == INSTANCE Consent
    WITH held <- [a \in AppIds |-> [may |-> Granted(a), reach |-> Reached(a)]],
         agreed <- approved

\* Every change of what an app may do is one the abstract review allows: an
\* approval, or the taking of permissions that were approved, in one step of one
\* handler (grantedPermissions reads the row, which commitPackage writes last).
\* Hosts an app reaches only with the permission to fetch; which ones is its
\* package's word, and reviewPackage compares permissions only: an update that
\* asks for none anew brings hosts that nobody approved.
ReviewImplemented == Review!Spec

=============================================================================
