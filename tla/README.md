# OpenNAS: a verification project

TLA+ models of the parts of OpenNAS whose correctness depends on order: which
step comes first, what happens between two steps, what is left when one of them
fails or the machine goes down. TLC checks each model on a small instance;
TLAPS proves what is said under "What is proved" for every value of the
constants.

Paths below are relative to the repository; `api/` is `apps/api/src/`, `web/` is
`apps/web/src/`.

## The system

OpenNAS is a web NAS for Alpine Linux. One **backend** process (`api/`, Fastify on
Node) serves a browser desktop (`apps/web`, `web/` below), keeps its state in one
SQLite file through a synchronous driver, and changes the system by running commands
through `doas`: the usual tools (`rc-service`, `smbpasswd`, `exportfs`) and a few
root **helpers** of its own (`packaging/opennas-*`). OpenRC **services** run the
backend and load the firewall at boot.

What this means for correctness:

* The backend is one event loop. Code between two `await`s is atomic, a
  SQL statement included; anything may run at an `await`. There are no locks
  between handlers anywhere.
* Every helper and command is a process of its own. Two requests mean two
  helpers, interleaved step by step.
* The database survives a restart. Timers, in-memory maps and handlers in
  flight do not. Commands may fail; most failures are logged and passed over.

### Components

| Component | State it keeps | Operations | Talks to |
|---|---|---|---|
| Host firewall (`api/admin/routes.ts`, `api/system/firewall.ts`, `packaging/opennas-firewall`) | settings row, kernel table, boot file, draft file, `pendingRevert` and its timer | apply, confirm, revert, timer, boot | helper, boot service, the browser's countdown |
| Self-update (`api/system/updater.ts`, `packaging/opennas-update`) | three directory trees, stage directory, status file | check, stage, apply, probe, roll back | channel, helper, OpenRC |
| Scheduled maintenance (`api/db/system-tasks.ts`, `api/system/task-runner.ts`) | task rows, in-memory set | create, change, delete, run now, tick | storage helper |
| File sharing (`api/services/services.ts`, `api/system/integration.ts`, `api/db/{users,groups,shares,nfs-rules}.ts`) | rows, smb.conf, exports, what the daemons loaded, system and Samba accounts and groups, runlevel | every route on accounts, groups, shares, rules and services | OpenRC, Samba, NFS |
| Accounts and sessions (`api/auth/{routes,plugin,pending,autologin}.ts`, `api/admin/routes.ts`, `api/db/{users,sessions}.ts`) | users, roles, sessions, the console's setting, the passkey policy | setup, sign-in, user management, import of a configuration | sign-in, file sharing |
| Sign-in (`api/auth/{routes,totp,passkeys}.ts`, `api/db/{totp,login-attempts,challenges}.ts`) | password, enrolment, recovery codes, tickets, challenges, lock | password, code, recovery code, passkey, enrol, change of password | accounts, automatic bans |
| SSO (`api/auth/oidc.ts`, `api/oidc`) | clients, codes, tokens | agree, exchange, ask | accounts |
| Apps (`api/apps/{staging,framework,routes,repo,trust}.ts`, `api/db/installed-apps.ts`) | installed and staged packages, the apps' directories, trusted publishers | install, approve, update, remove | repositories, the browser |
| App tasks (`api/apps/scheduler.ts`, `api/db/scheduled-tasks.ts`) | task rows, the batch being performed | register, drop, tick | apps, hosts on the network |
| Folder rules (`api/files/access.ts`, `api/db/acls.ts`) | grants, members, rules | grant, rule, join, delete; decide at a path | every route that touches a file |
| Files (`api/files/{routes,trash}.ts`, `api/db/trash.ts`) | the shares' trees, the bin and its rows | write, move, copy, delete, restore, empty | folder rules |
| Automatic bans (`api/system/{auto-ban,honeypot}.ts`, `api/db/ip-bans.ts`) | counters, ban rows, the kernel's set | note a failure, ban, lift | firewall |
| Health monitor (`api/system/health-monitor.ts`) | what was reported of each disk | scan, mail | disks, mail server |
| Web certificate (`api/system/acme-manager.ts`, `api/admin/routes.ts`) | `cert.pem`, `key.pem`, `acme_state`, a flag in memory | upload, self-sign, request, renew | the CA, nginx |
| Dynamic DNS (`api/system/ddns.ts`) | settings, state of the last check | check by timer, by hand | echo services, provider |
| Folder quotas (`api/db/shares.ts`, `packaging/opennas-storage`) | caps and projects of the rows, tags of the trees, limits of the filesystem | set a cap | storage helper |
| Volumes (`api/admin/routes.ts`, `api/system/storage.ts`, `packaging/opennas-storage`) | filesystems, the array and `mdadm.conf`, `/etc/fstab` and its scratch file, mounts, mountpoints | init, expand, build and destroy an array, mount, unmount, erase, quotas | storage helper, the boot |
| Notification centre (`api/notifications`, `api/db/notifications.ts`, `web/store/notifications.ts`) | rows, the hub's sockets, the tab's list | raise, push, load, read, remove, clear | live updates |
| Live updates (`api/ws.ts`, `api/system/collector.ts`, `web/store/system.ts`) | the listeners and the timer of one loop, sockets at both ends, the tab's count | connect, subscribe, sample, close, reconnect | the browser |
| Windows (`web/store/windows.ts`, `web/components/desktop`, `web/lib/app-bridge.ts`) | place, order and state of each window, the focus, close guards | open, drag, snap, resize, minimize, close | apps in their frames |
| VMs, containers, packages, SSH, logs | kept by the tools they call | pass-through | external tools |

What makes each correct, and what is hard:

* **Firewall**: an administrator who locks themselves out gets the machine
  back. Hard: the timer races confirm, revert and further changes; the helper
  is several steps; a restart forgets the timer; a reboot loads the boot file.
* **Self-update**: there is always a version that runs. Hard: the swap is two
  renames, either of which may be the last thing before the power goes;
  the new version may not start; a restart may fail and the old process answer in its
  place; nothing keeps two helpers apart.
* **Scheduled maintenance**: each slot once, none forgotten. Hard: runs
  outlast their period; edits and deletes during a run; restarts; the
  boundaries of days, weeks and months.
* **File sharing**: whoever the rows grant a share reaches it, and nobody else.
  Hard: five stores are kept in step by sequences of commands that interleave
  and fail one by one.
* **Accounts**: an administrator always remains, a disabled account is out, a
  session is good for what it was granted for. Hard: the session is looked up
  when the header arrives and the handler runs later; handlers await hashes
  between reading a row and acting on it.
* **Sign-in**: a proof is good once, a second factor is not got around, a lock
  holds. Hard: several guesses are in flight at once, and enrolments and
  passwords change under them.
* **Apps**: an app holds only permissions that an administrator approved; its code
  and its manifest are of one package; removing it leaves nothing. Hard: every file
  operation is an await, a review is minutes older than its commit, and nothing
  keeps two changes of one app apart.
* **App tasks**: no task runs twice at once, none starves, none outlives its
  app. Hard: a batch holds rows across awaits in which they change.
* **Folder rules**: the nearest rule decides. Hard: accounts, groups, grants
  and rules at several depths meet.
* **Files**: a deleted file can be restored or is gone because someone said so.
  Hard: file and row change in two steps, and a move between volumes is a copy
  and a removal.
* **Volumes**: a volume is there after the next boot, and nothing with data on it
  is wiped but on request. Hard: `fstab` is rewritten line by line through one
  scratch file, labels are used again, and disks are judged before they are
  formatted.
* **Notification centre**: what is raised shows in an open desktop. Hard: pushes,
  the answer of a load and removals cross.
* **Live updates**: one loop, which runs while somebody listens; a tab that lost
  its connection gets another. Hard: either end closes at any time, and the other
  notices later.
* **Windows**: every window can be reached and closed. Hard: geometry saved on
  one screen is used on another; apps that are asked whether to close answer
  late or never.
* **Bans, alerts, certificate, DNS, quotas**: what is stored of the outside
  (the kernel's set, a mail, two files, a provider's record, a filesystem's
  limit) is true of it. Hard: the outside is told by an await that may fail,
  cross another, or be the last thing before a stop.

## The modules

| Module | Models | Extends |
|---|---|---|
| `Firewall` | changing the host firewall, up to the next boot | |
| `FirewallProofs` | what TLAPS proves about it | `Firewall`, `TLAPS` |
| `SelfUpdate` | updating and rolling back OpenNAS | |
| `Calendar` | `nextRun`, and what it ought to return | |
| `TaskRunner` | scheduled maintenance | `Calendar` |
| `Upkeep` | maintenance and updates side by side | `TaskRunner` (instantiates `SelfUpdate`) |
| `UpkeepProofs` | what TLAPS proves about the four above | `Upkeep`, `WellFoundedInduction`, `TLAPS` |
| `Sharing` | from grants to what the daemons serve | |
| `SharingProofs` | what TLAPS proves about it | `Sharing`, `SequenceTheorems`, `FiniteSetTheorems`, `TLAPS` |
| `Accounts` | accounts, roles, sessions and who may do what with them | |
| `AccountsProofs` | what TLAPS proves about it | `Accounts`, `TLAPS` |
| `SignIn` | how one account's sign-ins are proved | |
| `SignInProofs` | what TLAPS proves about it | `SignIn`, `TLAPS` |
| `Consent` | what the review of apps promises: the abstract specification | |
| `Apps` | reviewing, installing, updating and removing apps | (instantiates `Consent`) |
| `AppsProofs` | what TLAPS proves about it | `Apps`, `WellFoundedInduction`, `SequenceTheorems`, `TLAPS` |
| `AppTasks` | the work installed apps schedule | |
| `AppTasksProofs` | what TLAPS proves about it | `AppTasks`, `SequenceTheorems`, `FiniteSetTheorems`, `TLAPS` |
| `Access` | who may do what at a path | |
| `Files` | files, and the recycle bin | |
| `Bans` | blocking addresses, under a firewall that changes | |
| `Alerts` | reporting disks | |
| `Certificates` | the web interface's certificate | |
| `Ddns` | dynamic DNS | |
| `Quotas` | size caps of shared folders | |
| `IdProvider` | OpenNAS signing accounts in to other applications | |
| `Volumes` | disks, arrays, mounts and `/etc/fstab` | |
| `Windows` | the windows of the desktop | |
| `Live` | the sockets and the loop of live updates | |
| `Notices` | the notification centre, from the rows to the tab | |
| `MCFirewall`, `MCAccounts`, `MCSignIn`, `MCApps`, `MCAppTasks`, `MCUpkeep` | instances for TLC | the module of the name |
| `Storage` | the parts that store the files, side by side | (instantiates `Access`, `Files`, `Quotas`, `Volumes`) |
| `Parts` | the parts around the core, side by side | `Bans` (instantiates `Alerts`, `Certificates`, `Ddns`, `IdProvider`, `Windows`, `Live`, `Notices`) |
| `PartsProofs` | what TLAPS proves about the parts of these two | `Parts`, `Storage`, `WellFoundedInduction`, `FiniteSetTheorems`, `TLAPS` |
| `MCStorage` | an instance of `Sharing` and of the parts of `Storage` | `Sharing`, `Storage` |
| `MCParts` | an instance of the parts of `Parts` | `Parts` |

`Upkeep`, `Storage` and `Parts` compose parts that share no state: a step is one of
a single part. The theorems are about those compositions. In the runs, `MCUpkeep`,
`MCStorage` and `MCParts`, the initial state picks the part that moves, and the
others stand still: since no part reads what another writes, each passes through the
same states as when all of them move, and TLC sees their sum and not their product.
Nothing is said of two of them together. The code has little between them: the
storage helper that sets quotas and the one that makes volumes both rewrite
`/etc/fstab`, which `Volumes` has whole; a folder of a share on a volume that is not
mounted is not modelled.

An operator that its comment calls a mutant is no part of any specification: it
states a plausible mistake in the operator beside it, and shows that a property
notices.

### Firewall

`PUT /admin/firewall` cancels any waiting rollback, loads the ruleset through
the helper, stores it, arms a timer and answers with a token. Confirming with
the token cancels the timer; reverting, or the timer, loads the previous
configuration and stores that.

Variables: `stored` (settings row), `kernel` (the nftables table), `bootFile`,
`draft` (the one file every apply writes and the helper loads), `pending`
(`pendingRevert`) and `timers` (armed `setTimeout`s), `jobs` (for each tab and each
token, the handler or callback in flight and the `await` it stands at), `ui` (the
token a tab shows its confirmation box for). `PutFirewall` is the handler up to its
first `await`; `ProbeStatus`, `WriteRuleset`, `LoadRuleset`, `PersistRuleset`,
`DropTable`, `EraseBootFile` are `loadRuleset` and the helper, with their failures
(`WriteFails`, `LoadFails`, `PersistFails`, `EnableFails`, `TableStays`,
`DisableFails`); `SavePut`, `ArmRevert`, `NothingToConfirm`, `RefusePut`,
`FinishRollback` what the callers do afterwards. Each call of `firewallStatus` is a
probe of its own, and any of them may answer "unavailable" although nftables is
there (`ReadsUnavailable`): the helper is run through `runCapture`, for which a
failure is an empty answer. `CallbackDies`: nobody awaits the timer's callback, so
an exception in it ends the process. `Reboot` loads `bootFile`.

A configuration is a model value; the one thing a ruleset's contents decide is
whether it refuses the administrators' new connections (`Lockout`). Every ruleset
accepts established ones (`api/system/firewall.ts:222`), so a tab that kept its
connection may confirm a lockout, and `Confirm` asks nothing of the kernel.
Validation by `nft -c` and loading by `nft -f` are one step that succeeds or does
not.

`orderly` and `agreed` are history: that no two jobs overlapped, no probe failed,
nothing failed halfway and no change was superseded or cut off by a restart; and the
last configuration nobody has to confirm any more.

### SelfUpdate

Variables: `tree` (what `/usr/lib/opennas`, `.new` and `.old` hold: a version,
nothing, or a partial tree), `service` (the version whose service files are
installed), `running`, `stage`, `status`, and for each administrator the request and
the helper in flight. Each command of `packaging/opennas-update` that changes a tree,
the service or the status is an action; `Moved` is `mv` of directories, into an
existing one if there is one. `PowerLoss` ends every process and starts what is
installed. A failing unpack leaves a partial tree. Versions are numbers in the order
of `compareVersions`; `Working` are those that start, and `Suits` says with whose
service files, which an update installs and no rollback puts back (`Install`).

What may fail, does. `RestartService` passes over a restart that fails, as the
script does: the old process goes on, and answers the probe, which asks for no
version; or nothing comes up. Under `set -e` a command that nothing stands behind
ends the script without a word (`Dies`), an `rm -rf` half way through the tree
(`HalfDone`); `fail` itself may not get its status written (`Unsaid`). A rollback on
request is not detached from the backend (`attached`), and may die at the restart it
orders. `mishap` is history: which of these happened, and `InOrder` is what is left
when those that spoil the trees did not. The properties name them one by one: each
is a way in which the script really ends up elsewhere, see "Other places".

### Calendar and TaskRunner

`NextRun` follows `nextRun` branch by branch over a calendar whose days, weeks
and months are as long as the constants say. Instants are half minutes, so that
"in the middle of a minute" exists. Changes of the clock (summer time) are left
out, and months other than the current and the next are never reached by the
code. `IsSlot` says independently what a schedule names.

In `TaskRunner` every route and the tick are one action each, since none of
them awaits. `ticked` and `asked` count the runs the tick and `run now` have in
flight; `running` is the tick's set; `served` is history. The result a run
writes finds its row changed, deleted, or not: the code updates by id alone.
The limit of 20 tasks is left out, and so is what a run does.

### Sharing

Variables: the rows (`users`, `groups`, `shares`, `enabled`); the generated
files (`file`); what the daemons have read (`loaded`, `None` when down), the
runlevel (`boot`), system users, Samba's accounts and system groups; and
`todo[p]`, the commands handler `p` still awaits. A route changes the rows,
perhaps writes the files, and puts its commands in `todo`; each command is an
action that may fail, and a failure is logged and passed over exactly where
`priv` does. `Boot` is the enforcement of the service states that `index.ts`
starts. `ReadGroup` reads the members a group has at that moment and works out
which to add and to remove.

Abstractions: read-only and read-write are one level; guest access, Time
Machine, recycle bins and share flags are not there; AFP's unit has the shape
of SMB's and is left out; `smbpasswd -a` and `-e` are one step; a quota is a
pause. A share whose list of valid users is empty names nobody, and `Reaches`
says what Samba makes of its configuration: both are about Samba, not about
code of this repository. Names are not reused for other accounts, except by
creating an account or a group again.

History: `unwritten` (rows changed after the last successful write by a route
that does not write, or the write failed), `unserved` (units whose last reload
failed or was left out), `muddled` (handlers overlapped, or a command failed).

### Apps

A package is validated and reviewed in one go. If it asks for nothing its app
does not hold, and (for an install) its publisher is trusted, it is committed;
otherwise it waits in memory for an administrator's approval.

Variables: `row` (whose manifest `installed_apps` holds), `files` (which
package each file in the app's directory is from), `kept` (apps that tasks,
grants or access lists speak of), `trusted`, `staged`, and `job[h]`, the
handler in flight and the `await` it stands at. `Install` is
`prepareInstall` up to its first `await`; `StartUpdate` and `ApplyUpdate` are
`applyUpdate` before and after the download, which may bring any package;
`ClearCode`, `WriteFile` and `Record` are `commitPackage`; `RemoveApp`,
`RemoveCode` and `FinishRemoval` the removal route, whose row goes first.
Each file operation may fail (`CommitFails`, `RemovalFails`); `Discard` is a
refusal or the five minutes running out.

Abstractions: a package is its app, the permissions it asks for, the hosts in its
manifest (`HostsOf`, none without the permission to fetch) and its valid signature,
if any; its files are `1 .. Parts`. `Granted` is what an app may do, `Reached` the
hosts that the fetch proxy and the scheduler let it reach; both are the row's, and
`NewPermissions` compares the first only, as `reviewPackage` does. A removal of a
directory is one step. Which repository an app is pinned to, the cached list of
updates (a download may begin for any app that is installed), settings and stored
data are not there; whether an app is enabled is in `AppTasks`. The storing of
tasks, grants and lists is one action, `Acquire`.

History: `approved` (every permission an administrator ever approved for an
app), and `rough` (apps whose last change met another one, failed, or was cut
short), which `InOrder` excepts: the code neither keeps changes apart nor
repairs them.

### AppTasks

Variables: `app` (installed, enabled, and whether the manifest still has what
the tasks need), `leaving` (apps whose row is gone and whose files are being
removed), `row` (`scheduled_tasks`), `batch` (the rows, as read, that are still
to be performed), `fetching`. `Minute` is the passing of time and the tick;
`DropOrphans`, `RefuseRun`, `Notify`, `StartFetch` and `EndFetch` are one
iteration of `runDueTasks`, of which only the fetch awaits: what is atomic in
the code is split here only between entries of a batch, which adds
interleavings and takes none away. `RemoveApp`, `FinishRemoval` and
`RemovalFails` are the removal route.

Time is relative: `due` is the number of ticks left, and an interval of `n`
ticks is due at the `n`-th tick after it was armed. Of rows that are late only
their order is kept, which is all `dueTasks` reads. Rows that are equally late
come in any order. An entry's `live` stands for the row's id: it is false once
the row it was read from has been deleted. There is one user; access lists and
development apps are left out, as is what is sent and stored.

`overtaken` is history: tasks last armed by a run that began under another
interval (`completeRun` is given the interval as it was read).

### Accounts

Variables: the rows (`live`, `gone`, `admins`, `disabled`, `mustChange`,
`twoFactor`, `keyed`), the settings (`autologin`, `requirePasskey`),
`sessions` (for each account, how its sessions came to be), and `requests[r]`:
the request in flight, with the account and kind of session that the cookie
gave when its header arrived. `Arrive` is the plugin's hook; `Administer` are
the user-management routes, each in the step in which it reads and writes the
rows; the handlers that hash in between (`BeginSetup`, `BeginPassword`,
`BeginChange`, `BeginDisableTwoFactor`) pause, and `Resume` goes on with what
they had read. `MayCall` is the gate of pending actions, and the handlers whose
paths a gated account may still call do without it. The gate is a hook of `/api`
only: `Authorize`, which is `POST /oidc/authorize` at the root, has none, and
`codes` are the accounts for which the identity provider then holds a code, until it
is exchanged or lost (`SpendCode`; its protocol is in `IdProvider`). The pages of
installed apps (`/app-content`) are outside the gate as well; they are files, and
change nothing.

Sessions are told apart by their origin and not counted: "opened", "late" (the
sign-in was awaiting when the account was disabled), "autologin". A request's
own session may have ended while it waits for its body: the code looks at it
only once, and so does the model. `ImportConfig` (an import of a configuration)
is in `ImportSpec` only. Ids are never used again.

### SignIn

One account. Variables: `password` and `totp` (state, secret, last step
honoured) as numbers that count up, `codes`, `tickets`, `challenges`,
`attempts` (the lockout row), `sessions` by the password they were opened with,
`requests` with the `await` each stands at. Time is the authenticator's step.
`Failure` doubles the lock as `recordFailure` does. `spent` is history: how
often each proof opened a session or confirmed an enrolment.

Abstractions: a guess is right for one password or for none; a code is its
secret and step; signatures verify for one challenge. A challenge lives as long
as a ticket, which is what the two constants are. Rate limits, the breach
list and the counters of passkeys are left out.

### Consent

`held` (what each app may do, `may`, and which hosts it reaches, `reach`) and `agreed`
(the permissions that were ever agreed to for it): `Agree` widens the second, `Take`
sets the first, its permissions within what was agreed to. Of hosts it promises
less: none without the permission to fetch, and whichever the package names with it.
`Apps` implements it under `held <- [may, reach]` of `Granted` and `Reached`, and
`agreed <- approved` (`ReviewImplemented`).

### Access

Variables: accounts, groups with their members, the share's guest level and
grants, the rules on folders, and the rule that is waiting for the folder to be
found on disk. `PathAccess` is the walk of `db/acls.ts`; `Nearest` states what
the comment above it promises without walking. Levels are their ranks.
Administrators bypass all of it in the code and are not there.

### Files

Variables: `tree` (content of each place), `bin` and `rows` (the recycle bin),
`work` (each request's step), and history: contents ever written, trashed, destroyed
on request, or replaced. A place is a folder on the bin's volume or on another one,
and a name as `uniquify` numbers them. `moveCrossFs` is a rename on one volume and a
copy and a removal between two. The editor and an upload truncate the file and write
it in place (`BeginWrite`, `EndWrite`); what is cut short leaves a part of a file
(`CutShort`), and an upload that turns out too large is removed with the file it was
replacing (`RefuseUpload`). So content that a write began to replace is gone
whatever becomes of the write, and `NothingLost` speaks of all other. `Crash` ends
every request between any two steps. With one request at a time nothing is lost;
with two, a restore that found its name free renames over a file written meanwhile
(`files/trash.ts:66`, `fs.rename` replaces), which is what the code does and why
`NothingLost` is checked for one.

### Bans

Variables: whether the kernel has the table, `trusted` (as stored), `change`
(the firewall's change under way: loading, then storing), `blocked` (the
kernel's set), `recorded` and `failures` (the rows), `trap` (decoys on),
`handlers`. Loading a ruleset empties the set; a ban decided before the new
networks are stored may land afterwards, and `late` remembers those.

### Alerts

Variables: the disks' health, whether mail is set up, the stored state, the
scan under way. `told` is history: the worst that was mailed of each disk since
it was last seen healthy; `unsure` are disks whose report the backend did not
live to send, or that recovered in a scan whose mail failed, which the
roll-back puts back among the reported (`health-monitor.ts:160`).

### Certificates

Variables: the settings, `acme_state` (`recorded`), the flag in memory, the two
files, the handlers. A pair has a number, and the names it is for. The daily
check, "Request now", an upload and a new self-signed pair write the files one
after the other, in the script's order or the backend's. `source` is history:
whose pair the files are, and who has written half of one.

### Ddns

Variables: the line's address, settings, stored state, the provider's record
of each host, the checks under way. `confused` and `alone` are history: hosts
whose record may differ from what a check last stored, because an answer was
not read, or checks crossed. An echo service may fail, and the provider may
refuse, lose an answer, or accept.

### Quotas

Variables: the rows (project and cap of each share), whether the volume has quotas,
the project each folder's tree is tagged with, the filesystem's limit of each
project in KiB, the saves under way. The helper divides the cap by 1024 (`Kib`):
what is left over is cut off, and a cap of less than a KiB becomes 0, which is no
limit. `CapIsEnforced` says "to the KiB": of those it says that there is none.
Deleting a share leaves the folder and its tag. `sure` is history: shares whose last
save was answered without a warning, and that no other save or removal crossed.

### IdProvider

Every handler is one step, so the module is about sequences: codes that come
back, from another application, with the wrong proof, late, or after their
account or application has gone. `presented` and `honoured` are history.

### Volumes

Variables: `fs` (the filesystem on each disk, on the array and in the free space
of the system disk, as a UUID), `label`, the array's `members` and whether
`mdadm.conf` lists it, whether the free space was `claimed`, what is `mounted` on
each mountpoint (a stack: a mount hides the one below), the mountpoints that
exist, `fstab` as a set of lines, `scratch` (`/etc/fstab.new`), and the command
each helper stands at. `InitDisk` and the other routes check what the route
checks, and start a helper; `Wipe`, `Mkfs`, `ReadFstab`, `CopyFstab`,
`DropScratch`, `AppendLine`, `Mount`, `Umount`, `Clear` and `Sweep` are the
commands of the helper that change something. `Reboot` cuts helpers short,
between `cat`'s truncation and its copy too, and mounts what `fstab` says.

Abstractions: one array; which disk of a volume is which partition, sizes, types of
filesystem and levels of redundancy are left out, and so is what fails for want of a
tool. An instance says which mountpoints begin with which (`Covers`). `spoiled` is
history: why the lines may be wrong (helpers crossed, one was cut short, a volume
was mounted over another or was busy, a line went with that of another label, a
volume was mounted by its label and has no line). `lost` is history: filesystems
wiped by a request that is not for erasing.

### Windows

Variables: the viewport, each app's window, `above` (the windows by `zIndex`: pairs
of them, the first in front of the second), the focus, `asked` (apps whose close
guard was asked). Geometry is whole numbers of a few units: a viewport is wider or
narrower than a phone, a window is clamped, halved, quartered or filled as in
`store/windows.ts`. `Drag` and `Resize`, at an edge or a corner, are a whole gesture,
and the pointer of a drag, which is captured, may leave the screen; `RequestSize` and
`ToggleMaximize` are also what an app asks for over its bridge, the second on a
phone too. `PressClose` asks a guard if there is one; `Allowed`, `Declined` and
`TimesOut` are its answers, `Closing` and `Removed` the 140 ms of the animation.
`strayed` and `slipped` are history: windows put back where another screen had them,
until a gesture brings their title bar onto this one; and windows that are beyond the
left edge, to which `Window.tsx:61` has no bound, because the pointer went off the
screen with them or because their app made them narrower while they hung over it.

### Live

Variables: the tab's count, socket and flag; `link` and `served`, the two ends of
each connection, which notice a close in their own time; `timers`
(reconnections that wait), `starting` (runs of `startStreaming` that await the
static facts), `unsubscribe` and `leaked` (listeners the loop holds that the
connection can remove, and that nobody can), `running` (the loop's interval). The
tab sends one "subscribe" when its socket opens (`Subscribe`). Any other client may
say what it likes (`Chatter`): the frames of one chunk are handled in one go, each
"subscribe" of them awaits the facts, cached or not, and those that found no
listener all add one afterwards (`Hear`). `hasty` is history: that a connection was
accepted before the facts were known, or that one chunk held several subscribes.

### Notices

One user, one tab. Variables: the rows, the tab's list, what was pushed and not
received, whether the tab's socket is with the hub, the load under way and its
answer, the requests under way. `torn` is history: why the list may lack a row.

## What is checked

| Run | Checks | Shows |
|---|---|---|
| `firewall` | `PendingIsArmed`, `OrderlySettled`, `LockoutLifted` | no interleaving, failure or restart leaves a confirmable change without its rollback; orderly use with no failing probe settles exactly; a lockout nobody confirmed lifts by itself |
| `upkeep` | `ArmedForNearest`, `RunningIsReal`, `SlotServedOnce`, `DueIsServed`; `WorkingVersionRemains`, `NoDowngrade`, `UpdateEnds` | `nextRun` is right at the boundaries and rows stay right through edits; a slot is served once and not forgotten. With one helper at a time a working version is in place or set aside at every instant, and in place at the end; every helper reports an end; no update goes backwards: each but for the mishaps it names, which the code does not survive |
| `storage` | `RowsAreServed`, `ServicesAsConfigured`, `ReachableIsGranted`; `NearestRuleDecides`, `DenyingNeverWidens`; `NothingLost`; `CapIsEnforced`; `VolumesAreKept` | the generated files converge to the rows whatever overlaps, and daemons serve the files; handlers one at a time give exactly the access the rows grant, once the files have been written since an account was last deleted; the walk over folder rules decides what the nearest rule says; no content is lost at any stop but what a write began to replace; a cap is what the filesystem enforces, to the KiB; a volume has its line, and none is wiped unasked |
| `storage_group` | `RemovedLosesAccess`, violated | overlapping changes of a group leave a removed member in it |
| `quota_reuse` | `NeverReused`, violated | a deleted share's project, which its folder keeps, is handed to another share |
| `app_tasks` | `BatchesInStep`, `ServedAgain`, `OrphansGo` | a slow batch neither overlaps itself nor starves a task, and a removed app's tasks that are on are cleaned up |
| `apps` | `AppsAsRecorded`, `ReviewImplemented` | every step is one of `Consent`'s or a stutter, so no permission is ever held that was not approved (hosts are not reviewed again); changes that do not overlap leave code and manifest of one package, and a removal leaves nothing |
| `accounts` | `ActiveAdminRemains`, `DisabledSessionsAreLate`, `AutologinAsConfigured`, `GateHolds` | whatever two requests had read before, an enabled administrator remains, a disabled account is in only by a sign-in already under way, a console's session is of the account the setting names, and an account with something pending can only clear it, or get itself a code from the identity provider, which the gate is not in front of |
| `accounts_import` | `ActiveAdminRemains`, violated | an import of a configuration can leave nobody to administer |
| `sign_in` | `ProofsInOrder`, `LockNeverShortened`, `SecondFactorHolds` | overlapping requests spend no proof twice, finish no sign-in under the next enrolment, shorten no lock, and open no session without the factor that is on |
| `parts` | `StoredIsServed`; `TrustedGetIn`; `ReportedWasTold`; `CertificateAsRecorded`; `CodesAreSingleUse`; `WindowsAtHand`, `CloseIsServed`; `ListenersAreConnections`, `Reconnects`; `NoticesInOrder` | what is stored of the provider, the disks and the certificate is true; a trusted address is let in; a code is good once. Windows stay within reach and close; the loop runs for those who listen, one listener each unless a client was hasty, and a tab that lost its socket gets another; the list shows every row |
| `live_idle` | `IdleCostsNothing`, violated | a connection that closes, or subscribes, while it awaits the static facts leaves a listener, and the loop samples for nobody |

The type invariants are conjuncts of the properties above (`Firewall`'s is a
theorem), and some of these are conjunctions of properties that the modules name
apart: `WorkingVersionRemains` of `NeverWithoutOpenNAS` and `LeavesAWorkingVersion`,
`RowsAreServed` of `FilesMatchRows` and `DaemonsServeFiles`, `BatchesInStep` of
`NoDoubleRun` and `ArmedWithinInterval`, `AppsAsRecorded` of `CodeIsOfRow` and
`NothingLeft`, `ProofsInOrder` of `ProofsSpentOnce` and `TicketOfItsEnrolment`,
`VolumesAreKept` of `ComesBack` and `NothingWiped`, `WindowsAtHand` of `Reachable`
and `FocusIsInFront`, `NoticesInOrder` of `ListHasRows` and `OneRowPerCondition`.
The violated properties are what a comment or a document says and the code does not
do; `PROJECT.json` quotes both.

### Other places where code and text differ

Met while modelling; the models contain each of these behaviours, and the
properties are stated so that they hold of the code.

* `admin/routes.ts:985`: a ruleset "is loaded, and a timer puts the old one back". A
  status probe that fails for any reason (`system/integration.ts:400`) reads
  as a machine without nftables: line 1005 then stores a ruleset that was not
  loaded, in the rollback too, and line 1143 arms no timer for one that was.
* `admin/routes.ts:986`: a confirmation comes "from a connection that still works".
  The ruleset lets established connections through (`system/firewall.ts:222`), so a
  tab that kept its connection can confirm a lockout of every new one.
* `packaging/opennas-firewall:33` has it that a ruleset that bricks the network
  "can never be the one that comes back" at boot. The helper copies any ruleset
  that loads (line 36), before anybody has confirmed it.
* `admin/routes.ts:986`: the timer "puts the old one back". After a second
  unconfirmed change (line 1136) that is the first unconfirmed one.
* `packaging/opennas-update:165`: the script waits "for the new version to actually
  answer". After a restart that failed, which line 162 lets pass, the old process
  answers: "Updated" is reported and the old tree removed (lines 176 to 180), and
  what is in place was never started.
* `system/updater.ts:143`: a channel that has rolled back "can't talk a machine into
  'updating' to an older build". It is compared with the process that runs: after
  such a restart, an older build than the installed one is moved in.
* `packaging/opennas-update:97`, 98 and 138: an `rm` or `mkdir` that fails ends the
  script under `set -e` with "running" in the status file; half an old tree that is
  left this way is what "Go back" installs (line 192). A rollback does not put back
  the service files of lines 147 to 160, and one on request is not detached (line
  230), although the restart kills whoever is not (line 26).
* `system/task-runner.ts:152`: the set of running tasks does not hold runs
  started by hand, so a slow one is started again beside it by the tick.
* `admin/routes.ts:773`: NFS rules take effect "immediately"; their routes
  write the file and do not reload the server (line 800).
* `admin/routes.ts:497`: `DELETE /users/:id` writes no files. Until they are written
  again `smb.conf` names the account, and one created under its name reaches shares
  that no row grants it.
* `admin/routes.ts:596` accepts caps of less than 1 KiB, and
  `packaging/opennas-storage:234` makes 0 of them, which is no limit: it is answered
  without a warning.
* `files/routes.ts:498` and 522 write in place: a stop leaves neither the old content
  nor the new one, and an upload that is refused for its size takes the file it was
  to replace with it (line 524).
* `packages/shared/src/types/apps.ts:99`: an administrator "always approves a concrete
  list" of hosts. `apps/staging.ts:63` compares permissions only, so an update of an
  app that may fetch goes in with any hosts.
* `apps/repo.ts:338`: an update of a publisher nobody trusts that asks for
  nothing new goes in without review (line 340).
* `auth/pending.ts:13`: a gated session "can reach nothing but the handful of routes
  needed to clear it". The hook is on what is under `/api` (`server.ts:138`); the
  identity provider's routes (`server.ts:179`) and `/app-content` are not, and
  `POST /oidc/authorize` gives such a session a code.
* `auth/autologin.ts:81` re-checks "every gate" and not two-factor: a console's
  account that turns it on is still signed in.
* `auth/routes.ts:635`: other sessions go when the password changes; a ticket
  of the old password is not a session, and may still be finished.
* `system/health-monitor.ts:19`: a disk that recovers alerts again when it
  relapses, except when the scan that saw it healthy could not send its mail.
* `system/acme-manager.ts:121`: a failed run leaves the working certificate
  "exactly where it was", unless it fails between the two files; and
  `acme_state` says "running" for ever after a restart in a run, which keeps the
  page's button disabled until the next renewal.

Five more are stated in the modules as properties that TLC refutes within seconds
when it is given them; they are behind exceptions that the checked properties
make:

* `system/ddns.ts:265`: a host name that replaces another is not pointed anywhere
  while the address stays the same, since the state of the old one counts as
  sent (`Ddns`, `KeepsPointing`).
* `packaging/opennas-storage:286`: `erase` drops every line of `fstab` that
  contains the mountpoint. Erasing "data" takes the line of "data2", which is
  mounted until the next boot and not after it (`Volumes`, `OthersComeBack`); and
  erasing a volume that is busy drops its line and answers "ok".
* `web/store/windows.ts:214`: a window is restored to geometry of another screen,
  and nothing clamps it: after a phone its title bar is under the taskbar until
  the viewport changes (`Windows`, `AlwaysReachable`).
* `web/store/system.ts:78`: the late close of a socket that was given up makes the
  tab forget the one it has, and open another (`Live`, `OneConnection`).
* `web/store/notifications.ts:111`: a notice that is pushed while the list is
  loaded is taken out of it by the answer (`Notices`, `OpenDesktopUpdates`).

And five that the models contain without a property. A window can be dragged, or be
made narrower by its app, until it is wholly to the left of the screen
(`Window.tsx:61`), where nothing brings it back but a change of the viewport
("slipped" in `Windows`). A client that sends "subscribe" twice in one chunk gets
two listeners (`ws.ts:72`), of which one stays ("hasty" in `Live`). Of two volumes
made under one name, the second takes the line of the first; when it is erased, the
first, which was unmounted meanwhile, can still be mounted by its label
(`packaging/opennas-storage:276`), and is not there after the next boot
(`MountVolume`, "unlisted" in `spoiled`). Two helpers at once share
`/etc/fstab.new`, of which one may remove it and the other copy nothing over `fstab`
(`CopyFstab`). Opening an app during its window's closing animation focuses the
dying window (`OpenApp`).

### Bounds

* `firewall`: two tabs, a harmless ruleset, with which it starts, a lockout and
  "off"; two changes, so that one supersedes, overlaps or follows another; one
  restart or reboot anywhere. A third change meets nothing new: at most two jobs and
  one waiting rollback matter to each other, and a third token only renames one.
* `upkeep`: two tasks; five days of two minutes in two months of unequal length,
  weeks of two days, of which the clock runs through eleven instants, so that "the
  3rd" is clamped and the others come round twice; two edits, one restart, one run
  by hand. Two administrators, three versions of which the middle does not start,
  the first starting with the service files of the middle one and not with those of
  the last; two helpers (at once, or one after the other, which is what it takes to
  move in a version over one that never came to run), one power loss at any instant.
  Failures are not counted: any command may fail every time.
* `storage`: sharing has one account, group, share and NFS client, two handlers and
  the boot enforcement, any two changes from any grants with the services on and the
  group full, one mishap (a failed command, read, write or mkdir, a restart, a
  reboot); what it leaves out of the start the two changes reach, and the proofs are
  for any start. Folder rules are at two depths for one account and two groups,
  three entries; files are of one request over two folders on two volumes, two
  names, two contents, one file in the bin at a time, one stop, any number of writes
  cut short; caps of none, one byte and two KiB of two shares ever made, under two
  names, two saves, one failure; volumes of two disks, an array of them and the free
  space, two labels of which one begins with the other, two helpers, three requests
  of which the third comes when the others are done, one reboot. Three requests are
  enough to make a volume, put another in its place, and erase or mount either; two
  are enough to cross. The two handlers are interchangeable, and so are the two
  groups: that is the symmetry used.
* `apps`: three packages of one app, the first unsigned and asking to fetch from one
  host, the second signed and asking the same for another host, the third asking for
  more; and one of another app that asks for nothing; packages of two files, so that
  a half-replaced directory exists; two handlers; six of them started, enough to
  install, update and remove with two overlapping at each; two staged packages at
  most, so that a third displaces one. The handlers are interchangeable, which is
  the symmetry used.
* `app_tasks`: two tasks of one app, of which a batch takes one, so that one
  can crowd the other out; intervals of one and two ticks. Nothing else is
  bounded: the state space is finite as it is.
* `accounts`: two accounts, of which one has a device for a second factor, two
  requests in flight. A state with more than two kinds of sessions and codes between
  them is checked, and not continued. Two accounts are what the last-administrator
  check is about; the proofs are for any number, and for every state.
* `sign_in`: two requests in flight, two passwords, one secret, two recovery
  codes, one ticket and one challenge, a lock after the first failure that the
  second doubles, a clock of two steps in which everything that expires does.
  A proof can be presented twice, at once or in turn, and replaced while it is. A
  state with sessions under both passwords is checked, and not continued; the
  proofs are for every state.
* `parts`: two hosts, two addresses, the timer and a button, two changes; one
  address, two handlers, two failures; two disks, two upsets; two lists of names,
  two pairs, one fault; two applications, two codes. Two windows, first on a wide or
  a phone's screen and then on one of three, one of an app that never answers, three
  places for the pointer, of which one is beyond the left edge, two moves; two
  connections, two components, one fault (a connection lost, or a chunk of up to two
  subscribes of another client); three notices of one condition or none, a list of
  two, two requests, one upset.
* `storage_group`, `live_idle`, `quota_reuse`, `accounts_import`: the least that
  shows it.

Deadlock checking is off where all bounds may be used up with nothing in
flight; it is on in `apps` and `app_tasks`, where time or an administrator can
always go on.

### Fairness

* `Firewall` (`FairSpec`): the event loop reaches every callback, each helper
  ends, and an armed timer fires. No fairness for anything a person does, so
  `LockoutLifted` holds with everybody locked out.
* `SelfUpdate` (`Fairness`): a helper that has started gets to its end; its
  probe loop is bounded by the clock. Nothing else is fair.
* `TaskRunner` (`Fairness`): the interval fires, and work ends, since each
  command has a time limit.
* `AppTasks` (`FairSpec`): the interval fires, and a batch goes on, since a
  request has a time limit. A restart forgets the batch, and one in every
  minute would forget every batch: both liveness properties except endless
  restarts, which no fairness rules out.
* `Windows` (`Fairness`): the timers fire, that of the guard that was asked and
  that of the closing animation. Nothing is asked of the app.
* `Live` (`Fairness`): timers fire, sockets open, close and are noticed, and the
  backend accepts. Nothing is asked of the person in front of the tab.
* `Ddns` (`FairSpec`, in no run): the timer comes round, awaits end, and some time
  the echo services and the provider answer as they should (strong fairness, since
  each is asked again and again). `KeepsPointing` is violated all the same.
* The other modules state no liveness and assume no fairness.

## What is proved

`FirewallProofs`, from `ConstantsAssumption` only (any tabs, any rulesets, any
bounds):

* `TypeCorrect`: `Spec => []TypeOK`.
* `DeadMansSwitch`: `Spec => []PendingIsArmed`.
* `ConfirmOrRevert`: `Spec => []OrderlySettled`, of orderly use in which no probe
  failed.

The first two rest on `SwitchInv`. `PendingIsArmed` alone is not inductive: a
callback that ends clears `pending` whatever it holds, and to know that this
leaves no armed timer unrecorded and no record without a timer one has to know
whose tokens are where. `TokensInv` says it: an armed timer's callback has not
started, tokens of timers are distinct, a token's job is a callback and a tab's
never is, and the token of a request that has not armed its timer is nowhere
else. Type correctness needs it as well, for the token `ArmRevert` stores. The
step lemmas take one action at a time; `MovingOn`, `Ending` and `AtRest` say
once what all actions of a kind have in common.

`OrderlySettled` speaks of rest and is not inductive either: `OrderInv` adds
what a single job in flight has achieved at each step (`HostAt`: what kernel,
boot file and draft hold by then; `GoalOf`: what the job goes back to or tries
out). `OrderStart`, `OrderMove` and `OrderEnd` are its three ways to change.

`AppsProofs`, from `AppsAssumption` only (any apps, packages, permissions and
handlers, any bounds):

* `NothingWidenedSilently`: `Spec => []PermissionsApproved`. It is of permissions:
  the hosts an app may fetch from are not reviewed again when it is updated.
* `ReviewIsImplemented`: `Spec => ReviewImplemented`, the refinement of `Consent`.

A package is compared with the row, or approved, before the first `await` of
its commit, and written to the row after the last one, when the row it was
compared with may be gone. `IInv` therefore adds that every commit in flight
asks for nothing unapproved (`CommitsApproved`), which follows at its beginning
from `PermissionsApproved` itself (`HeldIsApproved`) and holds until its end
since an approval is never forgotten. What is staged needs no invariant: a
package is approved as it is taken out. `BeginKeeps`, `MoveKeeps` and
`RestKeeps` say once what a handler's beginning, moving on and ending leave
true of every job. TLC has confirmed `IInv` on the instance of `apps`.

The refinement needs the same invariant: `ConfirmReviewed` is an agreement,
`RecordReviewed` takes what `CommitsApproved` says was agreed to,
`RemoveReviewed` takes nothing, and every other action leaves rows and approvals
alone (`UnseenStep`). An approval and the row it leads to are two steps, so no
action has to be two steps of `Consent`.

* `CodeMatchesManifest`: `Spec => []CodeIsOfRow`.

`CodeIsOfRow` speaks of apps that nobody is changing. `CodeInv` adds what a
change that has met no other has achieved by each of its awaits (`Undisturbed`):
it is alone with its app, the files it wrote are its package's, and the row of an
app it removes is gone. A handler disturbs only those that met it, so it is
enough to say of each way to begin, go on, end and wait what it leaves in place
(`BeginsCode`, `GoesOnCode`, `EndsCode`, `WaitsCode`).

* `AppsStayAsRecorded`: `Spec => []AppsAsRecorded`, that is the types and the bound
  of what is staged, `CodeIsOfRow` and `NothingLeft`.

`RecordInv` adds the types of the other variables to `CodeInv`. `NothingLeft` speaks
of apps in order whose row is gone, and `InOrderBefore` says which these can be
after a step: only those that were so before it, or the one app whose removal ends
in it. So `LeftStep` asks of a step only that whatever it acquires, or stages as an
update, is of an app with a row. What the end of a removal leaves staged is computed
by a recursion (`StagedForOthers`). As in `UpkeepProofs`, the induction is one on
the numbers as a set, and `OthersStay` says what comes out of it: entries that were
there, in no greater number, none of them the app's. TLC has confirmed `CodeInv` and
`RecordInv` on the instance of `apps`.

`AccountsProofs`, from `AccountsAssumption` only (any accounts, any number of
requests in flight), about `Spec`, in which no configuration is imported:

* `AdministratorRemains`: `Spec => []ActiveAdminRemains`.
* `DisabledAccountsStayOut`: `Spec => []DisabledSessionsAreLate`.
* `ConsolesAreConfigured`: `Spec => []AutologinAsConfigured`.
* `GateIsKept`: `Spec => GateHolds`.

`IInv` adds to the three invariants, and to the types, that sessions belong to
accounts that exist, and that a request past its header, or a setup past its check,
implies that there is an account: without that, a setup that awaited its hash might
make an ordinary account the first. `NextInv` has one step per action; `Carried`,
`DoneTyped`, `AwaitTyped`, `RowsKept` and `FlagsKeep` say once what they have in
common. TLC has confirmed `IInv` on the instance of `accounts`. `GateIsKept` needs
the types alone: a request is only moved by its own handler (`OwnStep`), and each
handler is behind the hook, or opens the gate, or is the identity provider's
`Authorize`, which is outside it and gives a code to the one who asks and nothing to
anybody else (`PendingStep`).

`SharingProofs`, from `SharingAssumption` only (any finite set of accounts, any
groups, shares, clients and handlers, any bounds):

* `WhatIsStoredIsServed`: `Spec => []RowsAreServed`.
* `ServicesStayAsConfigured`: `Spec => []ServicesAsConfigured`.
* `ReachedIsGranted`: `Spec => []ReachableIsGranted`, from the next time the files
  are written after an account was deleted.

All three speak of a moment at which no handler is in flight, which says nothing
of the next one. `GrantedInv` says of every moment that what is not as it should
be yet is still to be done, and by whom.

For the first, `ServedInv` is enough, and it holds however handlers overlap: the
files are right or a write is ahead (`FilesInHand`), and a daemon that has not
read them is about to be told (`ReloadsInHand`). The two are tied together by the
shape of what a handler may have left to do (`Program`): a write is followed by
the reloads of both daemons, and the one step after which a handler gives up,
making a folder, can only be its first. So a reload in the program of a handler
that is past its folder is a promise, and one in a handler that is not is none,
which `ToBeTold` excepts.

The other two hold as long as nothing is muddled, and need the commands on
accounts, groups and services: each agrees with the rows (`Consistent`) and finds
what it needs when its turn comes (`Ready`), and each difference between rows and
system has its command ahead (`ServicesInHand`, `AccountsInHand`, `GroupsInHand`).
`readGroup` is the hard one. It is an `await` between reading and changing: what
it finds decides which members join and leave, one command each, in any order.
`GroupsInHand` names the member whose command is ahead (`Moving`); it first said
less of a group that is still to be made, and TLC found the step that broke it (a
made group whose members nobody was going to read). That a row names a group is
no use either if the group's row has gone meanwhile: `RowsAgree` says it has not,
since removing an account or a group takes it out of every row.

What a request does to the rows, and what that makes of the files, is proved in
the same step (`RequestServes`, `RequestInStep`), since the code does it in one.
A set of commands in some order is a sequence of known length, so the members
that join need no recursion (`EachIsASequence`, `ReconcileReworks`): hence the
assumption that the accounts are finitely many. TLC has confirmed `GrantedInv` on
two accounts, a group and a share.

`AppTasksProofs`, from `AppTasksAssumption` only (finitely many tasks, any apps,
intervals and batch sizes):

* `BatchesStayInStep`: `FairSpec => []BatchesInStep`.

A run arms the row it was read from, perhaps long afterwards, by the interval it
read. `BatchesInStep` does not say that there still is such a row; `LiveHasRow`
does, of every entry that counts as live, and makes `IInv` of it. That no task is
twice in a batch is a matter of how a batch is read (`DueTasksDistinct`), and that
one runs at a time; `LaterKeepsRows` is what a minute makes of the rows.

`SignInProofs`, from `SignInAssumption` and `DoublingAssumption` only (any number of
requests, any threshold, lock, window and lifetimes, any bounds). The second says
that the powers of two a lock is computed with are naturals and grow, of which the
provers know nothing:

* `SignInIsInvariant`: `Spec => []IInv`.
* `EveryProofCountsOnce`: `Spec => []ProofsInOrder`.
* `LocksRunOn`: `Spec => LockNeverShortened`.
* `SecondFactorIsAsked`: `Spec => SecondFactorHolds`.

How often a proof has been spent does not say whether it can be spent again.
`Due` names the proofs that still can: tickets, recovery codes and challenges that
are in a table or not made yet, challenges that a request took with it into its
`await`, codes of the enrolled secret after the last step that was honoured. All
of them are unspent (`DueUnspent`), no two places hold the same one
(`TicketsApart`, `ChallengesApart`), and a step that spends one leaves it due no
longer (`SpentWhenDue`). An enrolment has a secret of its own (`Enrolled`), or the
codes of an earlier one could come back. `LockAsCounted` relates the end of a lock
to what the row counted, without which the next failure could move it forward; it
is why `LocksRunOn` needs an invariant although it speaks of a single step.
`SecondFactorIsAsked` needs no invariant: whether the factor is on is asked in
the step that opens the session, after every `await`.

`UpkeepProofs`, of `Calendar` from `CalendarAssumption` only (days, weeks and months
of any length):

* `NextRunIsNearest`: for every schedule and instant, `NextRun` is later, is an
  instant the schedule names, and the schedule names none in between.

Where a month begins is a recursion, and the library's induction takes an
operator that the provers cannot instantiate. The proof goes another way:
`<` on the naturals is well founded, so a set of naturals that has 0 and with
each number the next has them all (`InductionOnSets`). The induction hypotheses
are sets. The recursion is first shown to have a solution (`BeginsUpTo`,
`MonthStartRecursion`), from which its equation follows; then that months begin
one after the other, so that every instant is in one of them.

of `TaskRunner` from that and the module's own (any tasks and schedules):

* `RowsAreArmedRight`: `Spec => []ArmedForNearest`.
* `StatusIsReal`: `Spec => []RunningIsReal`.
* `OneRunPerSlot`: `Spec => SlotServedOnce`.

The first two are inductive with the types. `SlotServedOnce` compares two runs of
a task; `IInv` adds that the tick has at most one of them in flight
(`TickedOnce`), and that the last slot served is in the past and before the one
the row is armed for (`ServedIsPast`), which `NextRunIsNearest` keeps true.

and of `SelfUpdate` from `VersionsAssumption` only (any administrators, any
versions, any bounds):

* `AVersionRemains`: `Spec => []WorkingVersionRemains`.
* `OnlyNewerVersions`: `Spec => NoDowngrade`.
* `UpkeepLeavesAVersion`, `UpkeepNeverGoesBack`: the same of `UpkeepSpec`, where
  maintenance runs beside it.

They are of helpers one at a time, before which no restart failed in a way that let
the old process answer for the new version, no old tree was half removed, and none
could not be moved back (`InOrder`): after these the code keeps neither promise.
Half way through, a helper keeps its promise only by what it is about to do.
`UpdateInv` says for each of its steps what the three directories hold (`Safe`),
what it can go back to if none before it was cut short or met with a mishap
(`Uncut`), and that what is about to be moved in is newer than what runs (`Newer`).
What runs is the tree that is installed, or a newer one that a rollback has not
restarted yet (`Follows`), which is how newer than what runs becomes newer than what
is set aside. The last needs the requests (`RequestsNewer`): the stage may be
another request's by now, but both were compared with the same process, which is
gone with its requests when another version runs. The power may go at every step, so
`Safe` of any step has to give `Safe` of a machine that starts again
(`PowerLossKeeps`). TLC has confirmed `UpdateInv` on the instance of `upkeep`.

`PartsProofs`, from `PartsAssumption` and `DesktopAssumption`, `StorageAssumption` and
`VolumesAssumption`, which are the bounds, what is said of each below, and that what
stands for nothing (no window, no device) is not the name of something. Each part has
an inductive invariant of its own, and a step of the whole is one of a single part or
leaves the part as it is (`PartSteps`, `StorageSteps`). TLC has confirmed each
invariant on the instance of `parts` or `storage`.

* `TrustedAddressesGetIn`: `PartsSpec => []TrustedGetIn` (`Bans`). A ban lands after
  it was decided, and a ruleset is stored after it was loaded; `IInv` says of the
  bans on their way, and of the networks about to be stored, what `TrustedGetIn`
  says of those that arrived.
* `CodesOnlyOnce`: `PartsSpec => CodesAreSingleUse` (`IdProvider`). A code is honoured
  only if it is stored, and is taken out whatever comes of it; `StoredAreUnseen`
  says that no stored code was ever presented.
* `StateIsRight`: `PartsSpec => []StoredIsServed` (`Ddns`). A check stores its state
  several awaits after it read the settings and the state. `Undisturbed` says that a
  check that is alone since it began read what still is stored, and that what the
  provider told it is what the provider serves; `Certain`, that every check is such
  a one while nothing is confused.
* `ReportedDisks`: `PartsSpec => []ReportedWasTold` (`Alerts`). While the mail is on
  its way the stored state already says that it was sent. `OnItsWay` accounts for
  both ends of that await: what the disks will have been told if it is sent, and
  that the state put back if it is not was told.
* `CertificateIsWhole`: `PartsSpec => []CertificateAsRecorded` (`Certificates`).
  `HalfWritten` says which of the two files is there between them, and that the
  names on record wait for both; `OneIssuance`, that the flag in memory keeps two
  issuances apart, so that nobody else writes the record meanwhile. It takes that
  the daily check and the button are not the administrator.
* `LoopServesListeners`: `PartsSpec => []ListenersAreConnections` (`Live`). A
  listener is added by a run that awaited the static facts, when its connection may
  be gone or have asked again. A chunk that asks twice starts two runs in one tick,
  and the facts are awaited even when they are cached. `HasAsked` says that a run is
  only ever found waiting where a connection was accepted before the facts were
  known or a client asked several times in one chunk (`hasty`), which are what the
  property excepts. Sockets are numbered.
* `WindowsStayAtHand`: `PartsSpec => []WindowsAtHand` (`Windows`), for screens of
  any size: one no narrower than a phone is wide enough to be halved, and has two
  rows below the bar. `WindowsInv` says of windows that are not shown, too, that
  they are on the screen (`AllOnScreen`), since they will be shown, and that `above`
  is an order, by which some window is the front one. The proof first failed at a
  window that was restored off the screen and then resized, which clamps its size
  and not its place: it counts as strayed until its title bar is back. One that was
  moved, or shrunk by its app, beyond the left edge counts as slipped, of which the
  property says only what the code sees to: that it is not too low, too high or too
  far to the right.
* `ListFollowsRows`: `PartsSpec => []NoticesInOrder` (`Notices`). A row the database
  has is in the list, on the wire, in the answer that is on its way, or about to go
  by a request that is (`Shown`). Rows are told apart by their numbers (`Apart`),
  and `OneUnread` is kept by the transaction that replaces a row and inserts the
  next. What the bounds of the table and the list leave out takes the counts of
  finite sets.
* `FilesAreKept`: `StorageSpec => []NothingLost` (`Files`). `AtWork` says where the
  content is between two system calls: still at its place until the bin has all of
  it, in the bin until it is back, and never on its way to a place that is taken.
  What a write began to replace is out of its hands (`replaced`), as what was
  deleted for good is. The last is what two requests at once may break, so the
  theorem is of one (`Writer`).
* `CapsAreEnforced`: `StorageSpec => []CapIsEnforced` (`Quotas`), to the KiB that
  the helper divides by; less than one is no cap. A save tags the tree and sets the
  limit after awaits, under a number that was found by counting. `SavesAgree` says
  what a save has done of what its share still says, `AloneIsAlone` which saves that
  holds for, and `OwnProjects` that no two shares have a number in common. That the
  numbers suffice takes a count: each share without one took a row and gave out none
  (`Counted`), which is where the names have to be finitely many.
* `NearestRulesDecide`, `DeniedStaysDenied`: `StorageSpec => []NearestRuleDecides`
  and `StorageSpec => DenyingNeverWidens` (`Access`), for folders that are sequences
  of any length and are closed under what is above them. `applyFolderAcls` is a loop
  over the levels of a path. Its recursion is solved as in `UpkeepProofs`: a
  function of the levels so far that satisfies it exists and is the only one, and
  after each level it says what the deepest level that rules says (`WalkIsNearest`).
  That makes `PathAccess` the same as `Nearest` in every typed state, so the types
  are the inductive invariant. A rule that denies then lowers what its own folder
  says, and leaves every other as it was (`DenyNarrows`).
* `VolumesStay`: `StorageSpec => []VolumesAreKept` (`Volumes`), for any disks, labels
  and helpers. `Fits` says what a helper can be for, given where it stands;
  `WipesNothing`, that the disks it was started for are still empty when it wipes
  them, since no two of them run at once; `Orderly`, what `fstab` and its scratch
  file hold at each command: a volume that is mounted has a line (`HasLine`), a
  mountpoint one filesystem (`OneLine`) and one mount (`OneDeep`), and where a line
  is missing the one helper is about to write it (`InOrder`). The proof found what
  the run, which bounds the requests, could not reach: `mount` falls back on the
  label, so a volume can be mounted that has no line. See "Other places".

Every invariant that a passing run checks is a theorem above.

Only model-checked:

* Liveness, which the prover does not reach: `LockoutLifted`, `UpdateEnds`,
  `DueIsServed`, `ServedAgain`, `OrphansGo`, `CloseIsServed`, `Reconnects`.
* `NothingLost` for more than one request at a time, which does not hold.

## What is not modelled

* Components that pass a request on to a tool that keeps the state: virtual
  machines, containers, packages, SSH, logs, pools and snapshots.
* Components that write a row in one synchronous statement: notes, preferences,
  settings, audit.
* What runs once with nothing beside it: migrations, the installer.
* The pages of the control panel and of the apps, but for the firewall page's
  countdown. They are forms over the routes, keep no state that the backend relies
  on, and are more than half of the lines of the repository.
* Protocols that libraries keep: WebAuthn, the SSO client's exchange, JWTs; the
  exchange with an ACME server, which is a sequence in one handler that ends or
  fails; SMTP.
* Cryptography, formats, validation of input, rate limits.
* Planned, below: public links, the app bridge, repositories.

## Plan

Done: `Firewall`, `SelfUpdate`, `Calendar`, `TaskRunner`, `Upkeep`, `Sharing`, `Apps`,
`AppTasks`, `Accounts`, `SignIn`, `Access`, `Files`, `Bans`, `Alerts`,
`Certificates`, `Ddns`, `Quotas`, `IdProvider`, `Volumes`, `Windows`, `Live`,
`Notices`, and the compositions `Upkeep`, `Storage` and `Parts`; the refinement of
`Consent`; the proofs above. Next, in this order:

1. Abstract specifications: a *trial with a deadline* (agreed, trying, undone)
   that `Firewall` implements while used in an orderly way; a *service that is
   always installed* for `SelfUpdate`.
2. The app bridge (grants of folders, what an app stores), public links, the
   pin of an app to its repository.
3. What starts with the backend, in its order: migrations, the boot firewall,
   what is mounted, the first tick.
