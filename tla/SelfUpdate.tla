----------------------------- MODULE SelfUpdate -----------------------------
(***************************************************************************)
(* Updating OpenNAS itself: the backend checks the channel, downloads and  *)
(* stages a bundle (system/updater.ts, the update routes of                *)
(* admin/routes.ts); the root helper packaging/opennas-update verifies it, *)
(* builds the new tree beside the old one, swaps them by renaming, and     *)
(* puts the old one back when the new version does not answer.             *)
(*                                                                         *)
(* Nothing is locked: every request runs a helper of its own, over the     *)
(* same stage directory, the same three directories and one status file.   *)
(***************************************************************************)
EXTENDS Naturals

CONSTANTS
    Admins,    \* sessions that may press "Update now" or "Go back"
    Versions,  \* published versions, in the order of compareVersions
    Working,   \* those that start and answer the health check
    Suits,     \* of each of those, the versions whose service files it starts with
    First,     \* the version installed at first
    Absent,    \* no such directory
    MaxRuns,   \* bound: helpers started in a behaviour
    MaxCuts    \* bound: power losses in a behaviour

\* What the constants have to be; whoever instantiates this module assumes it.
VersionsAssumption ==
    /\ Versions \subseteq Nat \ {0}
    /\ First \in Working /\ Working \subseteq Versions
    /\ Suits \in [Working -> SUBSET Versions] /\ \A v \in Working : v \in Suits[v]
    /\ Absent \notin Nat
    /\ MaxRuns \in Nat /\ MaxCuts \in Nat

VARIABLES
    tree,     \* what is in /usr/lib/opennas, .new and .old
    service,  \* the version whose service files are installed, outside the tree
    running,  \* the version of the backend process, 0 while it is down
    stage,    \* <dataDir>/update: the bundle and its signature
    status,   \* the status file
    request,  \* the POST /update/opennas handlers in flight
    helper,   \* the opennas-update processes
    runs,     \* helpers started so far
    cuts,     \* power losses so far
    alone,    \* history: no two helpers were ever running together
    cut,      \* history: the power went while a helper was running
    before,   \* history: the version a helper found running
    mishap    \* history: what failed without the script going back or saying so

vars == <<tree, service, running, stage, status, request, helper, runs, cuts, alone,
          cut, before, mishap>>
history == <<alone, cut, before>>

\* A process that went on where a restart failed; a helper that ended without a
\* word; a backend that did not come up after a rollback; half of a tree left in .old;
\* a tree that could not be moved back.
Mishaps == {"stuck", "died", "down", "halved", "unmoved"}

Dirs    == {"prefix", "new", "old"}
Partial == 0                          \* a tree no backend starts from
Trees   == Versions \cup {Absent, Partial}
None    == 0

NoRequest == [step |-> "none", version |-> None]
NoHelper  == [step |-> "none", attached |-> FALSE]

HelperSteps == {"none", "verify", "empty", "unpack", "prepare", "dropOld",
    "setAside", "moveIn", "install", "restart", "probe", "discard",
    "rbEmpty", "rbSetAside", "rbMoveIn", "rbDrop", "rbRestart", "rbReport"}

Helping(a) == helper[a].step # "none"
NoneHelping == \A a \in Admins : ~Helping(a)

\* The version a service start finds, or 0 when it does not come up.
Starts(v) == v \in Working /\ service \in Suits[v]
Started == IF Starts(tree["prefix"]) THEN tree["prefix"] ELSE None

-----------------------------------------------------------------------------
(* The backend *)

\* Mutant of RequestUpdate: any version but the running one is offered.
RequestAnyVersion(a, v) ==
    /\ running # None /\ request[a].step = "none" /\ ~Helping(a)
    /\ runs < MaxRuns
    /\ v # running
    /\ request' = [request EXCEPT ![a] = [step |-> "clear", version |-> v]]
    /\ UNCHANGED <<tree, service, running, stage, status, helper, runs, cuts, history, mishap>>

\* updateSupported and checkForUpdate: only a newer release is offered.
RequestUpdate(a, v) ==
    /\ running # None /\ request[a].step = "none" /\ ~Helping(a)
    /\ runs < MaxRuns
    /\ v > running
    /\ request' = [request EXCEPT ![a] = [step |-> "clear", version |-> v]]
    /\ UNCHANGED <<tree, service, running, stage, status, helper, runs, cuts, history, mishap>>

\* applyUpdate: empty the stage directory, then download and check the digest.
ClearStage(a) ==
    /\ request[a].step = "clear"
    /\ stage' = [bundle |-> None, sig |-> None]
    /\ request' = [request EXCEPT ![a].step = "bundle"]
    /\ UNCHANGED <<tree, service, running, status, helper, runs, cuts, history, mishap>>

\* Any await of it may reject, that of the helper's start too.
DownloadFails(a) ==
    /\ request[a].step \in {"bundle", "sig", "hand"}
    /\ request' = [request EXCEPT ![a] = NoRequest]
    /\ UNCHANGED <<tree, service, running, stage, status, helper, runs, cuts, history, mishap>>

WriteBundle(a) ==
    /\ request[a].step = "bundle"
    /\ stage' = [stage EXCEPT !.bundle = request[a].version]
    /\ request' = [request EXCEPT ![a].step = "sig"]
    /\ UNCHANGED <<tree, service, running, status, helper, runs, cuts, history, mishap>>

WriteSignature(a) ==
    /\ request[a].step = "sig"
    /\ stage' = [stage EXCEPT !.sig = request[a].version]
    /\ request' = [request EXCEPT ![a].step = "hand"]
    /\ UNCHANGED <<tree, service, running, status, helper, runs, cuts, history, mishap>>

StartHelper(a, step, attached) ==
    /\ runs < MaxRuns
    /\ runs' = runs + 1
    /\ helper' = [helper EXCEPT ![a] = [step |-> step, attached |-> attached]]
    /\ alone' = (alone /\ NoneHelping)
    /\ before' = IF NoneHelping THEN running ELSE before

\* doas opennas-update apply: it reports "running" and detaches; 202.
HandOver(a) ==
    /\ request[a].step = "hand"
    /\ StartHelper(a, "verify", FALSE)
    /\ status' = "running"
    /\ request' = [request EXCEPT ![a] = NoRequest]
    /\ UNCHANGED <<tree, service, running, stage, cuts, cut, mishap>>

\* POST /update/opennas/rollback runs the helper's rollback at once; that one does
\* not detach.
RequestRollback(a) ==
    /\ running # None /\ request[a].step = "none" /\ ~Helping(a)
    /\ IF tree["old"] = Absent
       THEN /\ status' = "failed"
            /\ UNCHANGED <<helper, runs, alone, before>>
       ELSE /\ StartHelper(a, "rbEmpty", TRUE)
            /\ UNCHANGED status
    /\ UNCHANGED <<tree, service, running, stage, request, cuts, cut, mishap>>

-----------------------------------------------------------------------------
(* The helper *)

Goto(a, step) == helper' = [helper EXCEPT ![a].step = step]
Exit(a)       == helper' = [helper EXCEPT ![a] = NoHelper]

UnchangedByHelper == UNCHANGED <<stage, runs, cuts, history>>

\* A status file that could not be written is as it was, or reads as "idle".
Unsaid(what) == status' \in {status, "idle"} /\ mishap' = mishap \cup what \cup {"died"}

\* fail: the script ends, with its status written or not.
Fail(a, what) ==
    /\ Exit(a)
    /\ \/ status' = "failed" /\ mishap' = mishap \cup what
       \/ Unsaid(what)

\* What rm -rf works on at a step, and what may be left when it is interrupted.
Removes(step) ==
    CASE step \in {"empty", "rbEmpty", "rbDrop"} -> {"new"}
      [] step \in {"dropOld", "discard"} -> {"old"}
      [] OTHER -> {}
HalfDone(dirs) == [d \in Dirs |-> IF d \in dirs /\ tree[d] # Absent THEN Partial ELSE tree[d]]
Halved == IF tree'["old"] = Partial THEN {"halved"} ELSE {}

\* "set -e": a command nothing stands behind fails, and the script ends.
Dies(a) ==
    /\ \/ /\ Removes(helper[a].step) # {}
          /\ \E dirs \in SUBSET Removes(helper[a].step) : tree' = HalfDone(dirs)
          /\ UNCHANGED status /\ mishap' = mishap \cup {"died"} \cup Halved
       \/ /\ helper[a].step \in {"prepare", "probe", "rbReport"}
          /\ UNCHANGED tree /\ Unsaid({})
    /\ Exit(a)
    /\ UNCHANGED <<service, running, request>> /\ UnchangedByHelper

\* mv: a rename, or a move into the directory that is already there.
Moved(from, to) ==
    IF tree[to] = Absent
    THEN [tree EXCEPT ![to] = tree[from], ![from] = Absent]
    ELSE [tree EXCEPT ![from] = Absent]

\* mv ... || true
MovedOrNot(from, to) ==
    IF tree[from] = Absent THEN UNCHANGED <<tree, mishap>>
    ELSE \/ tree' = Moved(from, to) /\ UNCHANGED mishap
         \/ UNCHANGED tree /\ mishap' = mishap \cup {"unmoved"}

\* rc-service opennas restart, of which a failure is passed over: the old process may
\* go on, or none may start. Every handler dies with the old process, and a helper
\* that is attached to it may.
RestartService(a, next) ==
    \/ /\ running' \in {Started, None}
       /\ request' = [b \in Admins |-> NoRequest]
       /\ \E killed \in SUBSET {b \in Admins : helper[b].attached} :
             helper' = [b \in Admins |-> IF b \in killed THEN NoHelper
                                         ELSE IF b = a THEN [helper[a] EXCEPT !.step = next]
                                         ELSE helper[b]]
       /\ mishap' = IF next = "rbReport" /\ running' # Started
                    THEN mishap \cup {"down"} ELSE mishap
    \/ /\ running # None /\ UNCHANGED <<running, request>>
       /\ Goto(a, next)
       /\ mishap' = mishap \cup {"stuck"}

\* verify_bundle: the signature is that of the bundle.
Verify(a) ==
    /\ helper[a].step = "verify"
    /\ IF stage.bundle # None /\ stage.sig = stage.bundle
       THEN Goto(a, "empty") /\ UNCHANGED <<status, mishap>>
       ELSE Fail(a, {})
    /\ UNCHANGED <<tree, service, running, request>> /\ UnchangedByHelper

\* rm -rf $NEW; mkdir -p $NEW
EmptyNew(a) ==
    /\ helper[a].step = "empty"
    /\ tree' = [tree EXCEPT !["new"] = Partial]
    /\ Goto(a, "unpack")
    /\ UNCHANGED <<service, running, request, status, mishap>> /\ UnchangedByHelper

Unpack(a) ==
    /\ helper[a].step = "unpack"
    /\ \/ /\ tree["new"] # Absent /\ stage.bundle # None
          /\ tree' = [tree EXCEPT !["new"] = stage.bundle]
          /\ Goto(a, "prepare") /\ UNCHANGED <<status, mishap>>
       \/ Fail(a, {}) /\ UNCHANGED tree
    /\ UNCHANGED <<service, running, request>> /\ UnchangedByHelper

\* Carry node_modules over, install dependencies, load the database driver.
Prepare(a) ==
    /\ helper[a].step = "prepare"
    /\ \/ tree["new"] # Absent /\ Goto(a, "dropOld") /\ status' = "running" /\ UNCHANGED mishap
       \/ Fail(a, {})
    /\ UNCHANGED <<tree, service, running, request>> /\ UnchangedByHelper

\* rm -rf $OLD
DropOld(a) ==
    /\ helper[a].step = "dropOld"
    /\ tree' = [tree EXCEPT !["old"] = Absent]
    /\ Goto(a, "setAside")
    /\ UNCHANGED <<service, running, request, status, mishap>> /\ UnchangedByHelper

\* mv $PREFIX $OLD || fail
SetAside(a) ==
    /\ helper[a].step = "setAside"
    /\ \/ /\ tree["prefix"] # Absent
          /\ tree' = Moved("prefix", "old")
          /\ Goto(a, "moveIn") /\ UNCHANGED <<status, mishap>>
       \/ Fail(a, {}) /\ UNCHANGED tree
    /\ UNCHANGED <<service, running, request>> /\ UnchangedByHelper

\* mv $NEW $PREFIX, or put the old tree back and fail.
MoveIn(a) ==
    /\ helper[a].step = "moveIn"
    /\ \/ /\ tree["new"] # Absent
          /\ tree' = Moved("new", "prefix")
          /\ Goto(a, "install") /\ UNCHANGED <<status, mishap>>
       \/ /\ tree' = IF tree["old"] = Absent THEN tree
                     ELSE Moved("old", "prefix")
          /\ Fail(a, {})
       \/ tree["old"] # Absent /\ UNCHANGED tree /\ Fail(a, {"unmoved"})
    /\ UNCHANGED <<service, running, request>> /\ UnchangedByHelper

\* install ... || true: the service files, nginx's configuration, the command. No
\* rollback puts back what was there.
Install(a) ==
    /\ helper[a].step = "install"
    /\ service' \in {service} \cup ({tree["prefix"]} \cap Versions)
    /\ Goto(a, "restart")
    /\ UNCHANGED <<tree, running, request, status, mishap>> /\ UnchangedByHelper

Restart(a) ==
    /\ helper[a].step = "restart"
    /\ RestartService(a, "probe")
    /\ UNCHANGED <<tree, service, status>> /\ UnchangedByHelper

\* Mutant of Probe: the version counts as up without having answered.
ProbeNothing(a) ==
    /\ helper[a].step = "probe"
    /\ status' = "ok" /\ Goto(a, "discard")
    /\ UNCHANGED <<tree, service, running, request, mishap>> /\ UnchangedByHelper

\* Mutant of Probe: nobody answered, and the helper just ends.
ProbeAndStop(a) ==
    /\ helper[a].step = "probe"
    /\ IF running # None THEN status' = "ok" /\ Goto(a, "discard")
       ELSE UNCHANGED status /\ Exit(a)
    /\ UNCHANGED <<tree, service, running, request, mishap>> /\ UnchangedByHelper

\* Something answers within HEALTH_TIMEOUT, whatever its version, or do_rollback
\* begins.
Probe(a) ==
    /\ helper[a].step = "probe"
    /\ \/ /\ running # None
          /\ status' = "ok" /\ Goto(a, "discard") /\ UNCHANGED mishap
       \/ /\ running = None /\ tree["old"] # Absent
          /\ Goto(a, "rbEmpty") /\ UNCHANGED <<status, mishap>>
       \/ running = None /\ tree["old"] = Absent /\ Fail(a, {})
    /\ UNCHANGED <<tree, service, running, request>> /\ UnchangedByHelper

\* The new version is kept: rm -rf $OLD; exit
Discard(a) ==
    /\ helper[a].step = "discard"
    /\ tree' = [tree EXCEPT !["old"] = Absent]
    /\ Exit(a)
    /\ UNCHANGED <<service, running, request, status, mishap>> /\ UnchangedByHelper

\* do_rollback: rm -rf $NEW
RollbackEmpty(a) ==
    /\ helper[a].step = "rbEmpty"
    /\ tree' = [tree EXCEPT !["new"] = Absent]
    /\ Goto(a, "rbSetAside")
    /\ UNCHANGED <<service, running, request, status, mishap>> /\ UnchangedByHelper

\* mv $PREFIX $NEW || true
RollbackSetAside(a) ==
    /\ helper[a].step = "rbSetAside"
    /\ MovedOrNot("prefix", "new")
    /\ Goto(a, "rbMoveIn")
    /\ UNCHANGED <<service, running, request, status>> /\ UnchangedByHelper

\* mv $OLD $PREFIX, or put the newer tree back and fail.
RollbackMoveIn(a) ==
    /\ helper[a].step = "rbMoveIn"
    /\ \/ /\ tree["old"] # Absent
          /\ tree' = Moved("old", "prefix")
          /\ Goto(a, "rbDrop") /\ UNCHANGED <<status, mishap>>
       \/ /\ tree' \in {tree} \cup (IF tree["new"] = Absent THEN {} ELSE {Moved("new", "prefix")})
          /\ Fail(a, {"unmoved"})
    /\ UNCHANGED <<service, running, request>> /\ UnchangedByHelper

\* rm -rf $NEW
RollbackDrop(a) ==
    /\ helper[a].step = "rbDrop"
    /\ tree' = [tree EXCEPT !["new"] = Absent]
    /\ Goto(a, "rbRestart")
    /\ UNCHANGED <<service, running, request, status, mishap>> /\ UnchangedByHelper

RollbackRestart(a) ==
    /\ helper[a].step = "rbRestart"
    /\ RestartService(a, "rbReport")
    /\ UNCHANGED <<tree, service, status>> /\ UnchangedByHelper

RollbackReport(a) ==
    /\ helper[a].step = "rbReport"
    /\ status' = "rolled_back"
    /\ Exit(a)
    /\ UNCHANGED <<tree, service, running, request, mishap>> /\ UnchangedByHelper

-----------------------------------------------------------------------------
\* Nothing finishes a helper's work at the next boot, and nothing clears its
\* "running" from the status file.
PowerLoss ==
    /\ cuts < MaxCuts
    /\ cuts' = cuts + 1
    /\ \E dirs \in SUBSET UNION {Removes(helper[a].step) : a \in Admins} : tree' = HalfDone(dirs)
    /\ request' = [a \in Admins |-> NoRequest]
    /\ helper' = [a \in Admins |-> NoHelper]
    /\ UNCHANGED <<service, stage, status, runs, alone, before>>
    /\ running' = Started'
    /\ cut' = (cut \/ ~NoneHelping)
    /\ mishap' = mishap \cup Halved

Init ==
    /\ tree = [prefix |-> First, new |-> Absent, old |-> Absent]
    /\ service = First /\ running = First
    /\ stage = [bundle |-> None, sig |-> None]
    /\ status = "idle"
    /\ request = [a \in Admins |-> NoRequest]
    /\ helper = [a \in Admins |-> NoHelper]
    /\ runs = 0 /\ cuts = 0
    /\ alone = TRUE /\ cut = FALSE /\ before = First /\ mishap = {}

Handle(a) ==
    \/ ClearStage(a) \/ DownloadFails(a) \/ WriteBundle(a)
    \/ WriteSignature(a) \/ HandOver(a)

Help(a) ==
    \/ Verify(a) \/ EmptyNew(a) \/ Unpack(a) \/ Prepare(a)
    \/ DropOld(a) \/ SetAside(a) \/ MoveIn(a) \/ Install(a) \/ Restart(a)
    \/ Probe(a) \/ Discard(a)
    \/ RollbackEmpty(a) \/ RollbackSetAside(a) \/ RollbackMoveIn(a)
    \/ RollbackDrop(a) \/ RollbackRestart(a) \/ RollbackReport(a)
    \/ Dies(a)

Next ==
    \/ \E a \in Admins : \/ \E v \in Versions : RequestUpdate(a, v)
                         \/ RequestRollback(a)
                         \/ Handle(a) \/ Help(a)
    \/ PowerLoss

Spec == Init /\ [][Next]_vars

\* A helper that has started gets to its end: every command it runs ends.
Fairness == \A a \in Admins : WF_vars(Help(a))

-----------------------------------------------------------------------------
(* Properties *)

TypeOK ==
    /\ tree \in [Dirs -> Trees]
    /\ service \in Versions
    /\ running \in Versions \cup {None}
    /\ stage \in [bundle : Versions \cup {None}, sig : Versions \cup {None}]
    /\ status \in {"idle", "running", "ok", "failed", "rolled_back"}
    /\ request \in [Admins -> [step : {"none", "clear", "bundle", "sig", "hand"},
                               version : Versions \cup {None}]]
    /\ helper \in [Admins -> [step : HelperSteps, attached : BOOLEAN]]
    /\ runs \in 0 .. MaxRuns /\ cuts \in 0 .. MaxCuts
    /\ alone \in BOOLEAN /\ cut \in BOOLEAN
    /\ before \in Versions \cup {None}
    /\ mishap \subseteq Mishaps

\* Helpers ran one at a time, no restart left the old process to answer for the new
\* version, and the trees are whole and where the script meant them to be.
InOrder == alone /\ mishap \cap {"stuck", "halved", "unmoved"} = {}

\* "rather than leaving the machine with no OpenNAS at all": while helpers run
\* one at a time, a version that starts is in place or set aside at every instant,
\* so whenever the power goes there is something to come back to.  Of the script's
\* own doing it is not so when a restart failed that left the old process running,
\* which answers the probe (line 162); when rm -rf .old was interrupted and somebody
\* went back to what was left; and when a tree could not be renamed back.
\* (And every variable keeps its type.)
NeverWithoutOpenNAS ==
    TypeOK /\ (InOrder => tree["prefix"] \in Working \/ tree["old"] \in Working)

\* The dance survives a version that does not start: helpers that ran one at a
\* time, were not cut short and met with no mishap leave a backend that answers,
\* running the tree that is installed, and after a rollback that tree is what they
\* found.  But the service files of the version that failed stay: if what was put
\* back does not start with those, nothing runs.
LeavesAWorkingVersion ==
    (alone /\ ~cut /\ mishap = {} /\ NoneHelping) =>
        /\ tree["prefix"] \in Working
        /\ status = "rolled_back" => tree["prefix"] = before
        /\ \/ running = tree["prefix"]
           \/ running = None /\ status = "rolled_back" /\ ~Starts(tree["prefix"])

\* Every instant of an update leaves a version to come back to, and helpers that
\* ran one at a time, without a mishap, leave a backend that answers.
WorkingVersionRemains == NeverWithoutOpenNAS /\ LeavesAWorkingVersion

\* An update never installs an older version, although the comparison was made
\* against a version that ran before the download began; except over the tree of a
\* version that never came to run, because its restart failed and the old process
\* answered in its place.
NoDowngrade ==
    [][ \A a \in Admins :
          (InOrder /\ helper[a].step = "moveIn" /\ helper'[a].step = "install")
            => tree'["prefix"] > tree["old"] ]_vars

\* The status file does not say "running" for ever, unless the power went, or a
\* command failed that nothing stands behind, and the script ended.
UpdateEnds ==
    LET unfinished == cut \/ "died" \in mishap
    IN  (status = "running" /\ ~unfinished) ~> (status # "running" \/ unfinished)
=============================================================================
