------------------------------ MODULE Firewall ------------------------------
(***************************************************************************)
(* Changing the host firewall: PUT /admin/firewall, its confirm and revert *)
(* routes, the timer that undoes an unconfirmed change, the privileged     *)
(* helper that loads and persists a ruleset, and the boot service that     *)
(* loads the persisted one again (apps/api/src/admin/routes.ts, the        *)
(* firewall part of system/integration.ts, packaging/opennas-firewall).    *)
(*                                                                         *)
(* The backend is one event loop: a handler runs up to its next await in   *)
(* one step, and anything may run between two steps.  A "job" is a handler *)
(* or a timer callback between two awaits.  The helper is a process of its *)
(* own, so two of them may interleave too.                                 *)
(***************************************************************************)
EXTENDS Naturals

CONSTANTS
    Consoles,    \* browser tabs open on the firewall page
    Rulesets,    \* configurations with the firewall on (one ruleset each)
    Lockout,     \* those that refuse the administrators' new connections
    NoRules,     \* the configuration with the firewall off: no table loaded
    MaxChanges,  \* bound: PUT requests in a behaviour
    MaxStops     \* bound: backend restarts and reboots in a behaviour

ASSUME ConstantsAssumption ==
    /\ Lockout \subseteq Rulesets
    /\ NoRules \notin Rulesets
    /\ MaxChanges \in Nat
    /\ MaxStops \in Nat
    /\ Consoles \cap Nat = {}

VARIABLES
    nft,       \* nftables is installed; a probe may fail to say so
    stored,    \* the settings row: getFirewallConfig, setFirewallConfig
    kernel,    \* the table inet opennas
    bootFile,  \* /etc/opennas/firewall.nft, loaded at boot
    draft,     \* <generatedDir>/opennas.nft, the one file every apply writes
    pending,   \* pendingRevert, in memory
    timers,    \* the armed setTimeout calls
    jobs,      \* the handlers and callbacks in flight
    ui,        \* the token each tab shows its confirmation box for, or 0
    changes,   \* PUT requests so far; names each one's token
    stops,     \* restarts and reboots so far
    agreed,    \* history: the last configuration nobody has to confirm
    orderly    \* history: no two jobs overlapped, no probe failed, and nothing
               \* failed halfway

serverVars == <<pending, timers, jobs>>
hostVars   == <<kernel, bootFile, draft>>
history    == <<agreed, orderly>>
bounds     == <<changes, stops>>
vars == <<nft, stored, serverVars, hostVars, ui, bounds, history>>

Config == Rulesets \cup {NoRules}
Tokens == 1 .. MaxChanges
Procs  == Consoles \cup Tokens     \* a tab's request, or the timer of a token

\* What pendingRevert and the closure of its timer hold.
Trial   == [token : Tokens, previous : Config]
NoTrial == [token |-> 0, previous |-> NoRules]

Steps == {"idle", "status", "write", "load", "persist", "drop", "erase",
          "loaded", "refused", "recheck"}
Job   == [step : Steps, kind : {"put", "undo", "timer"},
          target : Config, previous : Config, token : 0 .. MaxChanges]
Idle  == [step |-> "idle", kind |-> "put", target |-> NoRules,
          previous |-> NoRules, token |-> 0]

Quiet == \A p \in Procs : jobs[p].step = "idle"

-----------------------------------------------------------------------------
(* The routes *)

Goto(p, step) == jobs' = [jobs EXCEPT ![p].step = step]

\* loadRuleset is the same await chain for every caller; this starts it.
StartLoad(p, kind, target, previous, token) ==
    jobs' = [jobs EXCEPT ![p] = [step |-> "status", kind |-> kind,
                target |-> target, previous |-> previous, token |-> token]]

\* Mutant of CancelPendingRevert: the timer is cleared, the record is kept.
CancelTimerOnly ==
    /\ timers' = timers \ {pending}
    /\ UNCHANGED pending

\* clearTimeout does nothing to a timer whose callback has started.
CancelPendingRevert ==
    /\ timers' = timers \ {pending}
    /\ pending' = NoTrial

\* PUT /firewall up to its first await.  The page disables "Apply" while it
\* shows a confirmation box; a reloaded page or another tab shows none.
PutFirewall(c, next) ==
    /\ changes < MaxChanges
    /\ jobs[c].step = "idle" /\ ui[c] = 0
    /\ changes' = changes + 1
    /\ CancelPendingRevert
    /\ StartLoad(c, "put", next, stored, changes + 1)
    /\ orderly' = (orderly /\ Quiet /\ pending = NoTrial)
    /\ UNCHANGED <<nft, stored, hostVars, ui, stops, agreed>>

\* POST /firewall/confirm.  Every ruleset accepts established connections, so a
\* tab may confirm over one of those what would refuse a new one.
Confirm(c) ==
    /\ ui[c] # 0 /\ jobs[c].step = "idle"
    /\ ui' = [ui EXCEPT ![c] = 0]
    /\ IF pending.token = ui[c]
       THEN /\ CancelPendingRevert
            /\ agreed' = stored
            /\ orderly' = (orderly /\ Quiet)
       ELSE UNCHANGED <<pending, timers, history>>      \* 409
    /\ UNCHANGED <<nft, stored, hostVars, jobs, bounds>>

\* POST /firewall/revert up to its first await.
Revert(c) ==
    /\ ui[c] # 0 /\ jobs[c].step = "idle"
    /\ ui' = [ui EXCEPT ![c] = 0]
    /\ IF pending # NoTrial
       THEN /\ StartLoad(c, "undo", pending.previous, pending.previous, 0)
            /\ CancelPendingRevert
            /\ orderly' = (orderly /\ Quiet)
       ELSE UNCHANGED <<serverVars, orderly>>           \* 409
    /\ UNCHANGED <<nft, stored, hostVars, bounds, agreed>>

\* The tab's own countdown ended, or it was reloaded: GET /firewall does not
\* say that a change is waiting.
Forget(c) ==
    /\ ui[c] # 0
    /\ ui' = [ui EXCEPT ![c] = 0]
    /\ UNCHANGED <<nft, stored, serverVars, hostVars, bounds, history>>

\* REVERT_SECONDS passed: the callback runs up to its first await.
RevertTimer(trial) ==
    /\ timers' = timers \ {trial}
    /\ StartLoad(trial.token, "timer", trial.previous, trial.previous,
                 trial.token)
    /\ orderly' = (orderly /\ Quiet)
    /\ UNCHANGED <<nft, stored, pending, hostVars, ui, bounds, agreed>>

-----------------------------------------------------------------------------
(* loadRuleset and the helper it runs *)

ProbeStatus(p) ==
    /\ jobs[p].step = "status" /\ nft
    /\ Goto(p, IF jobs[p].target = NoRules THEN "drop" ELSE "write")
    /\ UNCHANGED <<nft, stored, pending, timers, hostVars, ui, bounds, history>>

\* "unavailable": nftables is not there, or doas could not be run, or failed, for
\* which runCapture returns nothing either.  That counts as loaded.
ReadsUnavailable(p) ==
    /\ jobs[p].step = "status"
    /\ Goto(p, "loaded")
    /\ orderly' = (orderly /\ ~nft)
    /\ UNCHANGED <<nft, stored, pending, timers, hostVars, ui, bounds, agreed>>

WriteRuleset(p) ==
    /\ jobs[p].step = "write"
    /\ draft' = jobs[p].target
    /\ Goto(p, "load")
    /\ UNCHANGED <<nft, stored, pending, timers, kernel, bootFile, ui, bounds,
                   history>>

\* writeFile throws, and so do both routes: 500, and a rollback by hand saves
\* nothing.
WriteFails(p) ==
    /\ jobs[p].step = "write" /\ jobs[p].kind # "timer"
    /\ IF jobs[p].kind = "put" THEN Goto(p, "refused")
                               ELSE jobs' = [jobs EXCEPT ![p] = Idle]
    /\ orderly' = (orderly /\ jobs[p].kind = "put")
    /\ UNCHANGED <<nft, stored, pending, timers, hostVars, ui, bounds, agreed>>

\* Nobody awaits the callback: an exception in it ends the process.
CallbackDies(p) ==
    /\ jobs[p].step = "write" /\ jobs[p].kind = "timer"
    /\ pending' = NoTrial /\ timers' = {}
    /\ jobs' = [q \in Procs |-> Idle]
    /\ orderly' = FALSE
    /\ UNCHANGED <<nft, stored, hostVars, ui, bounds, agreed>>

\* opennas-firewall apply: nft -c, nft -f.
LoadRuleset(p) ==
    /\ jobs[p].step = "load"
    /\ kernel' = draft
    /\ Goto(p, "persist")
    /\ UNCHANGED <<nft, stored, pending, timers, bootFile, draft, ui, bounds,
                   history>>

\* nft -c or nft -f refused it: nothing was loaded.  A PUT that fails here
\* answers 500 and leaves everything as it was; a rollback has failed.
LoadFails(p) ==
    /\ jobs[p].step = "load"
    /\ Goto(p, "refused")
    /\ orderly' = (orderly /\ jobs[p].kind = "put")
    /\ UNCHANGED <<nft, stored, pending, timers, hostVars, ui, bounds, agreed>>

\* ... and cp to the file the boot service loads, rc-update add; "|| true" passes
\* over a service that could not be enabled, and was not.
PersistRuleset(p) ==
    /\ jobs[p].step = "persist"
    /\ bootFile' = draft
    /\ Goto(p, "loaded")
    /\ UNCHANGED <<nft, stored, pending, timers, kernel, draft, ui, bounds,
                   history>>

EnableFails(p) ==
    /\ jobs[p].step = "persist" /\ bootFile = NoRules
    /\ Goto(p, "loaded")
    /\ orderly' = FALSE
    /\ UNCHANGED <<nft, stored, pending, timers, hostVars, ui, bounds, agreed>>

\* set -e: the copy failed, and so does the helper, with the rules loaded.
PersistFails(p) ==
    /\ jobs[p].step = "persist"
    /\ Goto(p, "refused")
    /\ orderly' = FALSE
    /\ UNCHANGED <<nft, stored, pending, timers, hostVars, ui, bounds, agreed>>

\* opennas-firewall disable: the table, then the file.  "|| true" passes over a
\* table that could not be deleted; doas, before it, and rm may fail.
DropTable(p) ==
    /\ jobs[p].step = "drop"
    /\ kernel' = NoRules
    /\ Goto(p, "erase")
    /\ UNCHANGED <<nft, stored, pending, timers, bootFile, draft, ui, bounds,
                   history>>

TableStays(p) ==
    /\ jobs[p].step = "drop" /\ kernel # NoRules
    /\ Goto(p, "erase")
    /\ orderly' = FALSE
    /\ UNCHANGED <<nft, stored, pending, timers, hostVars, ui, bounds, agreed>>

DisableFails(p) ==
    /\ jobs[p].step \in {"drop", "erase"}
    /\ Goto(p, "refused")
    /\ orderly' = (orderly /\ jobs[p].step = "drop" /\ jobs[p].kind = "put")
    /\ UNCHANGED <<nft, stored, pending, timers, hostVars, ui, bounds, agreed>>

EraseBootFile(p) ==
    /\ jobs[p].step = "erase"
    /\ bootFile' = NoRules
    /\ Goto(p, "loaded")
    /\ UNCHANGED <<nft, stored, pending, timers, kernel, draft, ui, bounds,
                   history>>

-----------------------------------------------------------------------------
(* What each caller does once loadRuleset has returned *)

SavePut(c) ==
    /\ jobs[c].step = "loaded" /\ jobs[c].kind = "put"
    /\ stored' = jobs[c].target
    /\ IF jobs[c].target = NoRules
       THEN jobs' = [jobs EXCEPT ![c] = Idle] /\ agreed' = NoRules
       ELSE Goto(c, "recheck") /\ UNCHANGED agreed
    /\ UNCHANGED <<nft, pending, timers, hostVars, ui, bounds, orderly>>

\* Mutant of ArmRevert: the record is made and the timer is not.
ArmWithoutTimer(c) ==
    /\ jobs[c].step = "recheck" /\ nft
    /\ jobs' = [jobs EXCEPT ![c] = Idle]
    /\ LET trial == [token |-> jobs[c].token, previous |-> jobs[c].previous] IN
       /\ pending' = trial
       /\ ui' = [ui EXCEPT ![c] = trial.token]
    /\ UNCHANGED <<nft, stored, timers, hostVars, bounds, history>>

\* The second firewallStatus has answered: arm the timer and reply.
ArmRevert(c) ==
    /\ jobs[c].step = "recheck" /\ nft
    /\ jobs' = [jobs EXCEPT ![c] = Idle]
    /\ LET trial == [token |-> jobs[c].token, previous |-> jobs[c].previous] IN
       /\ timers' = timers \cup {trial}
       /\ pending' = trial
       /\ ui' = [ui EXCEPT ![c] = trial.token]
    /\ UNCHANGED <<nft, stored, hostVars, bounds, history>>

\* ... or has not: there is nothing to confirm.
NothingToConfirm(c) ==
    /\ jobs[c].step = "recheck"
    /\ jobs' = [jobs EXCEPT ![c] = Idle]
    /\ agreed' = jobs[c].target
    /\ orderly' = (orderly /\ ~nft)
    /\ UNCHANGED <<nft, stored, pending, timers, hostVars, ui, bounds>>

\* 500 apply_failed: nothing is saved, and nothing re-arms the timer that
\* this PUT cancelled when it started.
RefusePut(c) ==
    /\ jobs[c].step = "refused" /\ jobs[c].kind = "put"
    /\ jobs' = [jobs EXCEPT ![c] = Idle]
    /\ UNCHANGED <<nft, stored, pending, timers, hostVars, ui, bounds, history>>

\* Mutant of FinishRollback: the row keeps the configuration just undone.
FinishRollbackUnsaved(p) ==
    /\ jobs[p].step \in {"loaded", "refused"}
    /\ jobs[p].kind # "put"
    /\ jobs' = [jobs EXCEPT ![p] = Idle]
    /\ pending' = IF jobs[p].kind = "timer" THEN NoTrial ELSE pending
    /\ UNCHANGED <<nft, stored, timers, hostVars, ui, bounds, history>>

\* The revert route and the timer callback both ignore loadRuleset's error;
\* the callback then forgets whatever is pending by now.
FinishRollback(p) ==
    /\ jobs[p].step \in {"loaded", "refused"}
    /\ jobs[p].kind # "put"
    /\ stored' = jobs[p].target
    /\ jobs' = [jobs EXCEPT ![p] = Idle]
    /\ pending' = IF jobs[p].kind = "timer" THEN NoTrial ELSE pending
    /\ UNCHANGED <<nft, timers, hostVars, ui, bounds, history>>

-----------------------------------------------------------------------------
(* Restarts *)

\* The process ends with its timers, pendingRevert and every handler.
LoseMemory ==
    /\ stops < MaxStops
    /\ stops' = stops + 1
    /\ pending' = NoTrial /\ timers' = {}
    /\ jobs' = [p \in Procs |-> Idle]
    /\ orderly' = (orderly /\ Quiet /\ pending = NoTrial)
    /\ UNCHANGED <<nft, stored, bootFile, draft, ui, changes, agreed>>

RestartBackend == LoseMemory /\ UNCHANGED kernel

\* The firewall's own boot service loads what the helper persisted.
Reboot == LoseMemory /\ kernel' = bootFile

-----------------------------------------------------------------------------
Init ==
    /\ nft \in BOOLEAN
    /\ stored \in Config
    /\ kernel = IF nft THEN stored ELSE NoRules
    /\ bootFile = kernel /\ draft = kernel
    /\ pending = NoTrial /\ timers = {}
    /\ jobs = [p \in Procs |-> Idle]
    /\ ui = [c \in Consoles |-> 0]
    /\ changes = 0 /\ stops = 0
    /\ agreed = stored /\ orderly = TRUE

\* A step of a job that is under way.
Proceed(p) ==
    \/ ProbeStatus(p) \/ ReadsUnavailable(p)
    \/ WriteRuleset(p) \/ WriteFails(p) \/ CallbackDies(p)
    \/ LoadRuleset(p) \/ LoadFails(p)
    \/ PersistRuleset(p) \/ EnableFails(p) \/ PersistFails(p)
    \/ DropTable(p) \/ TableStays(p) \/ EraseBootFile(p) \/ DisableFails(p)
    \/ FinishRollback(p)

Answer(c) == SavePut(c) \/ ArmRevert(c) \/ NothingToConfirm(c) \/ RefusePut(c)

Next ==
    \/ \E c \in Consoles : \/ \E next \in Config : PutFirewall(c, next)
                           \/ Confirm(c) \/ Revert(c) \/ Forget(c)
                           \/ Answer(c)
    \/ \E p \in Procs : Proceed(p)
    \/ \E trial \in timers : RevertTimer(trial)
    \/ RestartBackend \/ Reboot

Spec == Init /\ [][Next]_vars

\* The event loop gets to every callback, a helper ends, and an armed timer
\* fires.  Nobody has to press anything.
Fairness ==
    /\ \A p \in Procs : WF_vars(Proceed(p))
    /\ \A c \in Consoles : WF_vars(Answer(c))
    /\ WF_vars(\E trial \in timers : RevertTimer(trial))

FairSpec == Spec /\ Fairness

-----------------------------------------------------------------------------
(* Properties *)

TypeOK ==
    /\ nft \in BOOLEAN /\ orderly \in BOOLEAN
    /\ stored \in Config /\ agreed \in Config
    /\ kernel \in Config /\ bootFile \in Config /\ draft \in Config
    /\ pending \in Trial \cup {NoTrial}
    /\ timers \subseteq Trial
    /\ jobs \in [Procs -> Job]
    /\ ui \in [Consoles -> 0 .. MaxChanges]
    /\ changes \in 0 .. MaxChanges
    /\ stops \in 0 .. MaxStops

\* The dead-man's switch is never silently lost: whenever the backend would
\* accept a confirmation (pendingRevert is set), the timer that undoes the
\* change is armed or its callback is already undoing it - with any number of
\* tabs, overlapping requests, failed probes and loads, and restarts.
PendingIsArmed ==
    pending # NoTrial =>
        \/ pending \in timers
        \/ /\ pending.token \in Tokens
           /\ jobs[pending.token].kind = "timer"
           /\ jobs[pending.token].step # "idle"
           /\ jobs[pending.token].target = pending.previous

\* Used in an orderly way (one change at a time, no probe failing, nothing
\* failing halfway), confirm-or-revert is exact: with nothing in flight, the row,
\* the kernel and the boot file agree; with nothing to confirm they hold the
\* configuration last agreed to, and otherwise that is the one the timer will put
\* back.  A probe that fails counts as "unavailable", and routes.ts:1005 then
\* stores a ruleset it has not loaded, or routes.ts:1143 arms no timer.
OrderlySettled ==
    (orderly /\ nft /\ Quiet) =>
        /\ kernel = stored /\ bootFile = stored
        /\ IF pending = NoTrial THEN stored = agreed
                                ELSE pending.previous = agreed

\* A ruleset that cuts the administrators off does not stay, unless they have
\* confirmed it over a connection they had: the timer and its callback alone lift
\* it, if the probe that the callback begins with does not fail.
LockoutLifted ==
    (kernel \in Lockout /\ orderly)
        ~> (kernel \notin Lockout \/ kernel = agreed \/ ~orderly)
=============================================================================
