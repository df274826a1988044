--------------------------- MODULE FirewallProofs ---------------------------
(***************************************************************************)
(* What Firewall.tla promises for any number of tabs, rulesets, changes    *)
(* and restarts.                                                           *)
(***************************************************************************)
EXTENDS Firewall, TLAPS

USE ConstantsAssumption

-----------------------------------------------------------------------------
(* Where the token of a request may be *)

Active(p) == jobs[p].step # "idle"
Putting(c) == Active(c) /\ jobs[c].kind = "put"

\* A timer that is armed has not started its callback.
TimerWaits ==
    \A t \in timers : t.token \in 1 .. changes /\ ~Active(t.token)

OneTimerPerToken == \A t, u \in timers : t.token = u.token => t = u

\* The job of a token is a timer's callback, that of a tab never is.
JobKinds ==
    /\ \A p \in Tokens : Active(p) => jobs[p].kind = "timer" /\ p <= changes
    /\ \A c \in Consoles : jobs[c].kind # "timer"
    /\ \A p \in Procs : jobs[p].step = "recheck" => jobs[p].kind = "put"

\* The token of a PUT that has not armed its timer yet is nowhere else.
PutIsNumbered ==
    \A p \in Procs : Putting(p) =>
        /\ jobs[p].token \in 1 .. changes
        /\ ~Active(jobs[p].token)
        /\ \A t \in timers : t.token # jobs[p].token
        /\ \A q \in Procs \ {p} : Putting(q) => jobs[q].token # jobs[p].token

TokensInv == TimerWaits /\ OneTimerPerToken /\ JobKinds /\ PutIsNumbered

LEMMA TypeInit == Init => TypeOK
BY DEF Init, TypeOK, Config, Procs, Tokens, Idle, Job, Steps, Trial, NoTrial

LEMMA TypeStep == TypeOK /\ TokensInv /\ [Next]_vars => TypeOK'
<1> SUFFICES ASSUME TypeOK, TokensInv, [Next]_vars PROVE TypeOK'
  OBVIOUS
<1> USE DEF TypeOK, Config, Procs, Tokens, Job, Steps, Trial, NoTrial,
            serverVars, hostVars, history, bounds, Goto, Idle, StartLoad,
            CancelPendingRevert
<1>1. ASSUME NEW c \in Consoles, NEW next \in Config, PutFirewall(c, next)
      PROVE TypeOK'
  BY <1>1 DEF PutFirewall
<1>2. ASSUME NEW c \in Consoles, Confirm(c) PROVE TypeOK'
  <2>1. CASE pending.token = ui[c]
    BY <1>2, <2>1 DEF Confirm
  <2>2. CASE pending.token # ui[c]
    BY <1>2, <2>2 DEF Confirm
  <2> QED BY <2>1, <2>2
<1>3. ASSUME NEW c \in Consoles, Revert(c) PROVE TypeOK'
  <2>1. CASE pending # NoTrial
    BY <1>3, <2>1 DEF Revert
  <2>2. CASE pending = NoTrial
    BY <1>3, <2>2 DEF Revert
  <2> QED BY <2>1, <2>2
<1>4. ASSUME NEW c \in Consoles, Forget(c) PROVE TypeOK'
  BY <1>4 DEF Forget
<1>5. ASSUME NEW c \in Consoles, Answer(c) PROVE TypeOK'
  <2>1. CASE SavePut(c)
    BY <2>1 DEF SavePut
  <2>2. CASE ArmRevert(c)
    <3>1. jobs[c].kind = "put" /\ jobs[c].token \in Tokens
      BY <2>2 DEF ArmRevert, TokensInv, PutIsNumbered, JobKinds, Putting,
                  Active
    <3> QED BY <2>2, <3>1 DEF ArmRevert
  <2>3. CASE RefusePut(c)
    BY <2>3 DEF RefusePut
  <2>4. CASE NothingToConfirm(c)
    <3>1. orderly' \in BOOLEAN
      BY <2>4 DEF NothingToConfirm
    <3>2. jobs' \in [Procs -> Job] /\ agreed' \in Config
      BY <2>4 DEF NothingToConfirm
    <3> QED BY <2>4, <3>1, <3>2 DEF NothingToConfirm
  <2> QED BY <1>5, <2>1, <2>2, <2>3, <2>4 DEF Answer
<1>6. ASSUME NEW p \in Procs, Proceed(p) PROVE TypeOK'
  <2>1. CASE ProbeStatus(p)
    BY <2>1 DEF ProbeStatus
  <2>2. CASE WriteRuleset(p)
    BY <2>2 DEF WriteRuleset
  <2>3. CASE LoadRuleset(p)
    BY <2>3 DEF LoadRuleset
  <2>4. CASE LoadFails(p)
    BY <2>4 DEF LoadFails
  <2>5. CASE PersistRuleset(p)
    BY <2>5 DEF PersistRuleset
  <2>6. CASE PersistFails(p)
    <3>1. orderly' \in BOOLEAN
      BY <2>6 DEF PersistFails
    <3>2. jobs' \in [Procs -> Job]
      BY <2>6 DEF PersistFails
    <3> QED BY <2>6, <3>1, <3>2 DEF PersistFails
  <2>7. CASE DropTable(p)
    BY <2>7 DEF DropTable
  <2>8. CASE EraseBootFile(p)
    BY <2>8 DEF EraseBootFile
  <2>9. CASE FinishRollback(p)
    BY <2>9 DEF FinishRollback
  <2>10. CASE WriteFails(p)
    <3>1. orderly' \in BOOLEAN
      BY <2>10 DEF WriteFails
    <3>2. jobs' \in [Procs -> Job]
      BY <2>10 DEF WriteFails
    <3> QED BY <2>10, <3>1, <3>2 DEF WriteFails
  <2>11. CASE CallbackDies(p)
    <3>1. NoTrial \in Trial \cup {NoTrial} /\ Idle \in Job
      OBVIOUS
    <3>2. /\ pending' = NoTrial /\ timers' = {} /\ orderly' = FALSE
          /\ jobs' = [q \in Procs |-> Idle]
      BY <2>11 DEF CallbackDies
    <3>3. UNCHANGED <<nft, stored, agreed, kernel, bootFile, draft, ui, changes,
                      stops>>
      BY <2>11 DEF CallbackDies
    <3> HIDE DEF Config, Procs, Tokens, Job, Steps, Trial, NoTrial, Idle
    <3> QED BY <3>1, <3>2, <3>3
  <2>12. CASE ReadsUnavailable(p) \/ EnableFails(p) \/ TableStays(p) \/ DisableFails(p)
    <3>1. orderly' \in BOOLEAN
      BY <2>12 DEF ReadsUnavailable, EnableFails, TableStays, DisableFails
    <3>2. jobs' \in [Procs -> Job]
      BY <2>12 DEF ReadsUnavailable, EnableFails, TableStays, DisableFails
    <3>3. UNCHANGED <<nft, stored, pending, timers, hostVars, ui, bounds, agreed>>
      BY <2>12 DEF ReadsUnavailable, EnableFails, TableStays, DisableFails
    <3> QED BY <3>1, <3>2, <3>3
  <2> QED BY <1>6, <2>1, <2>2, <2>3, <2>4, <2>5, <2>6, <2>7, <2>8, <2>9,
             <2>10, <2>11, <2>12 DEF Proceed
<1>7. ASSUME NEW trial \in timers, RevertTimer(trial) PROVE TypeOK'
  BY <1>7 DEF RevertTimer
<1>8. CASE LoseMemory /\ (UNCHANGED kernel \/ kernel' = bootFile)
  BY <1>8 DEF LoseMemory
<1>9. CASE UNCHANGED vars
  BY <1>9 DEF vars
<1> QED BY <1>1, <1>2, <1>3, <1>4, <1>5, <1>6, <1>7, <1>8, <1>9
        DEF Next, RestartBackend, Reboot

-----------------------------------------------------------------------------
(* The inductive invariant behind PendingIsArmed *)

SwitchInv == TypeOK /\ TokensInv /\ PendingIsArmed

LEMMA SwitchInit == Init => SwitchInv
<1> SUFFICES ASSUME Init PROVE SwitchInv
  OBVIOUS
<1>1. TypeOK
  BY TypeInit
<1>2. TokensInv /\ PendingIsArmed
  BY DEF Init, TokensInv, TimerWaits, OneTimerPerToken, JobKinds, PutIsNumbered,
         PendingIsArmed, Putting, Active, Idle, Procs, Tokens
<1> QED BY <1>1, <1>2 DEF SwitchInv


\* A job that moves on to another await disturbs no token.
LEMMA MovingOn ==
    ASSUME SwitchInv, NEW p \in Procs, Active(p),
           NEW step \in Steps \ {"idle"},
           step = "recheck" => jobs[p].kind = "put",
           Goto(p, step), UNCHANGED <<pending, timers, changes>>
    PROVE  TokensInv' /\ PendingIsArmed'
<1> USE DEF SwitchInv, TokensInv, TypeOK, Job, Procs, Tokens, Goto, Active,
            Putting
<1>1. \A q \in Procs : /\ jobs'[q].kind = jobs[q].kind
                       /\ jobs'[q].token = jobs[q].token
                       /\ jobs'[q].target = jobs[q].target
                       /\ Active(q)' = Active(q)
  OBVIOUS
<1>2. TimerWaits' /\ OneTimerPerToken'
  BY <1>1 DEF TimerWaits, OneTimerPerToken, Trial
<1>3. JobKinds'
  BY <1>1 DEF JobKinds
<1>4. PutIsNumbered'
  BY <1>1 DEF PutIsNumbered
<1>5. PendingIsArmed'
  BY <1>1 DEF PendingIsArmed, Trial, NoTrial
<1> QED BY <1>2, <1>3, <1>4, <1>5

\* A job that ends disturbs no token, unless it is the callback of the
\* pending change, which then is forgotten.
LEMMA Ending ==
    ASSUME SwitchInv, NEW p \in Procs,
           jobs' = [jobs EXCEPT ![p] = Idle], UNCHANGED <<timers, changes>>,
           \/ pending' = NoTrial
           \/ pending' = pending /\ jobs[p].kind # "timer"
    PROVE  TokensInv' /\ PendingIsArmed'
<1> USE DEF SwitchInv, TokensInv, TypeOK, Job, Procs, Tokens, Active, Putting,
            Idle
<1>1. \A q \in Procs \ {p} : jobs'[q] = jobs[q]
  OBVIOUS
<1>2. jobs'[p].step = "idle" /\ jobs'[p].kind = "put"
  OBVIOUS
<1>3. TimerWaits' /\ OneTimerPerToken'
  BY <1>1, <1>2 DEF TimerWaits, OneTimerPerToken, Trial
<1>4. JobKinds'
  BY <1>1, <1>2 DEF JobKinds
<1>5. PutIsNumbered'
  BY <1>1, <1>2 DEF PutIsNumbered
<1>6. PendingIsArmed'
  BY <1>1, <1>2 DEF PendingIsArmed, Trial, NoTrial
<1> QED BY <1>3, <1>4, <1>5, <1>6

\* A process that has just started has no token anywhere.
LEMMA AtRest ==
    ASSUME pending' = NoTrial, timers' = {}, jobs' = [p \in Procs |-> Idle]
    PROVE  TokensInv' /\ PendingIsArmed'
BY DEF TokensInv, TimerWaits, OneTimerPerToken, JobKinds, PutIsNumbered,
       PendingIsArmed, Putting, Active, Idle, Procs, Tokens

LEMMA SwitchStep == SwitchInv /\ [Next]_vars => SwitchInv'
<1> SUFFICES ASSUME SwitchInv, [Next]_vars
             PROVE  TokensInv' /\ PendingIsArmed'
  BY TypeStep DEF SwitchInv
<1> USE DEF serverVars, bounds
<1>1. ASSUME NEW c \in Consoles, NEW next \in Config, PutFirewall(c, next)
      PROVE TokensInv' /\ PendingIsArmed'
  <2> USE DEF SwitchInv, TokensInv, TypeOK, Job, Procs, Tokens, Active,
              Putting
  <2>1. /\ changes' = changes + 1 /\ changes + 1 \in Tokens
        /\ pending' = NoTrial /\ timers' \subseteq timers
    BY <1>1 DEF PutFirewall, CancelPendingRevert
  <2>2. /\ \A q \in Procs \ {c} : jobs'[q] = jobs[q]
        /\ jobs'[c].step = "status" /\ jobs'[c].kind = "put"
        /\ jobs'[c].token = changes + 1
    BY <1>1 DEF PutFirewall, StartLoad
  <2>3. ~Active(changes + 1)
    BY <2>1 DEF JobKinds
  <2>4. TimerWaits' /\ OneTimerPerToken'
    BY <2>1, <2>2 DEF TimerWaits, OneTimerPerToken, Trial
  <2>5. JobKinds'
    BY <2>1, <2>2 DEF JobKinds
  <2>6. PutIsNumbered'
    BY <2>1, <2>2, <2>3 DEF PutIsNumbered, TimerWaits, JobKinds
  <2>7. PendingIsArmed'
    BY <2>1 DEF PendingIsArmed
  <2> QED BY <2>4, <2>5, <2>6, <2>7
<1>2. ASSUME NEW c \in Consoles, Confirm(c) \/ Forget(c)
      PROVE TokensInv' /\ PendingIsArmed'
  <2>1. /\ jobs' = jobs /\ changes' = changes
        /\ timers' \subseteq timers
        /\ pending' = NoTrial \/ (pending' = pending /\ timers' = timers)
    BY <1>2 DEF Confirm, Forget, CancelPendingRevert
  <2> QED BY <2>1 DEF SwitchInv, TokensInv, TimerWaits, OneTimerPerToken,
              JobKinds, PutIsNumbered, PendingIsArmed, Putting, Active
<1>3. ASSUME NEW c \in Consoles, Revert(c)
      PROVE TokensInv' /\ PendingIsArmed'
  <2>1. CASE pending = NoTrial
    <3>1. UNCHANGED <<pending, timers, jobs, changes>>
      BY <1>3, <2>1 DEF Revert
    <3> QED BY <3>1 DEF SwitchInv, TokensInv, TimerWaits, OneTimerPerToken,
                JobKinds, PutIsNumbered, PendingIsArmed, Putting, Active
  <2>2. CASE pending # NoTrial
    <3> USE DEF SwitchInv, TokensInv, TypeOK, Job, Procs, Tokens, Active,
                Putting
    <3>1. /\ changes' = changes /\ pending' = NoTrial
          /\ timers' \subseteq timers
      BY <1>3, <2>2 DEF Revert, CancelPendingRevert
    <3>2. /\ \A q \in Procs \ {c} : jobs'[q] = jobs[q]
          /\ jobs'[c].step = "status" /\ jobs'[c].kind = "undo"
      BY <1>3, <2>2 DEF Revert, StartLoad
    <3>3. TimerWaits' /\ OneTimerPerToken'
      BY <3>1, <3>2 DEF TimerWaits, OneTimerPerToken, Trial
    <3>4. JobKinds' /\ PutIsNumbered' /\ PendingIsArmed'
      BY <3>1, <3>2 DEF JobKinds, PutIsNumbered, PendingIsArmed
    <3> QED BY <3>3, <3>4
  <2> QED BY <2>1, <2>2
<1>4. ASSUME NEW c \in Consoles, Answer(c)
      PROVE TokensInv' /\ PendingIsArmed'
  <2> c \in Procs
    BY DEF Procs
  <2>1. CASE SavePut(c)
    <3>1. CASE jobs[c].target = NoRules
      BY <2>1, <3>1, Ending DEF SavePut
    <3>2. CASE jobs[c].target # NoRules
      <4>1. Active(c) /\ jobs[c].kind = "put" /\ Goto(c, "recheck")
        BY <2>1, <3>2 DEF SavePut, Active
      <4> QED BY <2>1, <4>1, MovingOn DEF SavePut, Steps
    <3> QED BY <3>1, <3>2
  <2>2. CASE ArmRevert(c)
    <3> USE DEF SwitchInv, TokensInv, TypeOK, Job, Procs, Tokens, Active,
                Putting, Idle
    <3> DEFINE t == jobs[c].token
    <3> DEFINE trial == [token |-> t, previous |-> jobs[c].previous]
    <3>1. /\ timers' = timers \cup {trial} /\ pending' = trial
          /\ changes' = changes
          /\ jobs' = [jobs EXCEPT ![c] = Idle]
      BY <2>2 DEF ArmRevert
    <3>2. Putting(c)
      BY <2>2 DEF ArmRevert, JobKinds
    <3>3. /\ t \in 1 .. changes /\ ~Active(t) /\ t # c
          /\ \A u \in timers : u.token # t
          /\ \A q \in Procs \ {c} : Putting(q) => jobs[q].token # t
      BY <3>2 DEF PutIsNumbered
    <3>4. /\ \A q \in Procs \ {c} : jobs'[q] = jobs[q]
          /\ jobs'[c].step = "idle" /\ jobs'[c].kind = "put"
      BY <3>1
    <3> HIDE DEF t
    <3>5. TimerWaits' /\ OneTimerPerToken'
      BY <3>1, <3>3, <3>4 DEF TimerWaits, OneTimerPerToken, Trial
    <3>6. JobKinds'
      BY <3>1, <3>4 DEF JobKinds
    <3>7. PutIsNumbered'
      BY <3>1, <3>3, <3>4 DEF PutIsNumbered
    <3>8. PendingIsArmed'
      BY <3>1 DEF PendingIsArmed
    <3> QED BY <3>5, <3>6, <3>7, <3>8
  <2>3. CASE RefusePut(c)
    BY <2>3, Ending DEF RefusePut
  <2>4. CASE NothingToConfirm(c)
    <3>1. jobs[c].kind = "put"
      BY <2>4 DEF NothingToConfirm, SwitchInv, TokensInv, JobKinds
    <3> QED BY <2>4, <3>1, Ending DEF NothingToConfirm
  <2> QED BY <1>4, <2>1, <2>2, <2>3, <2>4 DEF Answer
<1>5. ASSUME NEW p \in Procs, Proceed(p)
      PROVE TokensInv' /\ PendingIsArmed'
  <2>1. CASE ProbeStatus(p)
    <3>1. Active(p)
      BY <2>1 DEF ProbeStatus, Active
    <3>2. PICK step \in {"drop", "write"} : Goto(p, step)
      BY <2>1 DEF ProbeStatus
    <3> QED BY <2>1, <3>1, <3>2, MovingOn DEF ProbeStatus, Steps
  <2>2. CASE WriteRuleset(p)
    <3>1. Active(p) /\ Goto(p, "load")
      BY <2>2 DEF WriteRuleset, Active
    <3> QED BY <2>2, <3>1, MovingOn DEF WriteRuleset, Steps
  <2>3. CASE LoadRuleset(p)
    <3>1. Active(p) /\ Goto(p, "persist")
      BY <2>3 DEF LoadRuleset, Active
    <3> QED BY <2>3, <3>1, MovingOn DEF LoadRuleset, Steps
  <2>4. CASE LoadFails(p)
    <3>1. Active(p) /\ Goto(p, "refused")
      BY <2>4 DEF LoadFails, Active
    <3> QED BY <2>4, <3>1, MovingOn DEF LoadFails, Steps
  <2>5. CASE PersistRuleset(p)
    <3>1. Active(p) /\ Goto(p, "loaded")
      BY <2>5 DEF PersistRuleset, Active
    <3> QED BY <2>5, <3>1, MovingOn DEF PersistRuleset, Steps
  <2>6. CASE PersistFails(p)
    <3>1. Active(p) /\ Goto(p, "refused")
      BY <2>6 DEF PersistFails, Active
    <3> QED BY <2>6, <3>1, MovingOn DEF PersistFails, Steps
  <2>7. CASE DropTable(p)
    <3>1. Active(p) /\ Goto(p, "erase")
      BY <2>7 DEF DropTable, Active
    <3> QED BY <2>7, <3>1, MovingOn DEF DropTable, Steps
  <2>8. CASE EraseBootFile(p)
    <3>1. Active(p) /\ Goto(p, "loaded")
      BY <2>8 DEF EraseBootFile, Active
    <3> QED BY <2>8, <3>1, MovingOn DEF EraseBootFile, Steps
  <2>9. CASE FinishRollback(p)
    BY <2>9, Ending DEF FinishRollback
  <2>10. CASE WriteFails(p)
    <3>1. CASE jobs[p].kind = "put"
      <4>1. Active(p) /\ Goto(p, "refused")
        BY <2>10, <3>1 DEF WriteFails, Active
      <4> QED BY <2>10, <4>1, MovingOn DEF WriteFails, Steps
    <3>2. CASE jobs[p].kind # "put"
      BY <2>10, <3>2, Ending DEF WriteFails
    <3> QED BY <3>1, <3>2
  <2>11. CASE CallbackDies(p)
    <3>1. /\ pending' = NoTrial /\ timers' = {} /\ changes' = changes
          /\ jobs' = [q \in Procs |-> Idle]
      BY <2>11 DEF CallbackDies
    <3> QED BY <3>1, AtRest
  <2>12. CASE ReadsUnavailable(p) \/ EnableFails(p) \/ TableStays(p) \/ DisableFails(p)
    <3>1. Active(p)
      BY <2>12 DEF ReadsUnavailable, EnableFails, TableStays, DisableFails, Active
    <3>2. PICK step \in {"loaded", "erase", "refused"} : Goto(p, step)
      BY <2>12 DEF ReadsUnavailable, EnableFails, TableStays, DisableFails
    <3>3. UNCHANGED <<pending, timers, changes>>
      BY <2>12 DEF ReadsUnavailable, EnableFails, TableStays, DisableFails
    <3> QED BY <3>1, <3>2, <3>3, MovingOn DEF Steps
  <2> QED BY <1>5, <2>1, <2>2, <2>3, <2>4, <2>5, <2>6, <2>7, <2>8, <2>9,
             <2>10, <2>11, <2>12 DEF Proceed
<1>6. ASSUME NEW trial \in timers, RevertTimer(trial)
      PROVE TokensInv' /\ PendingIsArmed'
  <2> USE DEF SwitchInv, TokensInv, TypeOK, Job, Procs, Tokens, Active,
              Putting, Trial
  <2> DEFINE t == trial.token
  <2>1. /\ t \in 1 .. changes /\ ~Active(t) /\ t \in Tokens
        /\ \A u \in timers \ {trial} : u.token # t
    BY DEF TimerWaits, OneTimerPerToken
  <2>2. /\ timers' = timers \ {trial} /\ pending' = pending
        /\ changes' = changes
    BY <1>6 DEF RevertTimer
  <2>3. /\ \A q \in Procs \ {t} : jobs'[q] = jobs[q]
        /\ jobs'[t].step = "status" /\ jobs'[t].kind = "timer"
        /\ jobs'[t].target = trial.previous
    BY <1>6 DEF RevertTimer, StartLoad
  <2>4. TimerWaits' /\ OneTimerPerToken'
    BY <2>1, <2>2, <2>3 DEF TimerWaits, OneTimerPerToken
  <2>5. JobKinds'
    BY <2>1, <2>2, <2>3 DEF JobKinds
  <2>6. PutIsNumbered'
    <3>1. \A p \in Procs : Putting(p) => jobs[p].token # t
      BY DEF PutIsNumbered
    <3> QED BY <2>1, <2>2, <2>3, <3>1 DEF PutIsNumbered
  <2>7. PendingIsArmed'
    <3>1. CASE pending = trial
      BY <2>1, <2>2, <2>3, <3>1 DEF PendingIsArmed
    <3>2. CASE pending \in timers \ {trial}
      BY <2>2, <3>2 DEF PendingIsArmed
    <3>3. CASE pending \notin timers
      BY <2>1, <2>2, <2>3, <3>3 DEF PendingIsArmed
    <3> QED BY <3>1, <3>2, <3>3
  <2> QED BY <2>4, <2>5, <2>6, <2>7
<1>7. CASE RestartBackend \/ Reboot
  <2>1. /\ pending' = NoTrial /\ timers' = {}
        /\ jobs' = [p \in Procs |-> Idle] /\ changes' = changes
    BY <1>7 DEF RestartBackend, Reboot, LoseMemory
  <2> QED BY <2>1, AtRest
<1>8. CASE UNCHANGED vars
  <2>1. UNCHANGED <<pending, timers, jobs, changes>>
    BY <1>8 DEF vars
  <2> QED BY <2>1 DEF SwitchInv, TokensInv, TimerWaits, OneTimerPerToken,
              JobKinds, PutIsNumbered, PendingIsArmed, Putting, Active
<1> QED BY <1>1, <1>2, <1>3, <1>4, <1>5, <1>6, <1>7, <1>8 DEF Next

\* pendingRevert, the timers, the jobs and everything else keep their types:
\* in particular a timer always carries the token of a request that was made.
THEOREM TypeCorrect == Spec => []TypeOK
<1>1. SwitchInv => TypeOK
  BY DEF SwitchInv
<1> QED BY SwitchInit, SwitchStep, <1>1, PTL DEF Spec

\* The dead-man's switch is never silently lost: while routes.ts would accept
\* a confirmation, the timer set for that very change is armed or its callback
\* is undoing the change, for any number of tabs, changes and restarts.
THEOREM DeadMansSwitch == Spec => []PendingIsArmed
<1>1. SwitchInv => PendingIsArmed
  BY DEF SwitchInv
<1> QED BY SwitchInit, SwitchStep, <1>1, PTL DEF Spec

-----------------------------------------------------------------------------
(* The inductive invariant behind OrderlySettled: while nobody overlaps     *)
(* requests there is one job at most, and its step says exactly how far the *)
(* row, the kernel and the boot file have got.                              *)

OneJob == \A p, q \in Procs : Active(p) /\ Active(q) => p = q

\* kernel, boot file and row before, while and after a ruleset is loaded.
HostAt(p) ==
    LET job == jobs[p] IN
    /\ job.step \in {"status", "write", "load", "drop", "refused"} =>
           kernel = stored /\ bootFile = stored
    /\ job.step \in {"load", "persist"} => draft = job.target
    /\ job.step \in {"drop", "erase"} => job.target = NoRules
    /\ job.step \in {"persist", "erase"} => kernel = job.target
    /\ job.step \in {"loaded", "recheck"} =>
           kernel = job.target /\ bootFile = job.target
    /\ job.step = "recheck" => stored = job.target

\* What the job was started for, and what it will fall back to.
GoalOf(p) ==
    LET job == jobs[p] IN
    /\ timers = {}
    /\ job.kind = "put" =>
           /\ pending = NoTrial /\ job.previous = agreed
           /\ job.step # "recheck" => stored = agreed
    /\ job.kind = "undo" => pending = NoTrial
    /\ job.kind # "put" => job.target = agreed /\ job.step # "refused"

Settled ==
    /\ kernel = stored /\ bootFile = stored
    /\ pending = NoTrial => timers = {} /\ stored = agreed
    /\ pending # NoTrial => timers = {pending} /\ pending.previous = agreed

OrderInv ==
    (orderly /\ nft) =>
        /\ OneJob
        /\ Quiet => Settled
        /\ \A p \in Procs : Active(p) => HostAt(p) /\ GoalOf(p)

LEMMA OrderInit == Init => OrderInv
BY DEF Init, OrderInv, OneJob, Settled, Active, Quiet, Idle

\* Starting the one job, from rest.
LEMMA OrderStart ==
    ASSUME SwitchInv, OrderInv, Quiet, nft, orderly,
           NEW p \in Procs, NEW kind \in {"put", "undo", "timer"},
           NEW target \in Config, NEW previous \in Config,
           NEW token \in 0 .. MaxChanges,
           StartLoad(p, kind, target, previous, token),
           timers' = {}, UNCHANGED <<stored, kernel, bootFile, agreed>>,
           kind # "timer" => pending' = NoTrial,
           kind = "put" => stored = agreed /\ previous = agreed,
           kind # "put" => target = agreed
    PROVE  OrderInv'
<1>1. kernel = stored /\ bootFile = stored
  BY DEF OrderInv, Settled
<1>2. \A q \in Procs \ {p} : jobs'[q].step = "idle"
  BY DEF StartLoad, Quiet, SwitchInv, TypeOK
<1>3. jobs'[p] = [step |-> "status", kind |-> kind, target |-> target,
                  previous |-> previous, token |-> token]
  BY DEF StartLoad, SwitchInv, TypeOK
<1>4. Active(p)' /\ ~Quiet' /\ OneJob'
  BY <1>2, <1>3 DEF Active, Quiet, OneJob
<1>5. HostAt(p)' /\ GoalOf(p)'
  BY <1>1, <1>3 DEF HostAt, GoalOf
<1> QED BY <1>2, <1>4, <1>5 DEF OrderInv, Active

\* The one job moves on: no other job is there to be disturbed.
LEMMA OrderMove ==
    ASSUME SwitchInv, OrderInv, nft, orderly, NEW p \in Procs, Active(p),
           NEW step \in Steps \ {"idle"}, Goto(p, step),
           (HostAt(p) /\ GoalOf(p)) => (HostAt(p) /\ GoalOf(p))'
    PROVE  OrderInv'
<1>1. \A q \in Procs : Active(q)' <=> Active(q)
  BY DEF Goto, Active, SwitchInv, TypeOK
<1>2. \A q \in Procs : Active(q) => q = p
  BY DEF OrderInv, OneJob
<1>3. ~Quiet' /\ OneJob'
  BY <1>1, <1>2 DEF OneJob, Quiet, Active
<1> QED BY <1>1, <1>2, <1>3 DEF OrderInv

\* The one job ends, and everything is settled again.
LEMMA OrderEnd ==
    ASSUME SwitchInv, OrderInv, nft, orderly, NEW p \in Procs, Active(p),
           jobs' = [jobs EXCEPT ![p] = Idle],
           Settled'
    PROVE  OrderInv'
<1>1. \A q \in Procs : ~Active(q)'
  BY DEF Active, Idle, OrderInv, OneJob, SwitchInv, TypeOK
<1> QED BY <1>1 DEF OrderInv, OneJob

LEMMA OrderStep == SwitchInv /\ OrderInv /\ [Next]_vars => OrderInv'
<1> SUFFICES ASSUME SwitchInv, OrderInv, [Next]_vars, orderly', nft'
             PROVE  OrderInv'
  BY DEF OrderInv
<1> USE DEF serverVars, hostVars, bounds, history
<1>1. ASSUME NEW c \in Consoles, NEW next \in Config, PutFirewall(c, next)
      PROVE OrderInv'
  <2>1. Quiet /\ orderly /\ nft /\ pending = NoTrial
    BY <1>1 DEF PutFirewall
  <2>2. Settled
    BY <2>1 DEF OrderInv
  <2>3. timers' = {} /\ pending' = NoTrial
    BY <1>1, <2>1, <2>2 DEF PutFirewall, CancelPendingRevert, Settled
  <2>4. changes + 1 \in 0 .. MaxChanges /\ c \in Procs /\ stored \in Config
    BY <1>1 DEF PutFirewall, SwitchInv, TypeOK, Procs
  <2> QED BY <1>1, <2>1, <2>2, <2>3, <2>4, OrderStart DEF PutFirewall, Settled
<1>2. ASSUME NEW c \in Consoles, Confirm(c) PROVE OrderInv'
  <2>1. CASE pending.token = ui[c]
    <3>1. Quiet /\ orderly /\ nft
      BY <1>2, <2>1 DEF Confirm
    <3>2. pending # NoTrial
      BY <1>2, <2>1 DEF Confirm, NoTrial
    <3>3. Settled
      BY <3>1 DEF OrderInv
    <3>4. /\ pending' = NoTrial /\ timers' = {} /\ agreed' = stored
          /\ UNCHANGED <<jobs, stored, kernel, bootFile>>
      BY <1>2, <2>1, <3>2, <3>3
         DEF Confirm, CancelPendingRevert, Settled
    <3> QED BY <3>1, <3>3, <3>4 DEF OrderInv, OneJob, Settled, Quiet, Active
  <2>2. CASE pending.token # ui[c]
    <3>1. UNCHANGED <<nft, stored, kernel, bootFile, draft, pending, timers,
                      jobs, agreed, orderly>>
      BY <1>2, <2>2 DEF Confirm
    <3> QED BY <3>1 DEF OrderInv, OneJob, Settled, Quiet, Active, HostAt,
                        GoalOf
  <2> QED BY <2>1, <2>2
<1>3. ASSUME NEW c \in Consoles, Revert(c) PROVE OrderInv'
  <2>1. CASE pending = NoTrial
    <3>1. UNCHANGED <<nft, stored, kernel, bootFile, draft, pending, timers,
                      jobs, agreed, orderly>>
      BY <1>3, <2>1 DEF Revert
    <3> QED BY <3>1 DEF OrderInv, OneJob, Settled, Quiet, Active, HostAt,
                        GoalOf
  <2>2. CASE pending # NoTrial
    <3>1. Quiet /\ orderly /\ nft /\ c \in Procs
      BY <1>3, <2>2 DEF Revert, Procs
    <3>2. Settled
      BY <3>1 DEF OrderInv
    <3>3. pending' = NoTrial /\ timers' = {}
      BY <1>3, <2>2, <3>2 DEF Revert, CancelPendingRevert, Settled
    <3>4. pending.previous = agreed /\ agreed \in Config
      BY <2>2, <3>2 DEF Settled, SwitchInv, TypeOK
    <3>5. StartLoad(c, "undo", agreed, agreed, 0)
      BY <1>3, <2>2, <3>4 DEF Revert
    <3>6. UNCHANGED <<stored, kernel, bootFile, agreed>>
      BY <1>3 DEF Revert
    <3>7. 0 \in 0 .. MaxChanges
      BY ConstantsAssumption
    <3> QED BY <3>1, <3>3, <3>4, <3>5, <3>6, <3>7, OrderStart
  <2> QED BY <2>1, <2>2
<1>4. ASSUME NEW c \in Consoles, Forget(c) PROVE OrderInv'
  <2>1. UNCHANGED <<nft, stored, kernel, bootFile, draft, pending, timers,
                    jobs, agreed, orderly>>
    BY <1>4 DEF Forget
  <2> QED BY <2>1 DEF OrderInv, OneJob, Settled, Quiet, Active, HostAt, GoalOf
<1>5. ASSUME NEW c \in Consoles, Answer(c) PROVE OrderInv'
  <2> c \in Procs
    BY DEF Procs
  <2>1. CASE SavePut(c)
    <3>1. orderly /\ nft /\ Active(c)
      BY <2>1 DEF SavePut, Active
    <3>2. HostAt(c) /\ GoalOf(c)
      BY <3>1 DEF OrderInv
    <3>3. CASE jobs[c].target = NoRules
      <4>1. Settled'
        BY <2>1, <3>2, <3>3 DEF SavePut, HostAt, GoalOf, Settled
      <4> QED BY <2>1, <3>1, <3>3, <4>1, OrderEnd DEF SavePut
    <3>4. CASE jobs[c].target # NoRules
      <4>1. Goto(c, "recheck")
        BY <2>1, <3>4 DEF SavePut
      <4>2. HostAt(c)' /\ GoalOf(c)'
        BY <2>1, <3>2, <3>4, <4>1
           DEF SavePut, HostAt, GoalOf, Goto, SwitchInv, TypeOK
      <4> QED BY <2>1, <3>1, <4>1, <4>2, OrderMove DEF SavePut, Steps
    <3> QED BY <3>3, <3>4
  <2>2. CASE ArmRevert(c)
    <3>1. orderly /\ nft /\ Active(c) /\ jobs[c].kind = "put"
      BY <2>2 DEF ArmRevert, Active, SwitchInv, TokensInv, JobKinds
    <3>2. HostAt(c) /\ GoalOf(c)
      BY <3>1 DEF OrderInv
    <3>3. jobs[c].token # 0
      BY <3>1 DEF SwitchInv, TokensInv, PutIsNumbered, Putting, Active, Procs
    <3>4. Settled'
      BY <2>2, <3>1, <3>2, <3>3
         DEF ArmRevert, HostAt, GoalOf, Settled, NoTrial
    <3> QED BY <2>2, <3>1, <3>4, OrderEnd DEF ArmRevert
  <2>3. CASE RefusePut(c)
    <3>1. orderly /\ nft /\ Active(c)
      BY <2>3 DEF RefusePut, Active
    <3>2. HostAt(c) /\ GoalOf(c)
      BY <3>1 DEF OrderInv
    <3>3. Settled'
      BY <2>3, <3>2 DEF RefusePut, HostAt, GoalOf, Settled
    <3> QED BY <2>3, <3>1, <3>3, OrderEnd DEF RefusePut
  <2>4. CASE NothingToConfirm(c)
    BY <2>4 DEF NothingToConfirm
  <2> QED BY <1>5, <2>1, <2>2, <2>3, <2>4 DEF Answer
<1>6. ASSUME NEW p \in Procs, Proceed(p) PROVE OrderInv'
  <2>1. CASE ProbeStatus(p)
    <3>1. PICK step \in {"drop", "write"} :
             /\ Goto(p, step)
             /\ step = "drop" => jobs[p].target = NoRules
      BY <2>1 DEF ProbeStatus
    <3>2. (HostAt(p) /\ GoalOf(p)) => (HostAt(p) /\ GoalOf(p))'
      BY <2>1, <3>1 DEF ProbeStatus, HostAt, GoalOf, Goto, SwitchInv, TypeOK
    <3> QED BY <2>1, <3>1, <3>2, OrderMove DEF ProbeStatus, Active, Steps
  <2>2. CASE WriteRuleset(p)
    <3>1. Goto(p, "load") /\ jobs[p].step # "idle"
      BY <2>2 DEF WriteRuleset
    <3>2. (HostAt(p) /\ GoalOf(p)) => (HostAt(p) /\ GoalOf(p))'
      BY <2>2 DEF WriteRuleset, HostAt, GoalOf, Goto,
                   SwitchInv, TypeOK
    <3> QED BY <2>2, <3>1, <3>2, OrderMove DEF WriteRuleset, Active, Steps
  <2>3. CASE LoadRuleset(p)
    <3>1. Goto(p, "persist") /\ jobs[p].step # "idle"
      BY <2>3 DEF LoadRuleset
    <3>2. (HostAt(p) /\ GoalOf(p)) => (HostAt(p) /\ GoalOf(p))'
      BY <2>3 DEF LoadRuleset, HostAt, GoalOf, Goto,
                   SwitchInv, TypeOK
    <3> QED BY <2>3, <3>1, <3>2, OrderMove DEF LoadRuleset, Active, Steps
  <2>4. CASE LoadFails(p)
    <3>1. /\ Goto(p, "refused") /\ jobs[p].step = "load"
          /\ orderly /\ jobs[p].kind = "put"
      BY <2>4 DEF LoadFails
    <3>2. (HostAt(p) /\ GoalOf(p)) => (HostAt(p) /\ GoalOf(p))'
      <4>1. UNCHANGED <<stored, kernel, bootFile, draft, pending, timers,
                        agreed>>
        BY <2>4 DEF LoadFails
      <4>2. jobs' = [jobs EXCEPT ![p].step = "refused"] /\ jobs \in [Procs -> Job]
        BY <3>1 DEF Goto, SwitchInv, TypeOK
      <4>3. /\ jobs'[p].step = "refused" /\ jobs'[p].kind = "put"
            /\ jobs'[p].target = jobs[p].target
            /\ jobs'[p].previous = jobs[p].previous
        BY <3>1, <4>2 DEF Job
      <4> QED BY <3>1, <4>1, <4>3 DEF HostAt, GoalOf
    <3> QED BY <2>4, <3>1, <3>2, OrderMove DEF LoadFails, Active, Steps
  <2>5. CASE PersistRuleset(p)
    <3>1. Goto(p, "loaded") /\ jobs[p].step # "idle"
      BY <2>5 DEF PersistRuleset
    <3>2. (HostAt(p) /\ GoalOf(p)) => (HostAt(p) /\ GoalOf(p))'
      BY <2>5 DEF PersistRuleset, HostAt, GoalOf, Goto,
                   SwitchInv, TypeOK
    <3> QED BY <2>5, <3>1, <3>2, OrderMove DEF PersistRuleset, Active, Steps
  <2>6. CASE PersistFails(p)
    BY <2>6 DEF PersistFails
  <2>7. CASE DropTable(p)
    <3>1. Goto(p, "erase") /\ jobs[p].step # "idle"
      BY <2>7 DEF DropTable
    <3>2. (HostAt(p) /\ GoalOf(p)) => (HostAt(p) /\ GoalOf(p))'
      BY <2>7 DEF DropTable, HostAt, GoalOf, Goto,
                   SwitchInv, TypeOK
    <3> QED BY <2>7, <3>1, <3>2, OrderMove DEF DropTable, Active, Steps
  <2>8. CASE EraseBootFile(p)
    <3>1. Goto(p, "loaded") /\ jobs[p].step # "idle"
      BY <2>8 DEF EraseBootFile
    <3>2. (HostAt(p) /\ GoalOf(p)) => (HostAt(p) /\ GoalOf(p))'
      BY <2>8 DEF EraseBootFile, HostAt, GoalOf, Goto,
                   SwitchInv, TypeOK
    <3> QED BY <2>8, <3>1, <3>2, OrderMove DEF EraseBootFile, Active, Steps
  <2>9. CASE FinishRollback(p)
    <3>1. orderly /\ nft /\ Active(p) /\ jobs[p].kind # "put"
      BY <2>9 DEF FinishRollback, Active
    <3>2. HostAt(p) /\ GoalOf(p)
      BY <3>1 DEF OrderInv
    <3>3. jobs[p].step = "loaded" /\ jobs[p].target = agreed
      BY <2>9, <3>1, <3>2 DEF FinishRollback, GoalOf
    <3>4. jobs[p].kind \in {"undo", "timer"}
      BY <3>1 DEF SwitchInv, TypeOK, Job
    <3>5. Settled'
      BY <2>9, <3>2, <3>3, <3>4
         DEF FinishRollback, HostAt, GoalOf, Settled
    <3> QED BY <2>9, <3>1, <3>5, OrderEnd DEF FinishRollback
  <2>10. CASE WriteFails(p)
    <3>1. /\ Goto(p, "refused") /\ jobs[p].step = "write"
          /\ nft /\ orderly /\ jobs[p].kind = "put"
      BY <2>10 DEF WriteFails
    <3>2. (HostAt(p) /\ GoalOf(p)) => (HostAt(p) /\ GoalOf(p))'
      <4>1. UNCHANGED <<stored, kernel, bootFile, draft, pending, timers,
                        agreed>>
        BY <2>10 DEF WriteFails
      <4>2. jobs' = [jobs EXCEPT ![p].step = "refused"] /\ jobs \in [Procs -> Job]
        BY <3>1 DEF Goto, SwitchInv, TypeOK
      <4>3. /\ jobs'[p].step = "refused" /\ jobs'[p].kind = "put"
            /\ jobs'[p].target = jobs[p].target
            /\ jobs'[p].previous = jobs[p].previous
        BY <3>1, <4>2 DEF Job
      <4> QED BY <3>1, <4>1, <4>3 DEF HostAt, GoalOf
    <3> QED BY <3>1, <3>2, OrderMove DEF Active, Steps
  <2>11. CASE CallbackDies(p)
    BY <2>11 DEF CallbackDies
  <2>12. CASE ReadsUnavailable(p) \/ EnableFails(p) \/ TableStays(p)
    BY <2>12 DEF ReadsUnavailable, EnableFails, TableStays
  <2>13. CASE DisableFails(p)
    <3>1. /\ Goto(p, "refused") /\ jobs[p].step = "drop"
          /\ nft /\ orderly /\ jobs[p].kind = "put"
      BY <2>13 DEF DisableFails
    <3>2. (HostAt(p) /\ GoalOf(p)) => (HostAt(p) /\ GoalOf(p))'
      <4>1. UNCHANGED <<stored, kernel, bootFile, draft, pending, timers,
                        agreed>>
        BY <2>13 DEF DisableFails
      <4>2. jobs' = [jobs EXCEPT ![p].step = "refused"] /\ jobs \in [Procs -> Job]
        BY <3>1 DEF Goto, SwitchInv, TypeOK
      <4>3. /\ jobs'[p].step = "refused" /\ jobs'[p].kind = "put"
            /\ jobs'[p].target = jobs[p].target
            /\ jobs'[p].previous = jobs[p].previous
        BY <3>1, <4>2 DEF Job
      <4> QED BY <3>1, <4>1, <4>3 DEF HostAt, GoalOf
    <3> QED BY <3>1, <3>2, OrderMove DEF Active, Steps
  <2> QED BY <1>6, <2>1, <2>2, <2>3, <2>4, <2>5, <2>6, <2>7, <2>8, <2>9,
             <2>10, <2>11, <2>12, <2>13 DEF Proceed
<1>7. ASSUME NEW trial \in timers, RevertTimer(trial) PROVE OrderInv'
  <2>1. Quiet /\ orderly /\ nft
    BY <1>7 DEF RevertTimer
  <2>2. Settled
    BY <2>1 DEF OrderInv
  <2>3. trial = pending /\ timers' = {} /\ trial.previous = agreed
    BY <1>7, <2>2 DEF RevertTimer, Settled
  <2>4. /\ trial.token \in Procs /\ trial.token \in 0 .. MaxChanges
        /\ agreed \in Config
    BY DEF SwitchInv, TypeOK, Trial, Procs, Tokens
  <2>5. StartLoad(trial.token, "timer", agreed, agreed, trial.token)
    BY <1>7, <2>3 DEF RevertTimer
  <2>6. UNCHANGED <<stored, kernel, bootFile, agreed>>
    BY <1>7 DEF RevertTimer
  <2> QED BY <2>1, <2>3, <2>4, <2>5, <2>6, OrderStart
<1>8. CASE RestartBackend \/ Reboot
  <2>1. Quiet /\ orderly /\ nft /\ pending = NoTrial
    BY <1>8 DEF RestartBackend, Reboot, LoseMemory
  <2>2. Settled
    BY <2>1 DEF OrderInv
  <2>3. /\ pending' = NoTrial /\ timers' = {}
        /\ jobs' = [p \in Procs |-> Idle]
        /\ UNCHANGED <<stored, bootFile, agreed>>
        /\ kernel' = kernel \/ kernel' = bootFile
    BY <1>8 DEF RestartBackend, Reboot, LoseMemory
  <2>4. Settled'
    BY <2>1, <2>2, <2>3 DEF Settled
  <2>5. \A p \in Procs : ~Active(p)'
    BY <2>3 DEF Active, Idle
  <2> QED BY <2>4, <2>5 DEF OrderInv, OneJob
<1>9. CASE UNCHANGED vars
  BY <1>9 DEF vars, OrderInv, OneJob, Settled, Quiet, Active, HostAt, GoalOf
<1> QED BY <1>1, <1>2, <1>3, <1>4, <1>5, <1>6, <1>7, <1>8, <1>9 DEF Next

\* Confirm-or-revert is exact for administrators who make one change at a
\* time: at rest the row, the kernel and the boot file agree, they hold what
\* was last agreed to, or the pending rollback does, whatever the rulesets.
THEOREM ConfirmOrRevert == Spec => []OrderlySettled
<1>1. SwitchInv /\ OrderInv => OrderlySettled
  BY DEF OrderInv, OrderlySettled, Settled
<1> QED BY SwitchInit, SwitchStep, OrderInit, OrderStep, <1>1, PTL DEF Spec
=============================================================================
