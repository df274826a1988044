------------------------------ MODULE AppTasks ------------------------------
(***************************************************************************)
(* The work installed apps schedule: the rows of db/scheduled-tasks.ts,    *)
(* the routes an app registers them through (apps/routes.ts) and the       *)
(* once-a-minute batch that performs them (apps/scheduler.ts).             *)
(*                                                                         *)
(* A batch is read from the table at once and then performed entry by      *)
(* entry; a request to another host is awaited, and meanwhile the app may  *)
(* change its tasks, or be updated, disabled or removed.  Time is counted  *)
(* in ticks, relative to now: row[t].due is how many ticks are left.       *)
(***************************************************************************)
EXTENDS Integers, Sequences, FiniteSets

CONSTANTS
    Tasks,      \* the names apps register work under
    Apps,
    AppOf,      \* the app of each task
    Intervals,  \* in ticks
    Limit,      \* dueTasks(limit)
    MaxTasks,   \* MAX_TASKS_PER_APP
    None        \* no row

ASSUME AppTasksAssumption ==
    /\ AppOf \in [Tasks -> Apps] /\ IsFiniteSet(Tasks)
    /\ Intervals \subseteq Nat \ {0}
    /\ Limit \in Nat \ {0} /\ MaxTasks \in Nat

VARIABLES
    app,        \* installed_apps, with what its manifest allows
    leaving,    \* apps whose removal has deleted the row and awaits the files
    row,        \* scheduled_tasks
    batch,      \* the rows, as they were read, this batch has yet to perform
    fetching,   \* the head of batch awaits its answer
    overtaken   \* history: last armed by a run begun under another interval

vars == <<app, leaving, row, batch, fetching, overtaken>>

Kinds == {"notify", "fetch"}

\* able: the manifest has "schedule" and what the actions need.
App == [installed : BOOLEAN, enabled : BOOLEAN, able : BOOLEAN]
Row == [every : Intervals, kind : Kinds, enabled : BOOLEAN, due : Int]

\* live: no row with this id was deleted since it was read.
Entry == [task : Tasks, every : Intervals, kind : Kinds, live : BOOLEAN]

-----------------------------------------------------------------------------
(* The rows *)

Has(t) == row[t] # None
Due(t) == Has(t) /\ row[t].enabled /\ row[t].due <= 0

Armed(r, every) == [r EXCEPT !.due = every]

\* A deleted row's id is never used again.
DeleteTasks(ts) ==
    /\ row' = [t \in Tasks |-> IF t \in ts THEN None ELSE row[t]]
    /\ batch' = [i \in DOMAIN batch |->
           IF batch[i].task \in ts THEN [batch[i] EXCEPT !.live = FALSE]
                                   ELSE batch[i]]
    /\ overtaken' = overtaken \ ts

TasksOf(a) == {t \in Tasks : AppOf[t] = a}

-----------------------------------------------------------------------------
(* What apps ask for.  Whether the app is enabled is not asked here. *)

MayRegister(t) == app[AppOf[t]].installed /\ app[AppOf[t]].able

\* Mutant of Upserted: every registration starts the interval anew.
UpsertedAnew(t, every, kind, enabled) ==
    [every |-> every, kind |-> kind, enabled |-> enabled, due |-> every]

\* Mutant of Upserted: the time it is due is set once.
UpsertedOnce(t, every, kind, enabled) ==
    [every |-> every, kind |-> kind, enabled |-> enabled,
     due |-> IF Has(t) THEN row[t].due ELSE every]

\* upsertTask: armed anew only when the interval changed.
Upserted(t, every, kind, enabled) ==
    [every |-> every, kind |-> kind, enabled |-> enabled,
     due |-> IF Has(t) /\ row[t].every = every THEN row[t].due ELSE every]

Register(t, every, kind, enabled) ==
    /\ MayRegister(t)
    /\ Has(t) \/ Cardinality({u \in TasksOf(AppOf[t]) : Has(u)}) < MaxTasks
    /\ row' = [row EXCEPT ![t] = Upserted(t, every, kind, enabled)]
    /\ overtaken' = IF Has(t) /\ row[t].every = every THEN overtaken
                                                      ELSE overtaken \ {t}
    /\ UNCHANGED <<app, leaving, batch, fetching>>

Unregister(t) ==
    /\ MayRegister(t) /\ Has(t)
    /\ DeleteTasks({t})
    /\ UNCHANGED <<app, leaving, fetching>>

-----------------------------------------------------------------------------
(* What administrators do to the apps *)

\* A first install enables the app; an update leaves that as it is.
CommitPackage(a, able) ==
    /\ app' = [app EXCEPT ![a] = [installed |-> TRUE, able |-> able,
                   enabled |-> app[a].installed => app[a].enabled]]
    /\ UNCHANGED <<leaving, row, batch, fetching, overtaken>>

SetEnabled(a, enabled) ==
    /\ app[a].installed
    /\ app' = [app EXCEPT ![a].enabled = enabled]
    /\ UNCHANGED <<leaving, row, batch, fetching, overtaken>>

RemoveApp(a) ==
    /\ app[a].installed
    /\ app' = [app EXCEPT ![a] = [installed |-> FALSE, enabled |-> FALSE,
                                  able |-> FALSE]]
    /\ leaving' = leaving \cup {a}
    /\ UNCHANGED <<row, batch, fetching, overtaken>>

\* The app's files are gone; deleteTasksForApp.
FinishRemoval(a) ==
    /\ a \in leaving
    /\ leaving' = leaving \ {a}
    /\ DeleteTasks(TasksOf(a))
    /\ UNCHANGED <<app, fetching>>

\* Deleting the files fails, and with it the rest of the request.
RemovalFails(a) ==
    /\ a \in leaving
    /\ leaving' = leaving \ {a}
    /\ UNCHANGED <<app, row, batch, fetching, overtaken>>

-----------------------------------------------------------------------------
(* The scheduler *)

\* The longest due first; SQL leaves open which of several comes first.
DueTasks(rows) ==
    LET due == {t \in Tasks : rows[t] # None /\ rows[t].enabled
                                             /\ rows[t].due <= 0}
        n == IF Cardinality(due) < Limit THEN Cardinality(due) ELSE Limit
    IN  {s \in [1 .. n -> due] :
           /\ \A i, j \in 1 .. n :
                 i < j => s[i] # s[j] /\ rows[s[i]].due <= rows[s[j]].due
           /\ \A t \in due : \A i \in 1 .. n :
                 t \in {s[j] : j \in 1 .. n} \/ rows[s[i]].due <= rows[t].due}

Read(t) == [task |-> t, every |-> row[t].every, kind |-> row[t].kind,
            live |-> TRUE]

\* Of the rows that are late only the order matters: lateness is counted in
\* rows that are late but less so.
Later ==
    LET left == [t \in {u \in Tasks : Has(u)} |-> row[t].due - 1]
        Late(n) == -Cardinality({left[u] : u \in {v \in DOMAIN left :
                                                 n < left[v] /\ left[v] <= 0}})
    IN  [t \in Tasks |->
           IF Has(t) THEN [row[t] EXCEPT !.due =
                             IF left[t] > 0 THEN left[t] ELSE Late(left[t])]
                     ELSE None]

\* Mutant of Minute: a batch begins while another is performed.
MinuteAnyway ==
    /\ row' = Later
    /\ \E s \in DueTasks(row') :
          batch' = batch \o [i \in DOMAIN s |-> Read(s[i])]
    /\ Len(batch) <= Cardinality(Tasks)
    /\ UNCHANGED <<app, leaving, fetching, overtaken>>

\* A minute passes; a batch begins unless one is performed.
Minute ==
    /\ row' = Later
    /\ IF batch = <<>>
         THEN \E s \in DueTasks(row') :
                 batch' = [i \in DOMAIN s |-> Read(s[i])]
         ELSE UNCHANGED batch
    /\ UNCHANGED <<app, leaving, fetching, overtaken>>

Next1 == Head(batch)
AppNow == app[AppOf[Next1.task]]

\* completeRun: by id, with the interval as it was read.
CompleteRun ==
    /\ batch' = Tail(batch)
    /\ fetching' = FALSE
    /\ LET t == Next1.task
       IN  /\ row' = IF Next1.live
                       THEN [row EXCEPT ![t] = Armed(@, Next1.every)]
                       ELSE row
           /\ overtaken' = IF ~Next1.live THEN overtaken
                           ELSE IF row[t].every = Next1.every
                             THEN overtaken \ {t} ELSE overtaken \cup {t}
    /\ UNCHANGED <<app, leaving>>

\* Mutant of DropOrphans: the batch passes over what it cannot do.
SkipOrphans ==
    /\ batch # <<>> /\ ~fetching
    /\ ~AppNow.installed
    /\ batch' = Tail(batch)
    /\ UNCHANGED <<app, leaving, row, fetching, overtaken>>

\* The app is gone: deleteTasksForApp.
DropOrphans ==
    /\ batch # <<>> /\ ~fetching
    /\ ~AppNow.installed
    /\ LET gone == TasksOf(AppOf[Next1.task])
       IN  /\ row' = [t \in Tasks |-> IF t \in gone THEN None ELSE row[t]]
           /\ batch' = [i \in DOMAIN Tail(batch) |->
                  [Tail(batch)[i] EXCEPT
                     !.live = @ /\ Tail(batch)[i].task \notin gone]]
           /\ overtaken' = overtaken \ gone
    /\ UNCHANGED <<app, leaving, fetching>>

\* Disabled, or no longer allowed what the action needs: an error.
RefuseRun ==
    /\ batch # <<>> /\ ~fetching
    /\ AppNow.installed /\ ~(AppNow.enabled /\ AppNow.able)
    /\ CompleteRun

Notify ==
    /\ batch # <<>> /\ ~fetching
    /\ AppNow.installed /\ AppNow.enabled /\ AppNow.able
    /\ Next1.kind = "notify"
    /\ CompleteRun

StartFetch ==
    /\ batch # <<>> /\ ~fetching
    /\ AppNow.installed /\ AppNow.enabled /\ AppNow.able
    /\ Next1.kind = "fetch"
    /\ fetching' = TRUE
    /\ UNCHANGED <<app, leaving, row, batch, overtaken>>

\* An answer, an error or the time limit.
EndFetch == fetching /\ CompleteRun

\* The batch and the requests in flight are gone.
Restart ==
    /\ batch' = <<>> /\ fetching' = FALSE
    /\ leaving' = {}
    /\ UNCHANGED <<app, row, overtaken>>

Perform == DropOrphans \/ RefuseRun \/ Notify \/ StartFetch \/ EndFetch

-----------------------------------------------------------------------------

Init ==
    /\ app = [a \in Apps |-> [installed |-> FALSE, enabled |-> FALSE,
                              able |-> FALSE]]
    /\ leaving = {}
    /\ row = [t \in Tasks |-> None]
    /\ batch = <<>> /\ fetching = FALSE
    /\ overtaken = {}

Next ==
    \/ \E t \in Tasks :
         \/ \E every \in Intervals, kind \in Kinds, enabled \in BOOLEAN :
               Register(t, every, kind, enabled)
         \/ Unregister(t)
    \/ \E a \in Apps :
         \/ \E able \in BOOLEAN : CommitPackage(a, able)
         \/ \E enabled \in BOOLEAN : SetEnabled(a, enabled)
         \/ RemoveApp(a) \/ FinishRemoval(a) \/ RemovalFails(a)
    \/ Minute \/ DropOrphans \/ RefuseRun \/ Notify \/ StartFetch \/ EndFetch
    \/ Restart

\* The interval timer fires, and a request to a host has a time limit.
Fairness == WF_vars(Minute) /\ WF_vars(Perform)

FairSpec == Init /\ [][Next]_vars /\ Fairness

-----------------------------------------------------------------------------
(* Properties *)

\* Rows are well formed, and a batch is no longer than its limit.
TypeOK ==
    /\ app \in [Apps -> App]
    /\ leaving \subseteq Apps
    /\ row \in [Tasks -> Row \cup {None}]
    /\ batch \in Seq(Entry) /\ Len(batch) <= Limit
    /\ fetching \in BOOLEAN /\ (fetching => batch # <<>>)
    /\ overtaken \subseteq Tasks

\* No task is performed twice at once or twice in a batch, however long a
\* batch takes (the scheduler's "running").
NoDoubleRun ==
    \A i, j \in DOMAIN batch : i # j => batch[i].task # batch[j].task

\* A task waits at most its own interval, also right after the app changed
\* it.  The exception is what the code does: a run that was in flight during
\* the change arms it by the interval it had before (completeRun).
ArmedWithinInterval ==
    \A t \in Tasks : Has(t) =>
        row[t].due <= row[t].every \/ t \in overtaken

\* Batches and rows are in step: no task runs twice, and none is armed too late.
\* (And every variable keeps its type.)
BatchesInStep == TypeOK /\ NoDoubleRun /\ ArmedWithinInterval

\* The batch is done with an entry that still has its row.
Attempt(t) ==
    batch # <<>> /\ Next1.task = t /\ Next1.live /\ batch' = Tail(batch)

\* A task that stays registered and on is performed again and again, however
\* often its app registers it anew, and however many other tasks there are
\* (upsertTask leaves an unchanged interval alone; the longest due goes
\* first), unless the backend restarts again and again.
ServedAgain ==
    \A t \in Tasks, every \in Intervals :
        <>[](Has(t) /\ row[t].enabled /\ row[t].every = every)
            => []<><<Attempt(t) \/ Restart>>_vars

\* What a removed app left on is cleaned up, also when the removal failed
\* halfway (the scheduler's deleteTasksForApp), with the same exception.
OrphansGo ==
    \A t \in Tasks :
        []<>(Has(t) /\ row[t].enabled => app[AppOf[t]].installed)
            \/ []<><<Restart>>_vars

=============================================================================
