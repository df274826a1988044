----------------------------- MODULE TaskRunner -----------------------------
(***************************************************************************)
(* Scheduled maintenance: the task rows (db/system-tasks.ts), the routes   *)
(* that create, change, delete and run them (admin/routes.ts), and the     *)
(* once-a-minute tick (system/task-runner.ts).                             *)
(*                                                                         *)
(* Every handler and the tick run to their end without an await; only the  *)
(* work itself takes time.  A restart ends the work and the in-memory set  *)
(* of running tasks, and leaves the rows.                                  *)
(***************************************************************************)
EXTENDS Calendar

CONSTANTS
    Tasks,      \* row ids, never reused
    Schedules,  \* the schedules an administrator chooses from
    Unborn,     \* a row not created yet
    Deleted,    \* a row that was deleted
    MaxTime,    \* bound: the clock stops here
    MaxEdits,   \* bound: rows created, changed or deleted
    MaxAsked,   \* bound: unfinished "run now" runs of one task
    MaxStops    \* bound: restarts

ASSUME TasksAssumption ==
    /\ Schedules \subseteq Schedule
    /\ MaxTime \in Nat /\ MaxEdits \in Nat
    /\ MaxAsked \in Nat /\ MaxStops \in Nat

VARIABLES
    now,
    row,      \* the system_tasks table
    running,  \* the tick's in-memory set
    ticked,   \* how many runs of each task the tick has in flight
    asked,    \* how many runs of each task requests have in flight
    served,   \* history: the slot for which the tick last ran each task
    edits, stops

vars == <<now, row, running, ticked, asked, served, edits, stops>>
work == <<running, ticked, asked, served>>

Row == [enabled : BOOLEAN, schedule : Schedules, next : Nat,
        last : {"never", "running", "ok", "error"}]

Lives(t) == row[t] \notin {Unborn, Deleted}
Due(t)   == Lives(t) /\ row[t].enabled /\ row[t].next <= now

-----------------------------------------------------------------------------
(* The routes *)

Edit == edits < MaxEdits /\ edits' = edits + 1

CreateSystemTask(t, enabled, schedule) ==
    /\ Edit /\ row[t] = Unborn
    /\ row' = [row EXCEPT ![t] = [enabled |-> enabled, schedule |-> schedule,
                  next |-> NextRun(schedule, now), last |-> "never"]]
    /\ UNCHANGED <<now, work, stops>>

\* Re-armed only when the schedule moved or the task was switched on.
UpdateSystemTask(t, enabled, schedule) ==
    /\ Edit /\ Lives(t)
    /\ LET reArm == schedule # row[t].schedule \/ (enabled /\ ~row[t].enabled)
       IN  row' = [row EXCEPT ![t].enabled = enabled, ![t].schedule = schedule,
                      ![t].next = IF reArm THEN NextRun(schedule, now) ELSE @]
    /\ UNCHANGED <<now, work, stops>>

\* A run in flight goes on; its result finds no row.
DeleteSystemTask(t) ==
    /\ Edit /\ Lives(t)
    /\ row' = [row EXCEPT ![t] = Deleted]
    /\ UNCHANGED <<now, work, stops>>

\* Mutant of Started: the row stays due until the work ends.
StartedStillDue(r) == [r EXCEPT !.last = "running"]

\* markTaskStarted: the next run is armed before the work begins.
Started(r) == [r EXCEPT !.last = "running", !.next = NextRun(r.schedule, now)]

\* POST /tasks/:id/run
RunNow(t) ==
    /\ Lives(t) /\ row[t].last # "running"
    /\ asked[t] < MaxAsked
    /\ row' = [row EXCEPT ![t] = Started(@)]
    /\ asked' = [asked EXCEPT ![t] = @ + 1]
    /\ UNCHANGED <<now, running, ticked, served, edits, stops>>

-----------------------------------------------------------------------------
(* The runner *)

\* Mutant of ToStart: a task that failed is not tried again.
ToStartUnlessFailed == {t \in Tasks : Due(t) /\ row[t].last # "error"} \ running

ToStart == {t \in Tasks : Due(t)} \ running

Tick ==
    /\ ToStart # {}
    /\ row' = [t \in Tasks |-> IF t \in ToStart THEN Started(row[t])
                                                ELSE row[t]]
    /\ running' = running \cup ToStart
    /\ ticked' = [t \in Tasks |-> IF t \in ToStart THEN ticked[t] + 1
                                                   ELSE ticked[t]]
    /\ served' = [t \in Tasks |-> IF t \in ToStart THEN row[t].next
                                                   ELSE served[t]]
    /\ UNCHANGED <<now, asked, edits, stops>>

\* markTaskFinished
Finished(t, status) ==
    row' = IF Lives(t) THEN [row EXCEPT ![t].last = status] ELSE row

\* The work ended, failed or was given up on.
FinishTicked(t, status) ==
    /\ ticked[t] > 0
    /\ Finished(t, status)
    /\ ticked' = [ticked EXCEPT ![t] = @ - 1]
    /\ running' = running \ {t}
    /\ UNCHANGED <<now, asked, served, edits, stops>>

FinishAsked(t, status) ==
    /\ asked[t] > 0
    /\ Finished(t, status)
    /\ asked' = [asked EXCEPT ![t] = @ - 1]
    /\ UNCHANGED <<now, running, ticked, served, edits, stops>>

-----------------------------------------------------------------------------
\* Mutant of ClearInterrupted: the rows stay as the old process left them.
ClearNothing == row

\* clearInterruptedTasks, when the runner starts
ClearInterrupted ==
    [t \in Tasks |-> IF Lives(t) /\ row[t].last = "running"
                     THEN [row[t] EXCEPT !.last = "error"] ELSE row[t]]

Restart ==
    /\ stops < MaxStops
    /\ stops' = stops + 1
    /\ row' = ClearInterrupted
    /\ running' = {}
    /\ ticked' = [t \in Tasks |-> 0] /\ asked' = [t \in Tasks |-> 0]
    /\ UNCHANGED <<now, served, edits>>

Clock ==
    /\ now < MaxTime
    /\ now' = now + 1
    /\ UNCHANGED <<row, work, edits, stops>>

Init ==
    /\ now = 0
    /\ row = [t \in Tasks |-> Unborn]
    /\ running = {}
    /\ ticked = [t \in Tasks |-> 0] /\ asked = [t \in Tasks |-> 0]
    /\ served = [t \in Tasks |-> 0]
    /\ edits = 0 /\ stops = 0

Finish(t) == \E status \in {"ok", "error"} :
                 FinishTicked(t, status) \/ FinishAsked(t, status)

Next ==
    \/ \E t \in Tasks :
          \/ \E enabled \in BOOLEAN, schedule \in Schedules :
                \/ CreateSystemTask(t, enabled, schedule)
                \/ UpdateSystemTask(t, enabled, schedule)
          \/ DeleteSystemTask(t) \/ RunNow(t)
          \/ Finish(t)
    \/ Tick \/ Restart \/ Clock

Spec == Init /\ [][Next]_vars

\* The interval fires, and every kind of work ends: each command it runs has
\* a time limit.
Fairness == WF_vars(Tick) /\ \A t \in Tasks : WF_vars(Finish(t))

-----------------------------------------------------------------------------
(* Properties *)

TypeOK ==
    /\ now \in 0 .. MaxTime
    /\ \A t \in Tasks : row[t] \in {Unborn, Deleted} \/ row[t] \in Row
    /\ DOMAIN row = Tasks
    /\ running \subseteq Tasks
    /\ ticked \in [Tasks -> Nat]
    /\ asked \in [Tasks -> 0 .. MaxAsked]
    /\ served \in [Tasks -> 0 .. MaxTime]
    /\ edits \in 0 .. MaxEdits /\ stops \in 0 .. MaxStops

\* A row that is not due is armed for the nearest instant its schedule names,
\* whatever sequence of edits, runs, restarts and hours led there.
ArmedForNearest ==
    \A t \in Tasks : (Lives(t) /\ row[t].next > now) =>
        /\ IsSlot(row[t].schedule, row[t].next)
        /\ \A x \in now + 1 .. row[t].next - 1 : ~IsSlot(row[t].schedule, x)

\* "a spinner that never resolves": a row says "running" only while some run of
\* it is in flight in this process. (And every variable keeps its type.)
RunningIsReal ==
    /\ TypeOK
    /\ \A t \in Tasks : (Lives(t) /\ row[t].last = "running") =>
          ticked[t] + asked[t] > 0

\* One slot, one scheduled run: not twice after a restart, an edit or a quick
\* finish, not while the tick's last run of the task is in flight, and slots
\* missed meanwhile are made up for once.
SlotServedOnce ==
    [][\A t \in Tasks : ticked'[t] > ticked[t] =>
          ticked[t] = 0 /\ served'[t] > served[t] /\ row'[t].next > now]_vars

\* A task that is due does not stay due, although runs take their time and
\* the machine may have been off at the appointed hour.
DueIsServed == \A t \in Tasks : Due(t) ~> ~Due(t)
=============================================================================
