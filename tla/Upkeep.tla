------------------------------- MODULE Upkeep -------------------------------
(***************************************************************************)
(* The machine's upkeep: its scheduled maintenance and its own updates.    *)
(* They share no state; an initial state picks the one that runs, and the  *)
(* other stands still.                                                     *)
(***************************************************************************)
EXTENDS TaskRunner

CONSTANTS Admins, Versions, Working, Suits, First, Absent, MaxRuns, MaxCuts

VARIABLES part, tree, service, backend, stage, status, request, helper, runs, cuts,
          alone, cut, before, mishap

Update == INSTANCE SelfUpdate WITH running <- backend

ASSUME UpdateAssumption == Update!VersionsAssumption

updateVars == <<tree, service, backend, stage, status, request, helper, runs, cuts,
                alone, cut, before, mishap>>

UpkeepInit == part \in {"tasks", "update"} /\ Init /\ Update!Init

RunTasks  == part = "tasks" /\ Next /\ UNCHANGED <<part, updateVars>>
RunUpdate == part = "update" /\ Update!Next /\ UNCHANGED <<part, vars>>

UpkeepNext == RunTasks \/ RunUpdate

\* In the part that stands still no fair action is enabled, so its fairness
\* asks for nothing.
UpkeepSpec ==
    /\ UpkeepInit /\ [][UpkeepNext]_<<part, vars, updateVars>>
    /\ Fairness /\ Update!Fairness

\* Every instant of an update leaves a version to come back to, and helpers that
\* ran one at a time, without a mishap, leave a backend that answers.
WorkingVersionRemains == Update!WorkingVersionRemains

\* An update never installs an older version, as long as what is installed is what runs.
NoDowngrade == Update!NoDowngrade

\* The status file does not say "running" for ever, unless the power went or the script died.
UpdateEnds == Update!UpdateEnds
=============================================================================
