----------------------------- MODULE MCAppTasks -----------------------------
(* A small instance of AppTasks for TLC.                                     *)
EXTENDS AppTasks

CONSTANTS a1, t1, t2

\* Both tasks are one app's.
MCAppOf == [t \in {t1, t2} |-> a1]
=============================================================================
