----------------------------- MODULE MCSignIn -----------------------------
(* Instances of SignIn small enough for TLC. *)
EXTENDS SignIn, FiniteSets, TLC

\* Requests are interchangeable.
Interchangeable == Permutations(Requests)

\* Bound: no step is taken once there are sessions of two kinds.
Bounded == Cardinality(sessions) <= 1
===========================================================================
