---------------------------- MODULE MCAccounts ----------------------------
(* Instances of Accounts small enough for TLC. *)
EXTENDS Accounts, FiniteSets, TLC

\* Requests are interchangeable.
Interchangeable == Permutations(Requests)

\* Bound: no step is taken once there are three sessions and codes, counting those
\* of an account and a kind once.
Bounded ==
    Cardinality({x \in Users \X Kinds : x[2] \in sessions[x[1]]}) + Cardinality(codes) <= 2
===========================================================================
