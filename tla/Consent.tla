------------------------------ MODULE Consent ------------------------------
(***************************************************************************)
(* What the review of apps promises, without packages, code or awaits: an  *)
(* administrator agrees to permissions of an app, and an app only ever     *)
(* takes permissions that were agreed to.  Of the hosts it reaches it      *)
(* promises less: none without the permission to fetch.  A version that    *)
(* asks for no new permission brings its own hosts, agreed to or not.      *)
(* Apps implements it.                                                     *)
(***************************************************************************)
CONSTANTS AppIds, Permissions, Fetch, Hosts

VARIABLES
    held,    \* what each app may do, and which hosts it reaches
    agreed   \* the permissions that were ever agreed to for it

Agree(a, ps) ==
    /\ agreed' = [agreed EXCEPT ![a] = @ \cup ps]
    /\ UNCHANGED held

\* A new version, or a removal, which leaves nothing.
Take(a, ps, hs) ==
    /\ ps \subseteq agreed[a]
    /\ hs # {} => Fetch \in ps
    /\ held' = [held EXCEPT ![a] = [may |-> ps, reach |-> hs]]
    /\ UNCHANGED agreed

Init ==
    /\ held = [a \in AppIds |-> [may |-> {}, reach |-> {}]]
    /\ agreed = [a \in AppIds |-> {}]

Next ==
    \E a \in AppIds, ps \in SUBSET Permissions :
        \/ Agree(a, ps)
        \/ \E hs \in SUBSET Hosts : Take(a, ps, hs)

vars == <<held, agreed>>

Spec == Init /\ [][Next]_vars
=============================================================================
