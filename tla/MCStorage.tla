----------------------------- MODULE MCStorage -----------------------------
(***************************************************************************)
(* Storage, and what the sharing daemons serve of it.  The code keeps      *)
(* nothing in common between the parts, so each is checked for itself: an  *)
(* initial state picks the one that runs, and the others stand still.      *)
(***************************************************************************)
EXTENDS Sharing, Storage, TLC

CONSTANTS
    data, data2,
    Running   \* the parts that are run

VARIABLE part

\* Every mountpoint begins with its own name, and /…/data2 with /…/data.
Prefixed == (data :> {data, data2}) @@ (data2 :> {data2})

\* A folder, and another in it.
TwoFolders == {<<1>>, <<1, 2>>}

\* Sharing starts from any grants, with the services on; from one choice of grants
\* while another part runs.
MCInit ==
    /\ part \in Running
    /\ Init /\ StorageInit
    /\ enabled = Units /\ \A g \in Groups : groups[g] = Users
    /\ part # "sharing" => \A s \in Shares : shares[s].people \cup shares[s].teams = {}

MCNext ==
    /\ \/ part = "sharing" /\ Next /\ UNCHANGED storageVars
       \/ part = "access" /\ RunAccess /\ UNCHANGED vars
       \/ part = "files" /\ RunFiles /\ UNCHANGED vars
       \/ part = "quotas" /\ RunQuotas /\ UNCHANGED vars
       \/ /\ part = "volumes" /\ RunVolumes /\ UNCHANGED vars
          /\ begun' > 2 /\ begun' > begun => Volumes!Busy = {}   \* bound: the third comes alone
    /\ UNCHANGED part

MCSpec == MCInit /\ [][MCNext]_<<part, vars, storageVars>>

\* The handlers are alike in each part, and so are the groups of Access.
Alike == Permutations(Requests) \cup Permutations(Teams)
=============================================================================
