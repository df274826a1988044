------------------------------- MODULE Quotas -------------------------------
(***************************************************************************)
(* The size cap of a shared folder: a row says how much, and the           *)
(* filesystem, which counts and caps by the project a directory tree is    *)
(* tagged with, has to be told (db/shares, admin/routes and the storage    *)
(* helper).  Deleting a share leaves its folder, tag and all.              *)
(*                                                                         *)
(* Saving a cap stores it, asks whether the volume has quotas, gives the   *)
(* share a project if it has none, tags the folder and sets the limit;     *)
(* other saves, and the share's removal, may come in between.              *)
(***************************************************************************)
EXTENDS Integers, FiniteSets

CONSTANTS
    Names,       \* of shared folders on one volume
    Caps,        \* sizes in bytes; 0 lifts the cap
    Handlers,    \* PATCH requests under way at once
    First,       \* ids above it are ours
    MaxRows, MaxFailures  \* bounds: shares ever made; helpers that fail and restarts

VARIABLES
    shares,    \* the rows: which one has the name, its project (0: none) and cap
    active,    \* the volume is mounted with project quotas
    tag,       \* the project each folder's tree is tagged with
    limit,     \* the filesystem's cap of each project, in KiB; 0 for none
    saves,     \* the PATCH requests
    sure,      \* history: names whose last save ended well, and alone
    rows, failures

quotaVars == <<shares, active, tag, limit, saves, sure, rows, failures>>

Projects == First + 1 .. First + MaxRows + 1
NoShare == [row |-> 0, project |-> 0, cap |-> 0]
Idle == [at |-> "idle"]

TypeOK ==
    /\ shares \in [Names -> [row : 0 .. MaxRows, project : Projects \cup {0}, cap : Caps]]
    /\ active \in BOOLEAN
    /\ tag \in [Names -> Projects \cup {0}] /\ limit \in [Projects -> Nat]
    /\ saves \in [Handlers -> {Idle} \cup
          [at : {"asking", "tagging", "limiting"}, name : Names, row : 1 .. MaxRows,
           cap : Caps, project : Projects \cup {0}, alone : BOOLEAN]]
    /\ sure \subseteq Names /\ rows \in 0 .. MaxRows /\ failures \in 0 .. MaxFailures

Goto(h, what) == saves' = [saves EXCEPT ![h] = what]
Saving(h, n) == saves[h] # Idle /\ saves[h].name = n
\* A save of a share that is no longer there.
Stray(h) == saves[h] # Idle /\ shares[saves[h].name].row # saves[h].row
Fault == failures < MaxFailures /\ failures' = failures + 1

-----------------------------------------------------------------------------
\* History: other saves of the share, and strays, make what a save does uncertain.
Crossed(hs) == [h \in Handlers |->
    IF h \in hs /\ saves[h] # Idle THEN [saves[h] EXCEPT !.alone = FALSE] ELSE saves[h]]

\* The folder is made, or was left by a share that had the name.
CreateShare(n) ==
    /\ shares[n] = NoShare /\ rows < MaxRows
    /\ rows' = rows + 1
    /\ shares' = [shares EXCEPT ![n] = [row |-> rows + 1, project |-> 0, cap |-> 0]]
    /\ UNCHANGED <<active, tag, limit, saves, sure, failures>>

DeleteShare(n) ==
    /\ shares[n] # NoShare
    /\ shares' = [shares EXCEPT ![n] = NoShare]
    /\ sure' = sure \ {n}
    /\ saves' = IF \E h \in Handlers : Saving(h, n) THEN Crossed(Handlers) ELSE saves
    /\ UNCHANGED <<active, tag, limit, rows, failures>>

EnableQuotas ==
    /\ ~active /\ active' = TRUE
    /\ UNCHANGED <<shares, tag, limit, saves, sure, rows, failures>>

\* updateShare, and applyShareQuota until it awaits quotaStatus.
Patch(h, n, cap) ==
    /\ saves[h] = Idle /\ shares[n] # NoShare
    /\ shares' = [shares EXCEPT ![n].cap = cap]
    /\ LET others == {g \in Handlers : Saving(g, n)}
       IN  saves' = [Crossed(others) EXCEPT ![h] =
              [at |-> "asking", name |-> n, row |-> shares[n].row, cap |-> cap,
               project |-> 0, alone |-> others = {} /\ \A g \in Handlers : ~Stray(g)]]
    /\ sure' = sure \ {n}
    /\ UNCHANGED <<active, tag, limit, rows, failures>>

\* The reply carries a warning.
Warn(h) ==
    /\ saves[h].at = "asking" /\ ~active
    /\ Goto(h, Idle)
    /\ UNCHANGED <<shares, active, tag, limit, sure, rows, failures>>

\* One above the largest that a row has.
Given == {First} \cup {shares[n].project : n \in Names}
Greatest(S) == CHOOSE p \in S : \A q \in S : q <= p
LastProject ==             \* mutant: the largest itself
    IF Greatest(Given) = First THEN First + 1 ELSE Greatest(Given)
NextProject == Greatest(Given) + 1

\* The project of the save's row; a row that has gone is given one, and keeps none.
EnsureQuotaProjectId(h) ==
    LET w == saves[h]
        has == ~Stray(h) /\ shares[w.name].project # 0
        project == IF has THEN shares[w.name].project ELSE NextProject
    IN  /\ w.at = "asking" /\ active
        /\ shares' = IF Stray(h) THEN shares
                     ELSE [shares EXCEPT ![w.name].project = project]
        /\ Goto(h, [at |-> "tagging", name |-> w.name, row |-> w.row, cap |-> w.cap,
                    project |-> project, alone |-> w.alone])
        /\ UNCHANGED <<active, tag, limit, sure, rows, failures>>

\* quota-set: chattr -R -p.
TagTree(h) ==
    LET w == saves[h]
    IN  /\ w.at = "tagging"
        /\ tag' = [tag EXCEPT ![w.name] = w.project]
        /\ Goto(h, [w EXCEPT !.at = "limiting"])
        /\ sure' = IF Stray(h) THEN {} ELSE sure
        /\ UNCHANGED <<shares, active, limit, rows, failures>>

\* quota-set: what is less than a KiB is cut off.
Kib(bytes) == bytes \div 1024

\* quota-set: setquota -P, and the reply without a warning.
SetLimit(h) ==
    LET w == saves[h]
    IN  /\ w.at = "limiting"
        /\ limit' = [limit EXCEPT ![w.project] = Kib(w.cap)]
        /\ sure' = IF Stray(h) THEN {}
                   ELSE IF w.alone THEN sure \cup {w.name} ELSE sure \ {w.name}
        /\ Goto(h, Idle)
        /\ UNCHANGED <<shares, active, tag, rows, failures>>

\* The helper fails in the middle, or the backend stops.
SetFails(h) ==
    /\ Fault /\ saves[h].at \in {"tagging", "limiting"}
    /\ Goto(h, Idle)
    /\ UNCHANGED <<shares, active, tag, limit, sure, rows>>

-----------------------------------------------------------------------------
Init ==
    /\ shares = [n \in Names |-> NoShare] /\ active = FALSE
    /\ tag = [n \in Names |-> 0] /\ limit = [p \in Projects |-> 0]
    /\ saves = [h \in Handlers |-> Idle] /\ sure = {} /\ rows = 0 /\ failures = 0

Next ==
    \/ EnableQuotas
    \/ \E n \in Names : CreateShare(n) \/ DeleteShare(n)
    \/ \E h \in Handlers :
          \/ Warn(h) \/ EnsureQuotaProjectId(h) \/ TagTree(h) \/ SetLimit(h) \/ SetFails(h)
          \/ \E n \in Names, cap \in Caps : Patch(h, n, cap)

Spec == Init /\ [][Next]_quotaVars

-----------------------------------------------------------------------------
\* A cap whose save was answered without a warning is what the filesystem enforces
\* on that folder, to the KiB, and on no account of another share's: until the next
\* save, unless saves of one share overlapped, or one went on after its share was
\* gone. A cap of less than a KiB, which the route accepts, is no limit at all: it
\* is the 0 that opennas-storage:234 makes of it.
CapIsEnforced ==
    \A n \in sure :
       /\ tag[n] = shares[n].project /\ tag[n] # 0
       /\ limit[tag[n]] * 1024 <= shares[n].cap /\ shares[n].cap < (limit[tag[n]] + 1) * 1024

\* db/shares.ts:178 calls a project "stable and never reused", so that no share
\* inherits the accounting of another: no two folders are ever tagged alike.
NeverReused == \A m, n \in Names : m # n /\ tag[m] # 0 => tag[m] # tag[n]

=============================================================================
