------------------------------- MODULE Alerts -------------------------------
(***************************************************************************)
(* The disk-health monitor (system/health-monitor) and the mail it sends   *)
(* when a disk becomes unhealthy, gets worse, or has been so for a week.   *)
(* (A notice goes to the notification centre at every scan.)               *)
(*                                                                         *)
(* A scan reads the disks, and then compares them with the stored state    *)
(* and stores the new one in one go; then it awaits the mail, and takes    *)
(* the new state back if that fails.  Scans are hours apart and do not     *)
(* overlap.                                                                *)
(***************************************************************************)
EXTENDS Naturals

CONSTANTS
    Disks,
    MaxUpsets   \* bound: mails that fail and restarts

VARIABLES
    health,    \* of each disk: 0 ok, 1 warning, 2 failed
    mailing,   \* mail is set up, and wanted for disks
    state,     \* disk_alert_state: what was reported of a disk and whether long ago
    scan,      \* the scan under way
    told,      \* history: the worst a mail said since the disk was last seen healthy
    unsure,    \* history: disks whose state was put back, or left, without a mail
    upsets

alertsVars == <<health, mailing, state, scan, told, unsure, upsets>>

Ranks == 0 .. 2
Unreported == [rank |-> 0, old |-> FALSE]
Reports == [Disks -> [rank : Ranks, old : BOOLEAN]]
NoScan == [at |-> "none"]
Sick == {d \in Disks : health[d] > 0}

TypeOK ==
    /\ health \in [Disks -> Ranks] /\ mailing \in BOOLEAN
    /\ state \in Reports /\ told \in [Disks -> Ranks]
    /\ scan \in {NoScan} \cup
          [at : {"mailing"}, previous : Reports, about : SUBSET Disks, worst : [Disks -> Ranks]]
    /\ unsure \subseteq Disks /\ upsets \in 0 .. MaxUpsets

-----------------------------------------------------------------------------
\* A disk gets worse or better.
Change(d, rank) ==
    /\ rank # health[d]
    /\ health' = [health EXCEPT ![d] = rank]
    /\ UNCHANGED <<mailing, state, scan, told, unsure, upsets>>

\* A week passes.
Age ==
    /\ scan = NoScan
    /\ state' = [d \in Disks |-> [state[d] EXCEPT !.old = state[d].rank > 0]]
    /\ state' # state
    /\ UNCHANGED <<health, mailing, scan, told, unsure, upsets>>

Escalated(d) == health[d] > state[d].rank
Due == {d \in Sick : Escalated(d) \/ state[d].old}

\* What the scan stores: disks that recovered are dropped.
ReportedKept == [d \in Disks |->       \* mutant: they are not
    IF d \in Due THEN [rank |-> health[d], old |-> FALSE] ELSE state[d]]
Reported == [d \in Disks |->
    IF d \in Due THEN [rank |-> health[d], old |-> FALSE]
    ELSE IF d \in Sick THEN state[d] ELSE Unreported]

\* Without mail nothing is stored, so that nothing counts as reported.
ScanSilently ==
    /\ scan = NoScan /\ ~mailing
    /\ told' = [d \in Disks |-> IF d \in Sick THEN told[d] ELSE 0]
    /\ unsure' = unsure \cup {d \in Disks \ Sick : state[d].rank > 0}
    /\ UNCHANGED <<health, mailing, state, scan, upsets>>

Scan ==
    /\ scan = NoScan /\ mailing
    /\ state' = Reported
    /\ told' = [d \in Disks |-> IF d \in Sick THEN told[d] ELSE 0]
    /\ scan' = IF Due = {} THEN NoScan
               ELSE [at |-> "mailing", previous |-> state, about |-> Due, worst |-> health]
    /\ unsure' = unsure \cap Sick
    /\ UNCHANGED <<health, mailing, upsets>>

MailSent ==
    /\ scan.at = "mailing"
    /\ told' = [d \in Disks |-> IF d \in scan.about THEN scan.worst[d] ELSE told[d]]
    /\ unsure' = unsure \ scan.about
    /\ scan' = NoScan
    /\ UNCHANGED <<health, mailing, state, upsets>>

\* The mail failed: back to what was stored, so that the next scan tries again.
PutBackNothing == state       \* mutant: the bookkeeping stays
PutBack == scan.previous

MailFailed ==
    /\ scan.at = "mailing" /\ upsets < MaxUpsets
    /\ upsets' = upsets + 1
    /\ state' = PutBack
    /\ unsure' = unsure \cup {d \in Disks : scan.worst[d] = 0 /\ scan.previous[d].rank > 0}
    /\ scan' = NoScan
    /\ UNCHANGED <<health, mailing, told>>

\* The backend stops with a mail on its way.
Restart ==
    /\ upsets < MaxUpsets /\ scan # NoScan
    /\ upsets' = upsets + 1
    /\ unsure' = unsure \cup scan.about
    /\ scan' = NoScan
    /\ UNCHANGED <<health, mailing, state, told>>

SetMailing ==
    /\ mailing' = ~mailing
    /\ UNCHANGED <<health, state, scan, told, unsure, upsets>>

-----------------------------------------------------------------------------
Init ==
    /\ health = [d \in Disks |-> 0] /\ mailing \in BOOLEAN
    /\ state = [d \in Disks |-> Unreported] /\ scan = NoScan
    /\ told = [d \in Disks |-> 0] /\ unsure = {} /\ upsets = 0

Next ==
    \/ Age \/ ScanSilently \/ Scan \/ MailSent \/ MailFailed \/ Restart \/ SetMailing
    \/ \E d \in Disks, rank \in Ranks : Change(d, rank)

-----------------------------------------------------------------------------
\* What counts as reported was mailed since the disk was last seen healthy, so
\* that every relapse and every turn for the worse is mailed again; except for a
\* mail the backend did not live to send, and for a disk that recovered in a scan
\* whose mail failed, or while mail was off, which the state still lists.
ReportedWasTold ==
    scan = NoScan => \A d \in Disks \ unsure : state[d].rank <= told[d]

=============================================================================
