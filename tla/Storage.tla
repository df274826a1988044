------------------------------- MODULE Storage -------------------------------
(***************************************************************************)
(* From disks to the paths below a share: the volumes, the caps of the     *)
(* folders on them, the files and the recycle bin, and the rules on        *)
(* folders.  The code keeps nothing in common between them, so a step of   *)
(* the whole is a step of one, which leaves the others as they are.        *)
(*                                                                         *)
(* Requests of the file manager come one at a time: two at once on one     *)
(* place overwrite each other in any case (Files).                         *)
(***************************************************************************)
EXTENDS Integers, FiniteSets, Sequences

CONSTANTS
    Persons, Teams, Folders, MaxEntries,
    Writer, Near, Far, MaxNames, MaxContents, MaxTrashed, MaxCrashes,
    CapNames, Caps, Savers, First, MaxRows, MaxFailures,
    Drives, Array, Space, Labels, Covers, Helpers, NoDevice, MaxJobs, MaxBoots

VARIABLES
    people, teams, share, roster, rules, adding,
    tree, bin, binRows, work, written, trashed, destroyed, replaced, crashes,
    capped, active, tag, limit, saves, sure, created, failed,
    fs, label, members, listed, claimed, mounted, folders, fstab, scratch,
    job, spoiled, lost, begun, boots

Access == INSTANCE Access WITH Users <- Persons, Groups <- Teams, members <- roster
Files == INSTANCE Files WITH Requests <- {Writer}, rows <- binRows
Quotas == INSTANCE Quotas WITH
    Names <- CapNames, Handlers <- Savers, shares <- capped, rows <- created, failures <- failed
Volumes == INSTANCE Volumes WITH Disks <- Drives, None <- NoDevice, jobs <- begun

accessVars == <<people, teams, share, roster, rules, adding>>
filesVars == <<tree, bin, binRows, work, written, trashed, destroyed, replaced, crashes>>
quotaVars == <<capped, active, tag, limit, saves, sure, created, failed>>
volumesVars == <<fs, label, members, listed, claimed, mounted, folders, fstab, scratch,
                 job, spoiled, lost, begun, boots>>
storageVars == <<accessVars, filesVars, quotaVars, volumesVars>>

\* A folder has a name, written as a number, and lies in a folder of the share, or
\* in the share itself. A cap is a number of bytes; 0 lifts the cap.
ASSUME StorageAssumption ==
    /\ \A p \in Folders :
          /\ p \in Seq(Nat) /\ p # <<>>
          /\ \A i \in 1 .. Len(p) : SubSeq(p, 1, i) \in Folders
    /\ MaxNames \in Nat /\ MaxContents \in Nat /\ MaxTrashed \in Nat /\ MaxCrashes \in Nat
    /\ IsFiniteSet(CapNames) /\ Caps \subseteq Nat /\ 0 \in Caps
    /\ First \in Nat /\ MaxRows \in Nat /\ MaxFailures \in Nat

\* No device has the name of there being none. Every mountpoint is a prefix of itself.
ASSUME VolumesAssumption ==
    /\ MaxJobs \in Nat /\ MaxBoots \in Nat
    /\ NoDevice \notin Labels \cup Drives \cup {Array, Space}
    /\ \A lines \in SUBSET Volumes!Lines : lines # NoDevice
    /\ \A l \in Labels : l \in Covers[l]

-----------------------------------------------------------------------------
StorageInit == Access!Init /\ Files!Init /\ Quotas!Init /\ Volumes!Init

RunAccess == Access!Next /\ UNCHANGED <<filesVars, quotaVars, volumesVars>>
RunFiles == Files!Next /\ UNCHANGED <<accessVars, quotaVars, volumesVars>>
RunQuotas == Quotas!Next /\ UNCHANGED <<accessVars, filesVars, volumesVars>>
RunVolumes == Volumes!Next /\ UNCHANGED <<accessVars, filesVars, quotaVars>>

StorageNext == RunAccess \/ RunFiles \/ RunQuotas \/ RunVolumes
StorageSpec == StorageInit /\ [][StorageNext]_storageVars

-----------------------------------------------------------------------------
\* The walk from the share down to a path decides what the nearest rule says.
NearestRuleDecides == Access!TypeOK /\ Access!NearestRuleDecides

\* A rule that denies widens nobody's access anywhere.
DenyingNeverWidens == Access!DenyingNeverWidens

\* No content is lost between the folders and the recycle bin, wherever it stops,
\* but what a write replaces.
NothingLost == Files!TypeOK /\ Files!NothingLost

\* A cap that was set is what the filesystem enforces on that share alone, in KiB.
CapIsEnforced == Quotas!TypeOK /\ Quotas!CapIsEnforced

\* A volume that is mounted has its line for the next boot, and no filesystem is
\* wiped by a request that is not to erase it.
VolumesAreKept == Volumes!VolumesAreKept
=============================================================================
