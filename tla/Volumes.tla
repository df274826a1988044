------------------------------ MODULE Volumes ------------------------------
(***************************************************************************)
(* Data volumes (the storage routes of admin/routes.ts, system/storage.ts  *)
(* and the helper opennas-storage): disks, an array of some of them, and   *)
(* the free space of the system disk become filesystems with a label, a    *)
(* line of /etc/fstab and a mount; volumes are mounted, unmounted, erased, *)
(* and switched to quotas.                                                 *)
(*                                                                         *)
(* Requests run at once, and each runs a helper of its own, step by step.  *)
(* /etc/fstab is read into a file, always the same, and copied back.  What *)
(* is in a volume, sizes, levels of redundancy, and the lines of the       *)
(* system itself are left out.                                             *)
(***************************************************************************)
EXTENDS Naturals, FiniteSets, Sequences

CONSTANTS
    Disks, Array, Space,  \* the disks, the one array there can be, and the free space
    Labels,
    Covers,       \* for a label, those whose mountpoints have its mountpoint as a prefix
    Helpers,      \* requests that can be under way at once
    None,         \* no device, or no file
    MaxJobs,      \* bound: requests
    MaxBoots      \* bound: reboots

VARIABLES
    fs,       \* the filesystem of each device, by its UUID, 0 for none
    label,    \* the label of each filesystem that was made
    members,  \* the disks of the array
    listed,   \* whether mdadm.conf lists it
    claimed,  \* whether the free space was made a partition
    mounted,  \* the devices mounted on each mountpoint, the last one on top
    folders,  \* the mountpoints that exist
    fstab,    \* its lines
    scratch,  \* /etc/fstab.new
    job,      \* what each helper is doing
    spoiled,  \* history: what can have spoiled the lines
    lost,     \* history: filesystems wiped by a request that was not to erase them
    jobs, boots

volumesVars == <<fs, label, members, listed, claimed, mounted, folders, fstab, scratch,
                 job, spoiled, lost, jobs, boots>>
diskVars == <<fs, label, members, listed, claimed>>

Units == Disks \cup {Array, Space}
Uuids == 1 .. MaxJobs
Lines == [label : Labels, uuid : Uuids, quota : BOOLEAN]
Idle == [op |-> "none", label |-> None, disks |-> {}, unit |-> None, at |-> "idle"]
Job == [op : {"none", "init", "space", "raid", "quota", "erase", "destroy"},
        label : Labels \cup {None}, disks : SUBSET Disks, unit : Units \cup {None},
        at : {"idle", "wipe", "mkfs", "read", "copy", "drop", "append", "mount",
              "umount", "clear", "sweep"}]

TypeOK ==
    /\ fs \in [Units -> {0} \cup Uuids] /\ label \in [Uuids -> Labels \cup {None}]
    /\ members \subseteq Disks /\ listed \in BOOLEAN /\ claimed \in BOOLEAN
    /\ mounted \in [Labels -> Seq(Units)] /\ folders \subseteq Labels
    /\ fstab \subseteq Lines /\ (scratch # None => scratch \subseteq Lines)
    /\ job \in [Helpers -> Job] /\ lost \subseteq Uuids
    /\ spoiled \subseteq {"crossed", "crashed", "busy", "hidden", "swept", "unlisted"}
    /\ jobs \in 0 .. MaxJobs /\ boots \in 0 .. MaxBoots

IsMounted(u) == \E l \in Labels : \E i \in DOMAIN mounted[l] : mounted[l][i] = u
TopOf(l) == IF mounted[l] = <<>> THEN None ELSE mounted[l][Len(mounted[l])]
Pop(l) == SubSeq(mounted[l], 1, Len(mounted[l]) - 1)
Busy == {h \in Helpers : job[h] # Idle}

\* classify: a disk with nothing on it that anyone would lose.
UnmountedOnly(d) == d \in Disks \ members /\ ~IsMounted(d)  \* mutant: not in use is enough
Unconfigured(d) == d \in Disks \ members /\ ~IsMounted(d) /\ fs[d] = 0

-----------------------------------------------------------------------------
Count == jobs < MaxJobs /\ jobs' = jobs + 1
Crossed == IF Busy = {} THEN {} ELSE {"crossed"}

\* A request that passed what its route checks: a helper starts.
Start(h, op, l, ds, u, at) ==
    /\ job[h] = Idle /\ Count
    /\ job' = [job EXCEPT ![h] = [op |-> op, label |-> l, disks |-> ds, unit |-> u, at |-> at]]
    /\ spoiled' = spoiled \cup Crossed
                    \cup (IF op \in {"init", "raid"} /\ mounted[l] # <<>> THEN {"hidden"} ELSE {})
    /\ UNCHANGED <<diskVars, mounted, folders, fstab, scratch, lost, boots>>

\* POST /storage/init, /storage/expand, /storage/raid.
InitDisk(h, d, l) == Unconfigured(d) /\ Start(h, "init", l, {d}, d, "wipe")
ExpandDisk(h, l) ==
    /\ ~claimed /\ l \notin folders
    /\ Start(h, "space", l, {}, Space, "wipe")
CreateRaid(h, ds, l) ==
    /\ Cardinality(ds) >= 2 /\ \A d \in ds : Unconfigured(d)
    /\ Start(h, "raid", l, ds, Array, "wipe")

\* POST /storage/volume/:label/erase, DELETE /storage/raid/:md, and the quotas' enabling.
EraseVolume(h, l) == Start(h, "erase", l, {}, TopOf(l), "umount")
DestroyRaid(h) ==
    /\ members # {}
    /\ LET on == {l \in Labels : TopOf(l) = Array}
       IN  Start(h, "destroy", IF on = {} THEN None ELSE CHOOSE l \in on : TRUE,
                 members, Array, "umount")
EnableQuotas(h, l) ==
    /\ mounted[l] # <<>>
    /\ Start(h, "quota", l, {}, TopOf(l), "read")

Goto(h, at) == job' = [job EXCEPT ![h].at = at]
Ended(h) == job' = [job EXCEPT ![h] = Idle]

-----------------------------------------------------------------------------
\* The check of mountpoints, wipefs, and the array or the partition that is made.
Wipe(h) ==
    LET j == job[h]
        refused == (\E d \in j.disks : IsMounted(d) \/ d \in members)
                      \/ (j.op = "raid" /\ members # {}) \/ (j.op = "space" /\ claimed)
    IN  /\ j.at = "wipe"
        /\ \/ refused /\ Ended(h) /\ UNCHANGED <<diskVars, lost>>
           \/ /\ ~refused /\ Goto(h, "mkfs")
              /\ fs' = [u \in Units |-> IF u \in j.disks THEN 0 ELSE fs[u]]
              /\ lost' = lost \cup {fs[d] : d \in {e \in j.disks : fs[e] # 0}}
              /\ members' = IF j.op = "raid" THEN j.disks ELSE members
              /\ listed' = (listed \/ j.op = "raid")
              /\ claimed' = (claimed \/ j.op = "space")
              /\ UNCHANGED label
        /\ UNCHANGED <<mounted, folders, fstab, scratch, spoiled, jobs, boots>>

\* mkfs, mkdir, blkid: the new filesystem has a UUID that none had before.
Mkfs(h) ==
    LET j == job[h]
    IN  /\ j.at = "mkfs"
        /\ \/ IsMounted(j.unit) /\ Ended(h) /\ UNCHANGED <<fs, label, folders>>
           \/ /\ ~IsMounted(j.unit) /\ Goto(h, "read")
              /\ \E new \in Uuids :
                    /\ label[new] = None /\ \A k \in 1 .. new - 1 : label[k] # None
                    /\ fs' = [fs EXCEPT ![j.unit] = new]
                    /\ label' = [label EXCEPT ![new] = j.label]
              /\ folders' = folders \cup {j.label}
        /\ UNCHANGED <<members, listed, claimed, mounted, fstab, scratch, spoiled, lost,
                       jobs, boots>>

\* fstab_set, and the same of quota-enable: awk into the one scratch file, ...
KeepingOldLines(j) == fstab      \* mutant: another UUID is another line
OtherLines(j) ==
    IF j.op = "quota" THEN {IF k.label = j.label THEN [k EXCEPT !.quota = TRUE] ELSE k : k \in fstab}
    ELSE {k \in fstab : k.label # j.label}
ReadFstab(h) ==
    /\ job[h].at = "read"
    /\ scratch' = OtherLines(job[h])
    /\ Goto(h, "copy")
    /\ UNCHANGED <<diskVars, mounted, folders, fstab, spoiled, lost, jobs, boots>>

\* ... cat over /etc/fstab, which is empty by then should the scratch file be gone, ...
CopyFstab(h) ==
    /\ job[h].at = "copy"
    /\ \/ scratch # None /\ fstab' = scratch /\ Goto(h, "drop")
       \/ scratch = None /\ fstab' = {} /\ (IF job[h].op = "quota" THEN Goto(h, "umount") ELSE Ended(h))
    /\ UNCHANGED <<diskVars, mounted, folders, scratch, spoiled, lost, jobs, boots>>

\* ... rm, and the new line.
DropScratch(h) ==
    /\ job[h].at = "drop"
    /\ scratch' = None
    /\ Goto(h, IF job[h].op = "quota" THEN "umount" ELSE "append")
    /\ UNCHANGED <<diskVars, mounted, folders, fstab, spoiled, lost, jobs, boots>>
AppendLine(h) ==
    /\ job[h].at = "append"
    /\ fstab' = IF fs[job[h].unit] = 0 THEN fstab
                ELSE fstab \cup {[label |-> job[h].label, uuid |-> fs[job[h].unit], quota |-> FALSE]}
    /\ Goto(h, "mount")
    /\ UNCHANGED <<diskVars, mounted, folders, scratch, spoiled, lost, jobs, boots>>

\* mount: the device that a line of the mountpoint names, if there is one.
Named(l) == {u \in Units : \E k \in fstab : k.label = l /\ k.uuid = fs[u]}
Mount(h) ==
    /\ job[h].at = "mount" /\ Ended(h)
    /\ \/ \E u \in Named(job[h].label) :
             mounted' = IF IsMounted(u) THEN mounted
                        ELSE [mounted EXCEPT ![job[h].label] = Append(@, u)]
       \/ Named(job[h].label) = {} /\ UNCHANGED mounted
    /\ UNCHANGED <<diskVars, folders, fstab, scratch, spoiled, lost, jobs, boots>>

\* umount: refused while files of it are open, which only the quotas heed.
Umount(h) ==
    LET j == job[h]
        on == j.label # None /\ mounted[j.label] # <<>>
        next == IF j.op = "quota" THEN "mount" ELSE "clear"
    IN  /\ j.at = "umount"
        /\ \/ ~on /\ Goto(h, next) /\ UNCHANGED <<mounted, spoiled>>
           \/ /\ on /\ mounted' = [mounted EXCEPT ![j.label] = Pop(j.label)]
              /\ Goto(h, next) /\ UNCHANGED spoiled
           \/ /\ on /\ UNCHANGED mounted
              /\ IF j.op = "quota" THEN Ended(h) /\ UNCHANGED spoiled
                 ELSE Goto(h, next) /\ spoiled' = spoiled \cup {"busy"}
        /\ UNCHANGED <<diskVars, folders, fstab, scratch, lost, jobs, boots>>

\* wipefs of what was mounted there, or of a filesystem of that label; or the end of
\* the array and of its members' superblocks.  None of it works on a mounted device.
Clear(h) ==
    LET j == job[h]
        labelled == {u \in Units : fs[u] # 0 /\ label[fs[u]] = j.label}
        target == IF j.unit # None THEN {j.unit} ELSE labelled
    IN  /\ j.at = "clear" /\ Goto(h, "sweep")
        /\ \/ /\ j.op = "erase" /\ \E u \in target : ~IsMounted(u) /\ fs' = [fs EXCEPT ![u] = 0]
              /\ UNCHANGED members
           \/ j.op = "erase" /\ (\E u \in target : IsMounted(u)) /\ UNCHANGED <<fs, members>>
           \/ j.op = "erase" /\ target = {} /\ UNCHANGED <<fs, members>>
           \/ j.op = "destroy" /\ ~IsMounted(Array) /\ fs' = [fs EXCEPT ![Array] = 0] /\ members' = {}
           \/ j.op = "destroy" /\ IsMounted(Array) /\ UNCHANGED <<fs, members>>
        /\ listed' = IF j.op = "destroy" THEN FALSE ELSE listed
        /\ UNCHANGED <<label, claimed, mounted, folders, fstab, scratch, spoiled, lost, jobs, boots>>

\* sed of the lines that begin with the mountpoint, and rmdir.
Sweep(h) ==
    LET j == job[h]
        gone == {k \in fstab : j.label # None /\ k.label \in Covers[j.label]}
    IN  /\ j.at = "sweep" /\ Ended(h)
        /\ fstab' = fstab \ gone
        /\ spoiled' = IF \E k \in gone : k.label # j.label THEN spoiled \cup {"swept"} ELSE spoiled
        /\ folders' = IF j.label # None /\ mounted[j.label] = <<>> THEN folders \ {j.label}
                      ELSE folders
        /\ UNCHANGED <<diskVars, mounted, scratch, lost, jobs, boots>>

-----------------------------------------------------------------------------
\* mount of a volume, by its line or by its label; unmount of one.
MountVolume(l) ==
    LET labelled == {u \in Units : fs[u] # 0 /\ label[fs[u]] = l}
    IN  /\ Count
        /\ \E u \in IF Named(l) # {} THEN Named(l) ELSE labelled :
              /\ ~IsMounted(u) /\ mounted' = [mounted EXCEPT ![l] = Append(@, u)]
              /\ spoiled' = spoiled \cup Crossed \cup (IF mounted[l] # <<>> THEN {"hidden"} ELSE {})
                                \cup (IF Named(l) = {} THEN {"unlisted"} ELSE {})
        /\ folders' = folders \cup {l}
        /\ UNCHANGED <<diskVars, fstab, scratch, job, lost, boots>>

UnmountVolume(l) ==
    /\ Count
    /\ mounted[l] # <<>> /\ mounted' = [mounted EXCEPT ![l] = Pop(l)]
    /\ spoiled' = spoiled \cup Crossed
    /\ UNCHANGED <<diskVars, folders, fstab, scratch, job, lost, boots>>

\* raid-add and raid-remove: a blank disk joins, a member leaves wiped.
RaidAdd(d) ==
    /\ Count
    /\ members # {} /\ Unconfigured(d)
    /\ members' = members \cup {d} /\ spoiled' = spoiled \cup Crossed
    /\ UNCHANGED <<fs, label, listed, claimed, mounted, folders, fstab, scratch, job, lost, boots>>
RaidRemove(d) ==
    /\ Count
    /\ d \in members /\ Cardinality(members) > 1
    /\ members' = members \ {d} /\ spoiled' = spoiled \cup Crossed
    /\ UNCHANGED <<fs, label, listed, claimed, mounted, folders, fstab, scratch, job, lost, boots>>

\* The machine goes down, in the middle of whatever ran, and mounts what fstab says.
Reboot ==
    /\ boots < MaxBoots /\ boots' = boots + 1
    /\ job' = [h \in Helpers |-> Idle]
    /\ spoiled' = IF Busy = {} THEN spoiled ELSE spoiled \cup {"crashed"}
    /\ fstab' \in IF \E h \in Helpers : job[h].at = "copy" THEN {fstab, {}} ELSE {fstab}
    /\ \E first \in [Labels -> Units \cup {None}] :
          /\ \A l \in Labels :
                LET here == {u \in Units : fs[u] # 0 /\ (u = Array => listed)
                                 /\ \E k \in fstab' : k.label = l /\ k.uuid = fs[u]}
                IN  IF here = {} THEN first[l] = None ELSE first[l] \in here
          /\ mounted' = [l \in Labels |-> IF first[l] = None THEN <<>> ELSE <<first[l]>>]
    /\ UNCHANGED <<diskVars, folders, scratch, lost, jobs>>

-----------------------------------------------------------------------------
Init ==
    /\ fs = [u \in Units |-> 0] /\ label = [n \in Uuids |-> None]
    /\ members = {} /\ listed = FALSE /\ claimed = FALSE
    /\ mounted = [l \in Labels |-> <<>>] /\ folders = {} /\ fstab = {} /\ scratch = None
    /\ job = [h \in Helpers |-> Idle]
    /\ spoiled = {} /\ lost = {} /\ jobs = 0 /\ boots = 0

Next ==
    \/ Reboot
    \/ \E l \in Labels : MountVolume(l) \/ UnmountVolume(l)
    \/ \E d \in Disks : RaidAdd(d) \/ RaidRemove(d)
    \/ \E h \in Helpers :
          \/ \E l \in Labels :
                \/ ExpandDisk(h, l) \/ EraseVolume(h, l) \/ EnableQuotas(h, l)
                \/ \E d \in Disks : InitDisk(h, d, l)
                \/ \E ds \in SUBSET Disks : CreateRaid(h, ds, l)
          \/ DestroyRaid(h) \/ Wipe(h) \/ Mkfs(h) \/ ReadFstab(h) \/ CopyFstab(h)
          \/ DropScratch(h) \/ AppendLine(h) \/ Mount(h) \/ Umount(h) \/ Clear(h) \/ Sweep(h)

Spec == Init /\ [][Next]_volumesVars

-----------------------------------------------------------------------------
LinesOf(l) == {k \in fstab : k.label = l}
InPlace(l) == mounted[l] # <<>> => {k.uuid : k \in LinesOf(l)} = {fs[TopOf(l)]}

\* A volume that is mounted has one line, and it names its filesystem: it is there
\* after the next boot.  Unless helpers crossed, one was cut short, the volume was
\* hidden under another, was busy, its line went with that of another label, or it
\* had none and was mounted by its label.
ComesBack == Busy = {} /\ spoiled = {} => \A l \in Labels : InPlace(l)

\* admin/routes.ts:1503: never wipe a disk with data on it.  What init and the
\* arrays wipe holds no filesystem, whether it is mounted or not, unless two of
\* these requests ran at once.
NothingWiped == "crossed" \notin spoiled => lost = {}

\* No volume goes but by its own erasing. (And every variable keeps its type.)
VolumesAreKept == TypeOK /\ ComesBack /\ NothingWiped

\* opennas-storage:22: no volume is left "unmountable, at the next boot". Erasing a
\* volume takes the lines of all those whose names begin with its name.
OthersComeBack == Busy = {} /\ spoiled \subseteq {"swept"} => \A l \in Labels : InPlace(l)

=============================================================================
