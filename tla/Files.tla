-------------------------------- MODULE Files --------------------------------
(***************************************************************************)
(* What becomes of a user's files as File Station writes, moves, copies,   *)
(* deletes and restores them (files/routes, files/trash, db/trash).  The   *)
(* recycle bin is a directory of its own, often on another volume, and a   *)
(* row for each thing in it; the backend may stop between any two steps.   *)
(*                                                                         *)
(* A place is a folder and a name, the names of one folder being numbered  *)
(* as uniquify tries them; each version of a file's content has a number,  *)
(* and what a write or a copy that was cut short leaves has none.          *)
(* A request goes from one await to the next; nothing keeps two apart.     *)
(***************************************************************************)
EXTENDS Integers

CONSTANTS
    Requests,
    Near, Far,    \* folders on the bin's volume, and on another one
    MaxNames, MaxContents, MaxTrashed, MaxCrashes   \* bounds

VARIABLES
    tree,       \* the content at each place, 0 for none
    bin,        \* the content of each file in the bin's directory
    rows,       \* trash_items: id to the place it came from
    work,       \* what each request is at
    written,    \* contents so far
    trashed,    \* ids handed out so far
    destroyed,  \* contents someone asked to be rid of
    replaced,   \* contents a write began to replace, whether or not it ended
    crashes

filesVars == <<tree, bin, rows, work, written, trashed, destroyed, replaced, crashes>>

Places == (Near \cup Far) \X (1 .. MaxNames)
Ids == 1 .. MaxTrashed
Idle == [at |-> "idle"]
NoPlace == <<"none", 0>>
Part == -1     \* of a file
Contents == Part .. MaxContents

TypeOK ==
    /\ tree \in [Places -> Contents] /\ bin \in [Ids -> Contents]
    /\ rows \in [Ids -> Places \cup {NoPlace}]
    /\ written \in 0 .. MaxContents /\ trashed \in 0 .. MaxTrashed
    /\ destroyed \subseteq 1 .. written /\ replaced \subseteq 1 .. written
    /\ crashes \in 0 .. MaxCrashes

Do(r, what) == work' = [work EXCEPT ![r] = what]
Done(r) == Do(r, Idle)
Put(p, c) == tree' = [tree EXCEPT ![p] = c]
Fill(id, c) == bin' = [bin EXCEPT ![id] = c]

\* lstat, some time before what it decides.
Exists(p) == tree[p] # 0
Free(folder) == {p \in Places : p[1] = folder /\ ~Exists(p)}
FirstFree(folder) == CHOOSE p \in Free(folder) : \A q \in Free(folder) : p[2] <= q[2]

Destroy(cs) == destroyed' = destroyed \cup (cs \ {0, Part})

-----------------------------------------------------------------------------
(* Writing, moving and copying *)

\* The editor and an upload: the file is cut to nothing, and then written.
BeginWrite(r, p) ==
    /\ work[r] = Idle /\ written < MaxContents
    /\ Put(p, Part)
    /\ replaced' = replaced \cup ({tree[p]} \ {0, Part})
    /\ Do(r, [at |-> "write", to |-> p])
    /\ UNCHANGED <<bin, rows, written, trashed, destroyed, crashes>>

EndWrite(r) ==
    /\ work[r].at = "write" /\ written < MaxContents
    /\ written' = written + 1
    /\ Put(work[r].to, written + 1)
    /\ Done(r)
    /\ UNCHANGED <<bin, rows, trashed, destroyed, replaced, crashes>>

\* 413: what has come of the upload is removed, and nothing is left of the old file.
RefuseUpload(r) ==
    /\ work[r].at = "write"
    /\ Put(work[r].to, 0)
    /\ Done(r)
    /\ UNCHANGED <<bin, rows, written, trashed, destroyed, replaced, crashes>>

\* A move or a rename: the name was free when it was looked at.
PlanMove(r, p, dest) ==
    /\ work[r] = Idle /\ Exists(p) /\ ~Exists(dest)
    /\ Do(r, [at |-> "move", from |-> p, to |-> dest])
    /\ UNCHANGED <<tree, bin, rows, written, trashed, destroyed, replaced, crashes>>

SameVolume(p, q) == (p[1] \in Near) = (q[1] \in Near)

\* rename replaces; to another volume it fails, as when the file has gone.
Move(r) ==
    LET w == work[r]
    IN  /\ w.at = "move"
        /\ tree' = IF Exists(w.from) /\ SameVolume(w.from, w.to)
                   THEN [tree EXCEPT ![w.to] = tree[w.from], ![w.from] = 0] ELSE tree
        /\ Done(r)
        /\ UNCHANGED <<bin, rows, written, trashed, destroyed, replaced, crashes>>

PlanCopy(r, p, folder) ==
    /\ work[r] = Idle /\ Exists(p) /\ Free(folder) # {}
    /\ Do(r, [at |-> "copy", from |-> p, to |-> FirstFree(folder)])
    /\ UNCHANGED <<tree, bin, rows, written, trashed, destroyed, replaced, crashes>>

Copy(r) ==
    LET w == work[r]
    IN  /\ w.at = "copy"
        /\ IF Exists(w.from) THEN Put(w.to, tree[w.from]) ELSE UNCHANGED tree
        /\ Done(r)
        /\ UNCHANGED <<bin, rows, written, trashed, destroyed, replaced, crashes>>

DeleteForGood(r, p) ==
    /\ work[r] = Idle /\ Exists(p)
    /\ Put(p, 0) /\ Destroy({tree[p]})
    /\ UNCHANGED <<bin, rows, work, written, trashed, replaced, crashes>>

-----------------------------------------------------------------------------
(* Into the bin *)

BeginTrash(r, p) ==
    /\ work[r] = Idle /\ Exists(p) /\ trashed < MaxTrashed
    /\ trashed' = trashed + 1
    /\ Do(r, [at |-> "trash", place |-> p, id |-> trashed + 1])
    /\ UNCHANGED <<tree, bin, rows, written, destroyed, replaced, crashes>>

\* moveCrossFs: by rename, or by a copy and then the removal of the original.
CopyIn(r) == Fill(work[r].id, tree[work[r].place]) /\ UNCHANGED tree

MoveIn(r) ==
    LET w == work[r]
    IN  /\ w.at = "trash"
        /\ IF ~Exists(w.place) THEN Done(r) /\ UNCHANGED <<tree, bin>>
           ELSE IF w.place[1] \in Near
           THEN Fill(w.id, tree[w.place]) /\ Put(w.place, 0) /\ Do(r, [w EXCEPT !.at = "record"])
           ELSE CopyIn(r) /\ Do(r, [w EXCEPT !.at = "unlink"])
        /\ UNCHANGED <<rows, written, trashed, destroyed, replaced, crashes>>

Unlink(r) ==
    LET w == work[r]
    IN  /\ w.at = "unlink"
        /\ Put(w.place, 0)
        /\ Do(r, [w EXCEPT !.at = "record"])
        /\ UNCHANGED <<bin, rows, written, trashed, destroyed, replaced, crashes>>

AddTrashItem(r) ==
    LET w == work[r]
    IN  /\ w.at = "record"
        /\ rows' = [rows EXCEPT ![w.id] = w.place]
        /\ Done(r)
        /\ UNCHANGED <<tree, bin, written, trashed, destroyed, replaced, crashes>>

-----------------------------------------------------------------------------
(* Out of the bin *)

Listed(id) == rows[id] # NoPlace
Forget(id) == rows' = [rows EXCEPT ![id] = NoPlace]

\* The file may be missing: its row goes. Or else a free name is chosen for it.
RestoreAnyway(id) == rows[id]      \* mutant: the place it came from, taken or not
Destination(id) == IF Exists(rows[id]) THEN FirstFree(rows[id][1]) ELSE rows[id]

BeginRestore(r, id) ==
    /\ work[r] = Idle /\ Listed(id)
    /\ IF bin[id] = 0 THEN Forget(id) /\ UNCHANGED work
       ELSE /\ Exists(rows[id]) => Free(rows[id][1]) # {}     \* bound: names
            /\ Do(r, [at |-> "restore", id |-> id, to |-> Destination(id)])
            /\ UNCHANGED rows
    /\ UNCHANGED <<tree, bin, written, trashed, destroyed, replaced, crashes>>

MoveOut(r) ==
    LET w == work[r]
    IN  /\ w.at = "restore"
        /\ IF bin[w.id] = 0 THEN Done(r) /\ UNCHANGED <<tree, bin>>
           ELSE /\ Put(w.to, bin[w.id])
                /\ IF w.to[1] \in Near
                   THEN Fill(w.id, 0) /\ Do(r, [at |-> "unrecord", id |-> w.id])
                   ELSE UNCHANGED bin /\ Do(r, [at |-> "clean", id |-> w.id])
        /\ UNCHANGED <<rows, written, trashed, destroyed, replaced, crashes>>

CleanOut(r) ==
    LET w == work[r]
    IN  /\ w.at = "clean"
        /\ Fill(w.id, 0) /\ Do(r, [at |-> "unrecord", id |-> w.id])
        /\ UNCHANGED <<tree, rows, written, trashed, destroyed, replaced, crashes>>

RemoveTrashItem(r) ==
    LET w == work[r]
    IN  /\ w.at = "unrecord"
        /\ Forget(w.id) /\ Done(r)
        /\ UNCHANGED <<tree, bin, written, trashed, destroyed, replaced, crashes>>

Purge(r, id) ==
    /\ work[r] = Idle /\ Listed(id)
    /\ Fill(id, 0) /\ Destroy({bin[id]})
    /\ Do(r, [at |-> "unrecord", id |-> id])
    /\ UNCHANGED <<tree, rows, written, trashed, replaced, crashes>>

\* What is listed at the start is removed one by one; then every row goes.
BeginEmpty(r) ==
    /\ work[r] = Idle
    /\ Do(r, [at |-> "empty", left |-> {id \in Ids : Listed(id)}])
    /\ UNCHANGED <<tree, bin, rows, written, trashed, destroyed, replaced, crashes>>

EmptyOne(r) ==
    LET w == work[r]
    IN  /\ w.at = "empty"
        /\ \E id \in w.left :
              /\ Fill(id, 0) /\ Destroy({bin[id]})
              /\ Do(r, [w EXCEPT !.left = @ \ {id}])
        /\ UNCHANGED <<tree, rows, written, trashed, replaced, crashes>>

ClearTrash(r) ==
    /\ work[r].at = "empty" /\ work[r].left = {}
    /\ rows' = [id \in Ids |-> NoPlace]
    /\ Done(r)
    /\ UNCHANGED <<tree, bin, written, trashed, destroyed, replaced, crashes>>

\* The disk is full, the connection is lost, or the backend stops, in the middle of
\* a write or a copy. What is copied stays where it was.
CutShort(r) ==
    LET w == work[r]
    IN  /\ \/ w.at = "write" /\ UNCHANGED <<tree, bin>>
           \/ w.at = "copy" /\ Exists(w.from) /\ Put(w.to, Part) /\ UNCHANGED bin
           \/ w.at = "restore" /\ w.to[1] \in Far /\ Put(w.to, Part) /\ UNCHANGED bin
           \/ w.at = "trash" /\ w.place[1] \in Far /\ Fill(w.id, Part) /\ UNCHANGED tree
        /\ Done(r)
        /\ UNCHANGED <<rows, written, trashed, destroyed, replaced, crashes>>

\* The backend stops: what was going on is left as it is.
Crash ==
    /\ crashes < MaxCrashes /\ crashes' = crashes + 1
    /\ work' = [r \in Requests |-> Idle]
    /\ UNCHANGED <<tree, bin, rows, written, trashed, destroyed, replaced>>

-----------------------------------------------------------------------------
Init ==
    /\ tree = [p \in Places |-> 0] /\ bin = [id \in Ids |-> 0]
    /\ rows = [id \in Ids |-> NoPlace]
    /\ work = [r \in Requests |-> Idle]
    /\ written = 0 /\ trashed = 0 /\ destroyed = {} /\ replaced = {}
    /\ crashes = 0

Next ==
    \/ Crash
    \/ \E r \in Requests :
          \/ EndWrite(r) \/ RefuseUpload(r) \/ CutShort(r)
          \/ Move(r) \/ Copy(r)
          \/ MoveIn(r) \/ Unlink(r) \/ AddTrashItem(r)
          \/ MoveOut(r) \/ CleanOut(r) \/ RemoveTrashItem(r)
          \/ BeginEmpty(r) \/ EmptyOne(r) \/ ClearTrash(r)
          \/ \E id \in Ids : BeginRestore(r, id) \/ Purge(r, id)
          \/ \E p \in Places :
                \/ BeginWrite(r, p) \/ DeleteForGood(r, p) \/ BeginTrash(r, p)
                \/ \E dest \in Places : PlanMove(r, p, dest)
                \/ \E folder \in Near \cup Far : PlanCopy(r, p, folder)

-----------------------------------------------------------------------------
\* Whatever is moved, binned, restored or copied, and wherever the backend stops
\* in between, no content goes but what someone asked to be rid of, or what an
\* editor or an upload began to replace. That is gone even if the write is then cut
\* short or refused: the code keeps the old content nowhere (files/routes.ts:498, 522).
NothingLost ==
    \A c \in 1 .. written :
        \/ c \in destroyed \cup replaced
        \/ (\E p \in Places : tree[p] = c) \/ (\E id \in Ids : bin[id] = c)

=============================================================================
