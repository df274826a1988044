----------------------------- MODULE AppsProofs -----------------------------
(***************************************************************************)
(* Of Apps, for every value of its constants: no app ever holds a          *)
(* permission that no administrator approved for it, the review implements *)
(* Consent, and changes that do not overlap leave code and manifest of one *)
(* package and nothing of an app that is gone.                             *)
(*                                                                         *)
(* The first alone is not inductive.  A package is reviewed, or approved,  *)
(* when its commit begins, and reaches the table after awaits in which the *)
(* row, the list of trusted publishers and what is staged may all change.  *)
(* What has to be carried across them is that whatever commit is in flight *)
(* asks for nothing unapproved (CommitsApproved); and that follows at its  *)
(* beginning only from the same being true of the row the package was      *)
(* compared with.                                                          *)
(*                                                                         *)
(* The last is not inductive either: CodeInv adds what a change that met   *)
(* no other has achieved by each of its awaits, RecordInv that what is     *)
(* staged keeps its type and its bound.                                    *)
(***************************************************************************)
EXTENDS Apps, WellFoundedInduction, SequenceTheorems, TLAPS

Committing == {"clear", "write"}

\* What a job holds that the invariant reads.
WellMade(j) ==
    /\ "at" \in DOMAIN j
    /\ j.at \in Committing => /\ {"app", "pkg"} \subseteq DOMAIN j
                              /\ j.app \in AppIds /\ j.pkg \in Packages

Shape ==
    /\ DOMAIN row = AppIds
    /\ DOMAIN approved = AppIds
    /\ DOMAIN job = Handlers
    /\ \A h \in Handlers : WellMade(job[h])

\* A package is of an app whose id is its manifest's.
AsksApproved(j, ok) ==
    j.at \in Committing /\ j.app \in AppIds => Asks[j.pkg] \subseteq ok[j.app]

CommitsApproved == \A h \in Handlers : AsksApproved(job[h], approved)

IInv == Shape /\ PermissionsApproved /\ CommitsApproved

-----------------------------------------------------------------------------
(* What the steps of a handler leave true of its job *)

\* A job that begins says what it says; every other one keeps what it asks
\* for.
LEMMA BeginKeeps ==
    ASSUME NEW h \in Handlers, NEW j, NEW ok,
           Shape, CommitsApproved, WellMade(j),
           \A g \in Handlers : AsksApproved(job[g], ok),
           AsksApproved(j, ok), Begin(h, j)
    PROVE  /\ DOMAIN job' = Handlers
           /\ \A g \in Handlers : WellMade(job'[g])
           /\ \A g \in Handlers : AsksApproved(job'[g], ok)
<1>1. job' = [g \in Handlers |->
                IF g = h THEN j
                ELSE IF g \in Changing(j.app)
                     THEN [job[g] EXCEPT !.crossed = TRUE]
                     ELSE job[g]]
  BY DEF Begin
<1>2. DOMAIN job' = Handlers
  BY <1>1
<1>3. ASSUME NEW g \in Handlers
      PROVE  WellMade(job'[g]) /\ AsksApproved(job'[g], ok)
  <2>1. WellMade(job[g]) /\ AsksApproved(job[g], ok)
    BY DEF Shape
  <2>2. CASE g = h
    BY <1>1, <2>2
  <2>3. CASE g # h /\ job'[g] = job[g]
    BY <2>1, <2>3
  <2>4. CASE g # h /\ job'[g] = [job[g] EXCEPT !.crossed = TRUE]
    <3>1. /\ DOMAIN job'[g] = DOMAIN job[g]
          /\ \A x \in DOMAIN job[g] : x # "crossed" => job'[g][x] = job[g][x]
      BY <2>4
    <3> QED  BY <3>1, <2>1 DEF WellMade, AsksApproved
  <2> QED  BY <1>1, <2>2, <2>3, <2>4
<1> QED  BY <1>2, <1>3

\* A job that moves on to its next await asks for what it asked before.
LEMMA MoveKeeps ==
    ASSUME NEW h \in Handlers, NEW at, Shape, CommitsApproved,
           job[h].at \in Committing \/ at \notin Committing,
           MoveOn(h, at)
    PROVE  /\ DOMAIN job' = Handlers
           /\ \A g \in Handlers : WellMade(job'[g])
           /\ \A g \in Handlers : AsksApproved(job'[g], approved)
<1>1. job' = [job EXCEPT ![h] = [job[h] EXCEPT !.at = at]]
  BY DEF MoveOn
<1>2. WellMade(job[h]) /\ AsksApproved(job[h], approved)
  BY DEF Shape, CommitsApproved
<1>3. WellMade(job'[h]) /\ AsksApproved(job'[h], approved)
  BY <1>1, <1>2 DEF WellMade, AsksApproved, Shape
<1> QED  BY <1>1, <1>3 DEF Shape, CommitsApproved

\* A handler that is done, or reads a package yet to be reviewed, asks for
\* nothing.
LEMMA RestKeeps ==
    ASSUME NEW h \in Handlers, NEW j, Shape, CommitsApproved,
           j = Idle \/ j = [at |-> "download"],
           job' = [job EXCEPT ![h] = j]
    PROVE  /\ DOMAIN job' = Handlers
           /\ \A g \in Handlers : WellMade(job'[g])
           /\ \A g \in Handlers : AsksApproved(job'[g], approved)
<1>1. WellMade(j) /\ AsksApproved(j, approved)
  BY DEF WellMade, AsksApproved, Committing, Idle
<1> QED  BY <1>1 DEF Shape, CommitsApproved

-----------------------------------------------------------------------------
(* The steps *)

LEMMA InitApproved == Init => IInv
BY DEF Init, IInv, Shape, WellMade, PermissionsApproved, CommitsApproved,
       AsksApproved, Committing, Idle

\* A package that asks for nothing its app does not hold asks for nothing that
\* was not approved.
LEMMA HeldIsApproved ==
    ASSUME IInv, NEW p \in Packages, NewPermissions(p) = {}
    PROVE  Asks[p] \subseteq approved[AppOf[p]]
<1>1. AppOf[p] \in AppIds
  BY AppsAssumption
<1>2. Granted(AppOf[p]) \subseteq approved[AppOf[p]]
  BY <1>1 DEF IInv, PermissionsApproved, Granted
<1> QED  BY <1>2 DEF NewPermissions

\* Neither the table nor what was approved changes.
LEMMA QuietStep ==
    ASSUME IInv, UNCHANGED <<row, approved>>,
           DOMAIN job' = Handlers,
           \A g \in Handlers : WellMade(job'[g]),
           \A g \in Handlers : AsksApproved(job'[g], approved)
    PROVE  IInv'
BY DEF IInv, Shape, PermissionsApproved, CommitsApproved, AsksApproved,
       WellMade

LEMMA InstallStep ==
    ASSUME IInv, NEW h \in Handlers, NEW p \in Packages,
           Install(h, p) \/ ApplyUpdate(h, p)
    PROVE  IInv'
<1>1. CASE NewPermissions(p) = {} /\ BeginCommit(h, p)
  <2> DEFINE j == [at |-> "clear", app |-> AppOf[p], pkg |-> p, written |-> 0,
                   crossed |-> Changing(AppOf[p]) # {}]
  <2>1. WellMade(j)
    BY AppsAssumption DEF WellMade
  <2>2. AsksApproved(j, approved)
    BY HeldIsApproved, <1>1 DEF AsksApproved
  <2>3. Begin(h, j)
    BY <1>1 DEF BeginCommit
  <2>4. UNCHANGED <<row, approved>>
    BY DEF Install, ApplyUpdate
  <2> HIDE DEF j
  <2>5. \A g \in Handlers : AsksApproved(job[g], approved)
    BY DEF IInv, CommitsApproved
  <2> QED  BY BeginKeeps, QuietStep, <2>1, <2>2, <2>3, <2>4, <2>5 DEF IInv
<1>2. CASE UNCHANGED job
  <2>1. UNCHANGED <<row, approved>>
    BY DEF Install, ApplyUpdate
  <2> QED  BY <1>2, <2>1, QuietStep DEF IInv, Shape, CommitsApproved
<1>3. CASE job' = [job EXCEPT ![h] = Idle]
  <2>1. UNCHANGED <<row, approved>>
    BY DEF Install, ApplyUpdate
  <2> QED  BY <1>3, <2>1, QuietStep, RestKeeps DEF IInv
<1> QED  BY <1>1, <1>2, <1>3 DEF Install, ApplyUpdate

\* What is approved is what is about to be written.
LEMMA ConfirmStep ==
    ASSUME IInv, NEW h \in Handlers, NEW p \in Packages,
           NEW i \in DOMAIN staged, Confirm(h, p, i)
    PROVE  IInv'
<1> DEFINE j == [at |-> "clear", app |-> AppOf[p], pkg |-> p, written |-> 0,
                 crossed |-> Changing(AppOf[p]) # {}]
           ok == [approved EXCEPT ![AppOf[p]] = @ \cup Asks[p]]
<1>1. approved' = ok /\ row' = row /\ Begin(h, j)
  BY DEF Confirm, BeginCommit
<1>2. DOMAIN ok = AppIds /\ \A a \in AppIds : approved[a] \subseteq ok[a]
  BY DEF IInv, Shape
<1>3. WellMade(j)
  BY AppsAssumption DEF WellMade
<1>4. AsksApproved(j, ok)
  BY DEF AsksApproved, IInv, Shape
<1>5. \A g \in Handlers : AsksApproved(job[g], ok)
  BY <1>2 DEF IInv, CommitsApproved, AsksApproved
<1> HIDE DEF j, ok
<1>6. /\ DOMAIN job' = Handlers
      /\ \A g \in Handlers : WellMade(job'[g])
      /\ \A g \in Handlers : AsksApproved(job'[g], ok)
  BY BeginKeeps, <1>1, <1>3, <1>4, <1>5 DEF IInv
<1>7. Shape'
  BY <1>1, <1>2, <1>6 DEF IInv, Shape, WellMade
<1>8. PermissionsApproved'
  BY <1>1, <1>2 DEF IInv, PermissionsApproved
<1>9. CommitsApproved'
  BY <1>1, <1>6 DEF CommitsApproved, AsksApproved
<1> QED  BY <1>7, <1>8, <1>9 DEF IInv

\* What the commit asks for has been approved all along.
LEMMA RecordStep ==
    ASSUME IInv, NEW h \in Handlers, Record(h)
    PROVE  IInv'
<1>1. job[h].at = "write" /\ job' = [job EXCEPT ![h] = Idle]
      /\ row' = [row EXCEPT ![job[h].app] = job[h].pkg]
      /\ approved' = approved
  BY DEF Record, Complete
<1>2. /\ DOMAIN job' = Handlers
      /\ \A g \in Handlers : WellMade(job'[g])
      /\ \A g \in Handlers : AsksApproved(job'[g], approved)
  BY <1>1, RestKeeps DEF IInv
<1>3. AsksApproved(job[h], approved)
  BY DEF IInv, CommitsApproved
<1>4. PermissionsApproved'
  BY <1>1, <1>3 DEF IInv, Shape, PermissionsApproved, AsksApproved, Committing
<1>5. Shape'
  BY <1>1, <1>2 DEF IInv, Shape, WellMade
<1>6. CommitsApproved'
  BY <1>1, <1>2 DEF CommitsApproved, AsksApproved
<1> QED  BY <1>4, <1>5, <1>6 DEF IInv

\* The row goes; what was approved stays on record.
LEMMA RemoveStep ==
    ASSUME IInv, NEW h \in Handlers, NEW a \in AppIds, RemoveApp(h, a)
    PROVE  IInv'
<1> DEFINE j == [at |-> "remove", app |-> a, crossed |-> Changing(a) # {}]
<1>1. Begin(h, j) /\ row' = [row EXCEPT ![a] = None] /\ approved' = approved
  BY DEF RemoveApp
<1>2. WellMade(j) /\ AsksApproved(j, approved)
  BY DEF WellMade, AsksApproved, Committing
<1> HIDE DEF j
<1>3. \A g \in Handlers : AsksApproved(job[g], approved)
  BY DEF IInv, CommitsApproved
<1>4. /\ DOMAIN job' = Handlers
      /\ \A g \in Handlers : WellMade(job'[g])
      /\ \A g \in Handlers : AsksApproved(job'[g], approved)
  BY BeginKeeps, <1>1, <1>2, <1>3 DEF IInv
<1>5. Shape'
  BY <1>1, <1>4 DEF IInv, Shape, WellMade
<1>6. PermissionsApproved'
  BY <1>1 DEF IInv, Shape, PermissionsApproved
<1>7. CommitsApproved'
  BY <1>1, <1>4 DEF CommitsApproved, AsksApproved
<1> QED  BY <1>5, <1>6, <1>7 DEF IInv

\* The other steps of a handler.
LEMMA HandlerStep ==
    ASSUME IInv, NEW h \in Handlers,
           \/ StartUpdate(h) \/ DownloadFails(h)
           \/ ClearCode(h) \/ WriteFile(h) \/ CommitFails(h)
           \/ RemoveCode(h) \/ RemovalFails(h) \/ FinishRemoval(h)
    PROVE  IInv'
<1>1. CASE StartUpdate(h)
  BY <1>1, RestKeeps, QuietStep DEF StartUpdate, IInv
<1>2. CASE DownloadFails(h)
  BY <1>2, RestKeeps, QuietStep DEF DownloadFails, IInv
<1>3. CASE ClearCode(h)
  <2>1. MoveOn(h, "write") /\ job[h].at \in Committing
        /\ UNCHANGED <<row, approved>>
    BY <1>3 DEF ClearCode, Committing
  <2> QED  BY <2>1, MoveKeeps, QuietStep DEF IInv
<1>4. CASE WriteFile(h)
  <2> DEFINE n == job[h].written + 1
  <2>1. job' = [job EXCEPT ![h] = [job[h] EXCEPT !.written = n]]
        /\ UNCHANGED <<row, approved>>
    BY <1>4 DEF WriteFile
  <2>2. WellMade(job[h]) /\ AsksApproved(job[h], approved)
    BY DEF IInv, Shape, CommitsApproved
  <2> HIDE DEF n
  <2>3. WellMade(job'[h]) /\ AsksApproved(job'[h], approved)
    BY <2>1, <2>2 DEF WellMade, AsksApproved, IInv, Shape
  <2>4. /\ DOMAIN job' = Handlers
        /\ \A g \in Handlers : WellMade(job'[g])
        /\ \A g \in Handlers : AsksApproved(job'[g], approved)
    BY <2>1, <2>3 DEF IInv, Shape, CommitsApproved
  <2> QED  BY <2>1, <2>4, QuietStep
<1>5. CASE CommitFails(h)
  BY <1>5, RestKeeps, QuietStep DEF CommitFails, Abandon, IInv
<1>6. CASE RemoveCode(h)
  <2>1. MoveOn(h, "forget") /\ "forget" \notin Committing
        /\ UNCHANGED <<row, approved>>
    BY <1>6 DEF RemoveCode, Committing
  <2> QED  BY <2>1, MoveKeeps, QuietStep DEF IInv
<1>7. CASE RemovalFails(h)
  BY <1>7, RestKeeps, QuietStep DEF RemovalFails, Abandon, IInv
<1>8. CASE FinishRemoval(h)
  BY <1>8, RestKeeps, QuietStep DEF FinishRemoval, Complete, IInv
<1> QED  BY <1>1, <1>2, <1>3, <1>4, <1>5, <1>6, <1>7, <1>8

LEMMA StepApproved == IInv /\ [Next]_vars => IInv'
<1> SUFFICES ASSUME IInv, [Next]_vars PROVE IInv'
  OBVIOUS
<1>1. ASSUME NEW h \in Handlers, NEW p \in Packages,
             Install(h, p) \/ ApplyUpdate(h, p)
      PROVE  IInv'
  BY <1>1, InstallStep
<1>2. ASSUME NEW h \in Handlers, NEW a \in AppIds, RemoveApp(h, a)
      PROVE  IInv'
  BY <1>2, RemoveStep
<1>3. ASSUME NEW h \in Handlers, NEW p \in Packages,
             NEW i \in DOMAIN staged, Confirm(h, p, i)
      PROVE  IInv'
  BY <1>3, ConfirmStep
<1>4. ASSUME NEW h \in Handlers,
             \/ StartUpdate(h) \/ DownloadFails(h)
             \/ ClearCode(h) \/ WriteFile(h) \/ CommitFails(h)
             \/ RemoveCode(h) \/ RemovalFails(h) \/ FinishRemoval(h)
      PROVE  IInv'
  BY <1>4, HandlerStep
<1>5. ASSUME NEW h \in Handlers, Record(h)
      PROVE  IInv'
  BY <1>5, RecordStep
<1>6. CASE UNCHANGED <<row, job, approved>>
  BY <1>6, QuietStep DEF IInv, Shape, CommitsApproved
<1>7. ASSUME \/ \E i \in DOMAIN staged : Discard(i)
             \/ \E a \in AppIds : Acquire(a) \/ \E on \in BOOLEAN : Trust(a, on)
             \/ UNCHANGED vars
      PROVE  IInv'
  BY <1>6, <1>7 DEF Discard, Acquire, Trust, vars
<1>8. CASE Restart
  <2>1. job' = [h \in Handlers |-> Idle] /\ UNCHANGED <<row, approved>>
    BY <1>8 DEF Restart
  <2>2. WellMade(Idle) /\ AsksApproved(Idle, approved)
    BY DEF WellMade, AsksApproved, Committing, Idle
  <2> QED  BY <2>1, <2>2, QuietStep
<1> QED  BY <1>1, <1>2, <1>3, <1>4, <1>5, <1>7, <1>8 DEF Next

\* No app ever holds a permission that no administrator approved for it:
\* whatever commitPackage is given was reviewed against the row, or approved,
\* before its first await.
THEOREM NothingWidenedSilently == Spec => []PermissionsApproved
<1>1. IInv => PermissionsApproved
  BY DEF IInv
<1> QED  BY InitApproved, StepApproved, <1>1, PTL DEF Spec
-----------------------------------------------------------------------------
(* The review, implemented *)

Held == [a \in AppIds |-> [may |-> Granted(a), reach |-> Reached(a)]]

LEMMA InitReviewed == Init => Review!Init
BY DEF Init, Review!Init, Granted, Reached

\* Only three steps of a handler are seen from the review.
LEMMA UnseenStep ==
    ASSUME UNCHANGED <<row, approved>>
    PROVE  UNCHANGED Review!vars
BY DEF Review!vars, Granted, Reached

LEMMA ConfirmReviewed ==
    ASSUME NEW h \in Handlers, NEW p \in Packages, NEW i \in DOMAIN staged,
           Confirm(h, p, i)
    PROVE  Review!Next
<1>1. AppOf[p] \in AppIds /\ Asks[p] \in SUBSET Permissions
  BY AppsAssumption
<1>2. /\ approved' = [approved EXCEPT ![AppOf[p]] = @ \cup Asks[p]]
      /\ row' = row
  BY DEF Confirm
<1>3. Review!Agree(AppOf[p], Asks[p])
  BY <1>2 DEF Review!Agree, Granted, Reached
<1> QED  BY <1>1, <1>3 DEF Review!Next

LEMMA RemoveReviewed ==
    ASSUME IInv, NEW h \in Handlers, NEW a \in AppIds, RemoveApp(h, a)
    PROVE  Review!Next
<1>1. row' = [row EXCEPT ![a] = None] /\ approved' = approved
  BY DEF RemoveApp
<1>2. Held' = [Held EXCEPT ![a] = [may |-> {}, reach |-> {}]]
  BY <1>1 DEF Held, Granted, Reached, IInv, Shape
<1>3. Review!Take(a, {}, {})
  BY <1>1, <1>2 DEF Review!Take, Held
<1> QED  BY <1>3 DEF Review!Next

\* What reaches the table was approved before.
LEMMA RecordReviewed ==
    ASSUME IInv, NEW h \in Handlers, Record(h)
    PROVE  Review!Next
<1> DEFINE a == job[h].app  p == job[h].pkg
<1>1. /\ job[h].at = "write" /\ row' = [row EXCEPT ![a] = p] /\ approved' = approved
      /\ a \in AppIds /\ p \in Packages
  BY DEF Record, IInv, Shape, WellMade, Committing
<1>2. Asks[p] \subseteq approved[a]
  BY <1>1 DEF IInv, CommitsApproved, AsksApproved, Committing
<1>3. /\ p # None /\ Asks[p] \in SUBSET Permissions
      /\ HostsOf[p] \in SUBSET Hosts /\ (HostsOf[p] # {} => Fetch \in Asks[p])
  BY <1>1, AppsAssumption
<1>4. Held' = [Held EXCEPT ![a] = [may |-> Asks[p], reach |-> HostsOf[p]]]
  BY <1>1, <1>3 DEF Held, Granted, Reached, IInv, Shape
<1>5. Review!Take(a, Asks[p], HostsOf[p])
  BY <1>3, <1>1, <1>2, <1>4 DEF Review!Take, Held
<1> QED  BY <1>1, <1>3, <1>5 DEF Review!Next

LEMMA StepReviewed == IInv /\ [Next]_vars => [Review!Next]_(Review!vars)
<1> SUFFICES ASSUME IInv, [Next]_vars
             PROVE  Review!Next \/ UNCHANGED Review!vars
  OBVIOUS
<1>1. ASSUME NEW h \in Handlers, NEW p \in Packages,
             NEW i \in DOMAIN staged, Confirm(h, p, i)
      PROVE  Review!Next
  BY <1>1, ConfirmReviewed
<1>2. ASSUME NEW h \in Handlers, NEW a \in AppIds, RemoveApp(h, a)
      PROVE  Review!Next
  BY <1>2, RemoveReviewed
<1>3. ASSUME NEW h \in Handlers, Record(h)
      PROVE  Review!Next
  BY <1>3, RecordReviewed
<1>4. ASSUME NEW h \in Handlers,
             \/ \E p \in Packages : Install(h, p) \/ ApplyUpdate(h, p)
             \/ StartUpdate(h) \/ DownloadFails(h)
             \/ ClearCode(h) \/ WriteFile(h) \/ CommitFails(h)
             \/ RemoveCode(h) \/ RemovalFails(h) \/ FinishRemoval(h)
      PROVE  UNCHANGED <<row, approved>>
  BY <1>4 DEF Install, ApplyUpdate, StartUpdate, DownloadFails, ClearCode,
              WriteFile, CommitFails, RemoveCode, RemovalFails, FinishRemoval
<1>5. ASSUME \/ \E i \in DOMAIN staged : Discard(i)
             \/ \E a \in AppIds : Acquire(a) \/ \E on \in BOOLEAN : Trust(a, on)
             \/ Restart \/ UNCHANGED vars
      PROVE  UNCHANGED <<row, approved>>
  BY <1>5 DEF Discard, Acquire, Trust, Restart, vars
<1> QED  BY <1>1, <1>2, <1>3, <1>4, <1>5, UnseenStep DEF Next

\* What the handlers, staging area and table do together is what the abstract
\* review does, however their awaits interleave: only permissions that an
\* administrator approved are ever taken, and hosts only with the permission to
\* fetch.  Which hosts is not reviewed again (reviewPackage).
THEOREM ReviewIsImplemented == Spec => ReviewImplemented
<1> QED  BY InitReviewed, InitApproved, StepApproved, StepReviewed, PTL
         DEF Spec, ReviewImplemented, Review!Spec


-----------------------------------------------------------------------------
(* The code, and the row *)

Busy(j) == j.at \notin {"idle", "download"}

\* A handler that has met no other since it began is alone with its app, and
\* what it has done so far is still there.
Undisturbed(h) ==
    /\ Changing(job[h].app) = {h}
    /\ job[h].at = "clear" => job[h].written = 0
    /\ job[h].at = "write" =>
          \A n \in 1 .. job[h].written : files[job[h].app][n] = job[h].pkg
    /\ job[h].at \in {"remove", "forget"} => row[job[h].app] = None
    /\ job[h].at = "forget" => files[job[h].app] = NoFiles

CodeTyped ==
    /\ row \in [AppIds -> Packages \cup {None}]
    /\ files \in [AppIds -> [1 .. Parts -> Packages \cup {None}]]
    /\ job \in [Handlers -> Job]

CodeInv ==
    /\ CodeTyped
    /\ \A h \in Handlers : Busy(job[h]) /\ ~job[h].crossed => Undisturbed(h)
    /\ CodeIsOfRow

LEMMA JobFields ==
    ASSUME NEW j \in Job
    PROVE  /\ j.at \in {"idle", "download", "clear", "write", "remove", "forget"}
           /\ Busy(j) => j.app \in AppIds /\ j.crossed \in BOOLEAN
           /\ j.at \in {"clear", "write"} =>
                 j.pkg \in Packages /\ j.written \in 0 .. Parts
BY DEF Job, Idle, Busy

LEMMA CrossedJob ==
    ASSUME NEW j \in Job, Busy(j), NEW k, k = [j EXCEPT !.crossed = TRUE]
    PROVE  k \in Job /\ k.at = j.at /\ k.app = j.app /\ k.crossed
<1>1. CASE j \in [at : {"clear", "write"}, app : AppIds, pkg : Packages,
                  written : 0 .. Parts, crossed : BOOLEAN]
  <2>1. k \in [at : {"clear", "write"}, app : AppIds, pkg : Packages,
               written : 0 .. Parts, crossed : BOOLEAN]
    BY <1>1
  <2> QED  BY <1>1, <2>1 DEF Job
<1>2. CASE j \in [at : {"remove", "forget"}, app : AppIds, crossed : BOOLEAN]
  <2>1. k \in [at : {"remove", "forget"}, app : AppIds, crossed : BOOLEAN]
    BY <1>2
  <2> QED  BY <1>2, <2>1 DEF Job
<1> QED  BY <1>1, <1>2 DEF Job, Idle, Busy

LEMMA NoFilesTyped == NoFiles \in [1 .. Parts -> Packages \cup {None}]
BY DEF NoFiles

\* A handler begins; whom it meets is crossed from then on.
LEMMA BeginsCode ==
    ASSUME CodeInv, NEW h \in Handlers, NEW j \in Job, ~Busy(job[h]),
           j.at \in {"clear", "remove"}, j.crossed = (Changing(j.app) # {}),
           j.at = "clear" => j.written = 0,
           Begin(h, j), UNCHANGED <<files, rough>>,
           row' \in [AppIds -> Packages \cup {None}],
           \A a \in AppIds : a # j.app => row'[a] = row[a],
           j.at = "remove" => row'[j.app] = None
    PROVE  CodeInv'
<1>1. j.app \in AppIds /\ Busy(j)
  BY JobFields DEF Busy
<1>2. ASSUME NEW g \in Handlers, g # h, g \in Changing(j.app)
      PROVE  /\ job'[g] = [job[g] EXCEPT !.crossed = TRUE]
             /\ job'[g] \in Job
             /\ job'[g].at = job[g].at /\ job'[g].app = job[g].app
             /\ job'[g].crossed
  <2>1. job'[g] = [job[g] EXCEPT !.crossed = TRUE]
    BY <1>2 DEF Begin
  <2>2. job[g] \in Job /\ Busy(job[g])
    BY <1>2 DEF CodeInv, CodeTyped, Changing, Busy
  <2> QED  BY <2>1, <2>2, CrossedJob
<1>3. job'[h] = j /\ \A g \in Handlers : g # h /\ g \notin Changing(j.app) => job'[g] = job[g]
  BY DEF Begin
<1>4. job' \in [Handlers -> Job]
  <2>1. \A g \in Handlers : job'[g] \in Job
    BY <1>2, <1>3 DEF CodeInv, CodeTyped
  <2> QED  BY <2>1 DEF Begin
<1>5. \A a \in AppIds : Changing(a)' = IF a = j.app THEN Changing(a) \cup {h} ELSE Changing(a)
  BY <1>1, <1>2, <1>3 DEF Changing, Busy
<1>6. ASSUME NEW g \in Handlers, Busy(job'[g]), ~job'[g].crossed
      PROVE  Undisturbed(g)'
  <2>1. CASE g = h
    BY <1>1, <1>3, <1>5, <1>6, <2>1 DEF Undisturbed
  <2>2. CASE g # h
    <3>1. g \notin Changing(j.app) /\ job'[g] = job[g]
      BY <1>2, <1>3, <1>6, <2>2
    <3>2. Undisturbed(g) /\ job[g].app \in AppIds /\ job[g].app # j.app
      BY <1>6, <3>1, JobFields DEF CodeInv, CodeTyped, Changing, Busy
    <3> QED  BY <1>5, <3>1, <3>2 DEF Undisturbed
  <2> QED  BY <2>1, <2>2
<1>7. CodeIsOfRow'
  <2> SUFFICES ASSUME NEW a \in AppIds, InOrder(a)'
               PROVE  files'[a] = [n \in 1 .. Parts |-> row'[a]]
    BY DEF CodeIsOfRow
  <2>1. a # j.app /\ InOrder(a)
    BY <1>5 DEF InOrder
  <2>2. files'[a] = files[a] /\ row'[a] = row[a]
    BY <2>1
  <2> QED  BY <2>1, <2>2 DEF CodeInv, CodeIsOfRow
<1> QED  BY <1>4, <1>6, <1>7 DEF CodeInv, CodeTyped

\* A handler goes on with its app, and disturbs only those that met it.
LEMMA GoesOnCode ==
    ASSUME CodeInv, NEW h \in Handlers, NEW j \in Job, Busy(job[h]), Busy(j),
           j.app = job[h].app, j.crossed = job[h].crossed,
           j.at # "clear",
           job' = [job EXCEPT ![h] = j], UNCHANGED <<row, rough>>,
           files' \in [AppIds -> [1 .. Parts -> Packages \cup {None}]],
           \A a \in AppIds : a # j.app => files'[a] = files[a],
           j.at = "write" =>
              \A n \in 1 .. j.written : Undisturbed(h) => files'[j.app][n] = j.pkg,
           j.at \in {"remove", "forget"} => job[h].at \in {"remove", "forget"},
           j.at = "forget" => files'[j.app] = NoFiles
    PROVE  CodeInv'
<1>1. job'[h] = j /\ \A g \in Handlers : g # h => job'[g] = job[g]
  BY DEF CodeInv, CodeTyped
<1>2. \A a \in AppIds : Changing(a)' = Changing(a)
  BY <1>1 DEF Changing, Busy
<1>3. j.app \in AppIds /\ h \in Changing(j.app)
  BY JobFields DEF Changing, Busy
<1>4. ASSUME NEW g \in Handlers, Busy(job'[g]), ~job'[g].crossed
      PROVE  Undisturbed(g)'
  <2>1. CASE g = h
    <3>1. Undisturbed(h)
      BY <1>1, <1>4, <2>1 DEF CodeInv
    <3> QED  BY <1>1, <1>2, <1>3, <2>1, <3>1 DEF Undisturbed
  <2>2. CASE g # h
    <3>1. job'[g] = job[g] /\ Undisturbed(g) /\ job[g].app \in AppIds
      BY <1>1, <1>4, <2>2, JobFields DEF CodeInv, CodeTyped
    <3>2. job[g].app # j.app
      BY <1>3, <2>2, <3>1 DEF Undisturbed
    <3> QED  BY <1>2, <3>1, <3>2 DEF Undisturbed
  <2> QED  BY <2>1, <2>2
<1>5. CodeIsOfRow'
  <2> SUFFICES ASSUME NEW a \in AppIds, InOrder(a)'
               PROVE  files'[a] = [n \in 1 .. Parts |-> row'[a]]
    BY DEF CodeIsOfRow
  <2>1. a # j.app /\ InOrder(a)
    BY <1>2, <1>3 DEF InOrder
  <2>2. files'[a] = files[a] /\ row'[a] = row[a]
    BY <2>1
  <2> QED  BY <2>1, <2>2 DEF CodeInv, CodeIsOfRow
<1> QED  BY <1>4, <1>5 DEF CodeInv, CodeTyped

\* A handler that ends leaves its app rough, or in order.
LEMMA EndsCode ==
    ASSUME CodeInv, NEW h \in Handlers, Busy(job[h]),
           job' = [job EXCEPT ![h] = Idle], files' = files,
           row' \in [AppIds -> Packages \cup {None}],
           \A a \in AppIds :
              a # job[h].app => row'[a] = row[a] /\ (a \in rough => a \in rough'),
           \/ job[h].app \in rough'
           \/ files[job[h].app] = [n \in 1 .. Parts |-> row'[job[h].app]]
    PROVE  CodeInv'
<1>1. ~Busy(job'[h]) /\ \A g \in Handlers : g # h => job'[g] = job[g]
  BY DEF CodeInv, CodeTyped, Busy, Idle
<1>2. job' \in [Handlers -> Job]
  BY DEF CodeInv, CodeTyped, Job
<1>3. job[h].app \in AppIds /\ h \in Changing(job[h].app)
  BY JobFields DEF CodeInv, CodeTyped, Changing, Busy
<1>4. \A a \in AppIds :
         Changing(a)' = IF a = job[h].app THEN Changing(a) \ {h} ELSE Changing(a)
  BY <1>1, <1>3 DEF Changing, Busy
<1>5. ASSUME NEW g \in Handlers, Busy(job'[g]), ~job'[g].crossed
      PROVE  Undisturbed(g)'
  <2>1. g # h /\ job'[g] = job[g] /\ Undisturbed(g) /\ job[g].app \in AppIds
    BY <1>1, <1>5, JobFields DEF CodeInv, CodeTyped
  <2>2. job[g].app # job[h].app
    BY <1>3, <2>1 DEF Undisturbed
  <2> QED  BY <1>4, <2>1, <2>2 DEF Undisturbed
<1>6. CodeIsOfRow'
  BY <1>3, <1>4 DEF CodeInv, CodeIsOfRow, InOrder
<1> QED  BY <1>2, <1>5, <1>6 DEF CodeInv, CodeTyped

\* A handler that has begun nothing stays out of it.
LEMMA WaitsCode ==
    ASSUME CodeInv, NEW h \in Handlers, ~Busy(job[h]), NEW j \in Job, ~Busy(j),
           job' = [job EXCEPT ![h] = j], UNCHANGED <<row, files, rough>>
    PROVE  CodeInv'
<1>1. job'[h] = j /\ \A g \in Handlers : g # h => job'[g] = job[g]
  BY DEF CodeInv, CodeTyped
<1>2. \A a \in AppIds : Changing(a)' = Changing(a)
  BY <1>1 DEF Changing, Busy
<1>3. ASSUME NEW g \in Handlers, Busy(job'[g]), ~job'[g].crossed
      PROVE  Undisturbed(g)'
  <2>1. job'[g] = job[g] /\ Undisturbed(g) /\ job[g].app \in AppIds
    BY <1>1, <1>3, JobFields DEF CodeInv, CodeTyped
  <2> QED  BY <1>2, <2>1 DEF Undisturbed
<1>4. CodeIsOfRow'
  BY <1>2 DEF CodeInv, CodeIsOfRow, InOrder
<1> QED  BY <1>3, <1>4 DEF CodeInv, CodeTyped

LEMMA SameCode == CodeInv /\ UNCHANGED <<row, files, job, rough>> => CodeInv'
BY DEF CodeInv, CodeTyped, Undisturbed, CodeIsOfRow, InOrder, Changing, Busy

LEMMA CommitBegins ==
    ASSUME CodeInv, NEW h \in Handlers, NEW p \in Packages, ~Busy(job[h]),
           BeginCommit(h, p), UNCHANGED <<row, files, rough>>
    PROVE  CodeInv'
<1> DEFINE j == [at |-> "clear", app |-> AppOf[p], pkg |-> p, written |-> 0,
                 crossed |-> Changing(AppOf[p]) # {}]
<1>1. /\ j \in Job /\ j.app = AppOf[p] /\ j.at = "clear" /\ j.written = 0
      /\ j.crossed = (Changing(j.app) # {})
  BY AppsAssumption DEF Job
<1>2. Begin(h, j)
  BY DEF BeginCommit
<1> HIDE DEF j
<1> QED  BY <1>1, <1>2, BeginsCode DEF CodeInv, CodeTyped

LEMMA StepCode == ASSUME CodeInv, [Next]_vars PROVE CodeInv'
<1>0. \A h \in Handlers : job[h] \in Job
  BY DEF CodeInv, CodeTyped
<1>1. ASSUME NEW h \in Handlers, NEW p \in Packages, Install(h, p) \/ ApplyUpdate(h, p)
      PROVE  CodeInv'
  <2>1. ~Busy(job[h]) /\ UNCHANGED <<row, files, rough>>
    BY <1>1 DEF Install, ApplyUpdate, Start, Busy
  <2>2. BeginCommit(h, p) \/ UNCHANGED job \/ job' = [job EXCEPT ![h] = Idle]
    BY <1>1 DEF Install, ApplyUpdate
  <2>3. Idle \in Job /\ ~Busy(Idle)
    BY DEF Job, Idle, Busy
  <2> QED  BY <2>1, <2>2, <2>3, CommitBegins, WaitsCode, SameCode
<1>2. ASSUME NEW h \in Handlers, NEW p \in Packages, NEW i \in DOMAIN staged,
             Confirm(h, p, i)
      PROVE  CodeInv'
  BY <1>2, CommitBegins DEF Confirm, Start, Busy
<1>3. ASSUME NEW h \in Handlers, NEW a \in AppIds, RemoveApp(h, a)
      PROVE  CodeInv'
  <2> DEFINE j == [at |-> "remove", app |-> a, crossed |-> Changing(a) # {}]
  <2>1. j \in Job /\ j.app = a /\ j.at = "remove" /\ j.crossed = (Changing(j.app) # {})
    BY DEF Job
  <2>2. Begin(h, j) /\ ~Busy(job[h]) /\ UNCHANGED <<files, rough>>
    BY <1>3 DEF RemoveApp, Start, Busy
  <2>3. /\ row' \in [AppIds -> Packages \cup {None}] /\ row'[a] = None
        /\ \A b \in AppIds : b # a => row'[b] = row[b]
    BY <1>3 DEF RemoveApp, CodeInv, CodeTyped
  <2> HIDE DEF j
  <2> QED  BY <2>1, <2>2, <2>3, BeginsCode
<1>4. ASSUME NEW h \in Handlers, StartUpdate(h) \/ DownloadFails(h)
      PROVE  CodeInv'
  <2>1. /\ [at |-> "download"] \in Job /\ Idle \in Job
        /\ ~Busy([at |-> "download"]) /\ ~Busy(Idle)
    BY DEF Job, Idle, Busy
  <2> QED  BY <1>4, <2>1, WaitsCode DEF StartUpdate, DownloadFails, Start, Busy
<1>5. ASSUME NEW h \in Handlers, ClearCode(h) \/ RemoveCode(h)
      PROVE  CodeInv'
  <2>1. PICK at \in {"write", "forget"} :
           /\ job' = [job EXCEPT ![h] = [job[h] EXCEPT !.at = at]]
           /\ job[h].at = IF at = "write" THEN "clear" ELSE "remove"
           /\ files' = [files EXCEPT ![job[h].app] = NoFiles]
           /\ UNCHANGED <<row, rough>>
    BY <1>5 DEF ClearCode, RemoveCode, MoveOn
  <2> DEFINE j == [job[h] EXCEPT !.at = at]
  <2>2. Busy(job[h]) /\ job[h].app \in AppIds
    BY <1>0, <2>1, JobFields DEF Busy
  <2>3. /\ j \in Job /\ j.at = at /\ j.app = job[h].app /\ j.crossed = job[h].crossed
        /\ at = "write" => j.pkg = job[h].pkg /\ j.written = job[h].written
    BY <1>0, <2>1 DEF Job, Idle
  <2>4. files' \in [AppIds -> [1 .. Parts -> Packages \cup {None}]]
    BY <2>1, NoFilesTyped DEF CodeInv, CodeTyped
  <2>5. files'[job[h].app] = NoFiles /\ \A a \in AppIds : a # job[h].app => files'[a] = files[a]
    BY <2>1, <2>2 DEF CodeInv, CodeTyped
  <2>6. job' = [job EXCEPT ![h] = j] /\ Busy(j)
    BY <2>1, <2>3 DEF Busy
  <2>7. at = "write" =>
           \A n \in 1 .. j.written : Undisturbed(h) => files'[j.app][n] = j.pkg
    BY <2>1, <2>3, <2>5 DEF Undisturbed
  <2> HIDE DEF j
  <2> QED  BY <2>1, <2>2, <2>3, <2>4, <2>5, <2>6, <2>7, GoesOnCode
<1>6. ASSUME NEW h \in Handlers, WriteFile(h)
      PROVE  CodeInv'
  <2> DEFINE n == job[h].written + 1
             j == [job[h] EXCEPT !.written = n]
  <2>1. /\ job[h].at = "write" /\ job[h].written < Parts /\ UNCHANGED <<row, rough>>
        /\ files' = [files EXCEPT ![job[h].app][n] = job[h].pkg]
        /\ job' = [job EXCEPT ![h] = j]
    BY <1>6 DEF WriteFile
  <2>2. Busy(job[h]) /\ job[h].app \in AppIds /\ job[h].pkg \in Packages /\ n \in 1 .. Parts
    BY <1>0, <2>1, JobFields, AppsAssumption DEF Busy
  <2>3. /\ j \in Job /\ j.at = "write" /\ j.app = job[h].app /\ j.written = n
        /\ j.crossed = job[h].crossed /\ j.pkg = job[h].pkg
    BY <1>0, <2>1, <2>2 DEF Job, Idle
  <2>4. files' \in [AppIds -> [1 .. Parts -> Packages \cup {None}]]
    BY <2>1, <2>2 DEF CodeInv, CodeTyped
  <2>5. \A a \in AppIds : a # job[h].app => files'[a] = files[a]
    BY <2>1 DEF CodeInv, CodeTyped
  <2>6. \A i \in 1 .. n : Undisturbed(h) => files'[job[h].app][i] = job[h].pkg
    <3>1. \A i \in 1 .. n : i = n \/ i \in 1 .. job[h].written
      BY <1>0, <2>1, JobFields
    <3>2. /\ files[job[h].app] \in [1 .. Parts -> Packages \cup {None}]
          /\ files'[job[h].app] = [files[job[h].app] EXCEPT ![n] = job[h].pkg]
      BY <2>1, <2>2 DEF CodeInv, CodeTyped
    <3>3. \A i \in 1 .. n : i \in 1 .. Parts
      BY <2>2, AppsAssumption
    <3>4. Undisturbed(h) => \A i \in 1 .. job[h].written : files[job[h].app][i] = job[h].pkg
      BY <2>1 DEF Undisturbed
    <3> HIDE DEF n, j, Undisturbed
    <3> QED  BY <3>1, <3>2, <3>3, <3>4
  <2>7. Busy(j)
    BY <2>3 DEF Busy
  <2> HIDE DEF j, n
  <2> QED  BY <2>1, <2>2, <2>3, <2>4, <2>5, <2>6, <2>7, GoesOnCode
<1>7. ASSUME NEW h \in Handlers, CommitFails(h) \/ RemovalFails(h)
      PROVE  CodeInv'
  BY <1>7, EndsCode DEF CommitFails, RemovalFails, Abandon, Busy, CodeInv, CodeTyped
<1>8. ASSUME NEW h \in Handlers, Record(h)
      PROVE  CodeInv'
  <2>1. /\ job[h].at = "write" /\ job[h].written = Parts /\ files' = files
        /\ row' = [row EXCEPT ![job[h].app] = job[h].pkg]
        /\ job' = [job EXCEPT ![h] = Idle]
        /\ rough' = IF job[h].crossed THEN rough \cup {job[h].app} ELSE rough \ {job[h].app}
    BY <1>8 DEF Record, Complete
  <2>2. Busy(job[h]) /\ job[h].app \in AppIds /\ job[h].pkg \in Packages
    BY <1>0, <2>1, JobFields DEF Busy
  <2>3. /\ row' \in [AppIds -> Packages \cup {None}] /\ row'[job[h].app] = job[h].pkg
        /\ \A a \in AppIds : a # job[h].app => row'[a] = row[a]
    BY <2>1, <2>2 DEF CodeInv, CodeTyped
  <2>4. CASE ~job[h].crossed
    <3>1. \A n \in 1 .. Parts : files[job[h].app][n] = job[h].pkg
      BY <2>1, <2>2, <2>4 DEF CodeInv, Undisturbed
    <3>2. files[job[h].app] = [n \in 1 .. Parts |-> row'[job[h].app]]
      BY <2>2, <2>3, <3>1 DEF CodeInv, CodeTyped
    <3> QED  BY <2>1, <2>2, <2>3, <3>2, EndsCode
  <2> QED  BY <2>1, <2>2, <2>3, <2>4, EndsCode
<1>9. ASSUME NEW h \in Handlers, FinishRemoval(h)
      PROVE  CodeInv'
  <2>1. /\ job[h].at = "forget" /\ UNCHANGED <<row, files>>
        /\ job' = [job EXCEPT ![h] = Idle]
        /\ rough' = IF job[h].crossed THEN rough \cup {job[h].app} ELSE rough \ {job[h].app}
    BY <1>9 DEF FinishRemoval, Complete
  <2>2. Busy(job[h])
    BY <2>1 DEF Busy
  <2>3. ~job[h].crossed => files[job[h].app] = [n \in 1 .. Parts |-> row[job[h].app]]
    BY <2>1, <2>2 DEF CodeInv, Undisturbed, NoFiles
  <2> QED  BY <2>1, <2>2, <2>3, EndsCode DEF CodeInv, CodeTyped
<1>10. CASE Restart
  <2>1. /\ job' = [h \in Handlers |-> Idle] /\ UNCHANGED <<row, files>>
        /\ rough' = rough \cup {a \in AppIds : Changing(a) # {}}
    BY <1>10 DEF Restart
  <2>2. job' \in [Handlers -> Job] /\ \A h \in Handlers : ~Busy(job'[h])
    BY <2>1 DEF Job, Idle, Busy
  <2> QED  BY <2>1, <2>2 DEF CodeInv, CodeTyped, CodeIsOfRow, InOrder
<1>11. ASSUME \/ \E i \in DOMAIN staged : Discard(i)
              \/ \E a \in AppIds : Acquire(a) \/ \E on \in BOOLEAN : Trust(a, on)
              \/ UNCHANGED vars
       PROVE  CodeInv'
  BY <1>11, SameCode DEF Discard, Acquire, Trust, vars
<1> QED  BY <1>1, <1>2, <1>3, <1>4, <1>5, <1>6, <1>7, <1>8, <1>9, <1>10, <1>11 DEF Next

\* commitPackage replaces the directory and then the row, removeApp the row and
\* then the directory: once the last change of an app has met no other and got
\* to its end, the code that is served is the package's whose manifest decides
\* what it may do, and a removed app has none.
THEOREM CodeMatchesManifest == Spec => []CodeIsOfRow
<1>1. Init => CodeInv
  <2> SUFFICES ASSUME Init PROVE CodeInv
    OBVIOUS
  <2>1. CodeTyped
    BY NoFilesTyped DEF Init, CodeTyped, Job
  <2> QED  BY <2>1 DEF Init, CodeInv, Busy, Idle, CodeIsOfRow, InOrder, NoFiles
<1>2. CodeInv => CodeIsOfRow
  BY DEF CodeInv
<1> QED  BY <1>1, <1>2, StepCode, PTL DEF Spec

-----------------------------------------------------------------------------
(* What is staged *)

LEMMA LeastNatural ==
    ASSUME NEW T, T \subseteq Nat, T # {}
    PROVE  \E x \in T : \A y \in T : x <= y
<1> DEFINE R == OpToRel(<, Nat)
<1>1. IsWellFoundedOn(R, Nat)
  BY NatLessThanWellFounded
<1>2. \A x, y \in Nat : x < y => <<x, y>> \in R
  BY DEF OpToRel
<1> HIDE DEF R
<1>3. PICK x \in T : \A y \in T : <<y, x>> \notin R
  BY <1>1, WFMin
<1>4. \A y \in T : ~(y < x)
  BY <1>2, <1>3, Zenon
<1>5. \A y \in T : y \in Nat
  OBVIOUS
<1> QED  BY <1>4, <1>5

LEMMA InductionOnSets ==
    ASSUME NEW S, 0 \in S, \A n \in Nat : n \in S => n + 1 \in S
    PROVE  Nat \subseteq S
<1> SUFFICES ASSUME Nat \ S # {} PROVE FALSE
  OBVIOUS
<1>1. PICK x \in Nat \ S : \A y \in Nat \ S : x <= y
  BY LeastNatural
<1>2. x \in Nat /\ x # 0
  OBVIOUS
<1>3. x - 1 \in Nat /\ ~(x <= x - 1)
  BY <1>2
<1>4. x - 1 \in S
  BY <1>1, <1>3
<1>5. (x - 1) + 1 = x
  BY <1>2
<1> QED  BY <1>1, <1>3, <1>4, <1>5

\* f says where a thing is after each of k steps.
Up(f, k, S, first, step) ==
    /\ f \in [0 .. k -> S] /\ f[0] = first
    /\ \A i \in 1 .. k : f[i] = step[<<i, f[i - 1]>>]

\* What goes through n steps, one after the other, has been somewhere after each.
LEMMA StepByStep ==
    ASSUME NEW n \in Nat, NEW S, NEW first \in S, NEW step,
           \A i \in 1 .. n, x \in S : step[<<i, x>>] \in S
    PROVE  \E f : Up(f, n, S, first, step)
<1> DEFINE T == {k \in Nat : k <= n => \E f : Up(f, k, S, first, step)}
<1>1. 0 \in T
  <2>1. Up([i \in 0 .. 0 |-> first], 0, S, first, step)
    BY DEF Up
  <2> QED  BY <2>1
<1>2. ASSUME NEW k \in Nat, k \in T PROVE k + 1 \in T
  <2> SUFFICES ASSUME k + 1 <= n PROVE \E f : Up(f, k + 1, S, first, step)
    OBVIOUS
  <2>1. PICK f : Up(f, k, S, first, step)
    BY <1>2
  <2> DEFINE g == [i \in 0 .. k + 1 |-> IF i = k + 1 THEN step[<<k + 1, f[k]>>] ELSE f[i]]
  <2>2. \A i \in 0 .. k : f[i] \in S
    BY <2>1 DEF Up
  <2>3. step[<<k + 1, f[k]>>] \in S
    <3>1. k + 1 \in 1 .. n /\ f[k] \in S
      BY <2>2
    <3> QED  BY <3>1
  <2>4. g \in [0 .. k + 1 -> S] /\ g[0] = first
    BY <2>1, <2>2, <2>3 DEF Up
  <2>5. ASSUME NEW i \in 1 .. k + 1 PROVE g[i] = step[<<i, g[i - 1]>>]
    <3>1. CASE i = k + 1
      <4>1. i = k + 1 /\ i - 1 = k /\ k # k + 1 /\ k \in 0 .. k + 1 /\ k + 1 \in 0 .. k + 1
        BY <3>1
      <4>2. g[k] = f[k]
        BY <4>1
      <4>3. g[k + 1] = step[<<k + 1, f[k]>>]
        BY <4>1
      <4> HIDE DEF g
      <4> QED  BY <4>1, <4>2, <4>3
    <3>2. CASE i # k + 1
      <4>1. i \in 1 .. k /\ i - 1 \in 0 .. k /\ i - 1 # k + 1
        BY <3>2
      <4> QED  BY <2>1, <3>2, <4>1 DEF Up
    <3> QED  BY <3>1, <3>2
  <2> HIDE DEF g
  <2> QED  BY <2>4, <2>5 DEF Up
<1> HIDE DEF T
<1>3. n \in T
  BY <1>1, <1>2, InductionOnSets
<1> QED  BY <1>3 DEF T

\* discardStagedFor keeps entries, no more than there were, and none of the app.
LEMMA OthersStay ==
    ASSUME staged \in Seq(Entry), NEW a
    PROVE  /\ StagedForOthers(a) \in Seq(Entry)
           /\ Len(StagedForOthers(a)) <= Len(staged)
           /\ \A i \in DOMAIN StagedForOthers(a) :
                 /\ AppOf[StagedForOthers(a)[i].pkg] # a
                 /\ \E j \in DOMAIN staged : StagedForOthers(a)[i] = staged[j]
<1> DEFINE n == Len(staged)
           D == 0 .. n
           step == [x \in (1 .. n) \X Seq(Entry) |->
                      IF AppOf[staged[x[1]].pkg] = a THEN x[2]
                      ELSE Append(x[2], staged[x[1]])]
           Body(f) == [i \in D |->
                         IF i = 0 THEN <<>>
                         ELSE IF AppOf[staged[i].pkg] = a THEN f[i - 1]
                         ELSE Append(f[i - 1], staged[i])]
           left == CHOOSE f : f = Body(f)
<1>1. n \in Nat /\ \A i \in 1 .. n : staged[i] \in Entry
  OBVIOUS
<1>2. \A i \in 1 .. n, x \in Seq(Entry) : step[<<i, x>>] \in Seq(Entry)
  BY <1>1
<1>3. PICK f \in [D -> Seq(Entry)] :
         f[0] = <<>> /\ \A i \in 1 .. n : f[i] = step[<<i, f[i - 1]>>]
  <2> DEFINE E == Seq(Entry)
  <2>1. <<>> \in E
    OBVIOUS
  <2>2. n \in Nat /\ \A i \in 1 .. n, x \in E : step[<<i, x>>] \in E
    BY <1>1, <1>2
  <2> HIDE DEF step, n, E
  <2>3. \E g : Up(g, n, E, <<>>, step)
    BY <2>1, <2>2, StepByStep
  <2> QED  BY <2>3 DEF E, Up
<1>4. f = Body(f)
  <2>1. ASSUME NEW i \in D PROVE f[i] = Body(f)[i]
    <3>1. CASE i = 0
      BY <1>3, <3>1
    <3>2. CASE i # 0
      <4>1. i \in 1 .. n /\ i - 1 \in D
        BY <1>1, <3>2
      <4>2. f[i - 1] \in Seq(Entry) /\ <<i, f[i - 1]>> \in (1 .. n) \X Seq(Entry)
        BY <1>3, <4>1
      <4>3. f[i] = step[<<i, f[i - 1]>>]
        BY <1>3, <4>1
      <4> QED  BY <3>2, <4>1, <4>2, <4>3
    <3> QED  BY <3>1, <3>2
  <2> QED  BY <1>3, <2>1
<1>5. left = Body(left)
  BY <1>4
<1>6. StagedForOthers(a) = left[n]
  BY DEF StagedForOthers
<1> HIDE DEF left
<1>7. left[0] = <<>> /\ \A i \in 1 .. n :
         left[i] = IF AppOf[staged[i].pkg] = a THEN left[i - 1]
                   ELSE Append(left[i - 1], staged[i])
  <2>1. \A i \in D : left[i] = IF i = 0 THEN <<>>
                               ELSE IF AppOf[staged[i].pkg] = a THEN left[i - 1]
                               ELSE Append(left[i - 1], staged[i])
    <3>1. \A i : left[i] = Body(left)[i]
      <4> HIDE DEF Body
      <4> QED  BY <1>5
    <3>2. \A i \in D : Body(left)[i] =
                IF i = 0 THEN <<>>
                ELSE IF AppOf[staged[i].pkg] = a THEN left[i - 1]
                ELSE Append(left[i - 1], staged[i])
      <4> HIDE DEF D
      <4> QED  OBVIOUS
    <3> HIDE DEF Body, D
    <3> QED  BY <3>1, <3>2
  <2>2. 0 \in D /\ \A i \in 1 .. n : i \in D /\ i # 0
    BY <1>1
  <2> HIDE DEF D, n
  <2> QED  BY <2>1, <2>2
<1> DEFINE Good(s, k) ==
              /\ s \in Seq(Entry) /\ Len(s) <= k
              /\ \A i \in DOMAIN s : AppOf[s[i].pkg] # a
                                     /\ \E j \in DOMAIN staged : s[i] = staged[j]
           T == {k \in Nat : k <= n => Good(left[k], k)}
<1>8. 0 \in T
  <2>1. <<>> \in Seq(Entry) /\ Len(<<>>) = 0 /\ DOMAIN <<>> = {}
    OBVIOUS
  <2>2. Good(<<>>, 0)
    BY <2>1
  <2> HIDE DEF Good
  <2> QED  BY <1>7, <2>2
<1>9. ASSUME NEW k \in Nat, k \in T PROVE k + 1 \in T
  <2> SUFFICES ASSUME k + 1 <= n PROVE Good(left[k + 1], k + 1)
    OBVIOUS
  <2>1. Good(left[k], k) /\ k + 1 \in 1 .. n /\ (k + 1) - 1 = k
    BY <1>9
  <2>2. CASE AppOf[staged[k + 1].pkg] = a
    BY <1>7, <2>1, <2>2
  <2>3. CASE AppOf[staged[k + 1].pkg] # a
    <3>1. left[k + 1] = Append(left[k], staged[k + 1])
      BY <1>7, <2>1, <2>3
    <3> DEFINE s == left[k]
               e == staged[k + 1]
               t == Append(s, e)
    <3>2. s \in Seq(Entry) /\ Len(s) \in Nat /\ Len(s) <= k /\ e \in Entry
      BY <1>1, <2>1
    <3>3. /\ t \in Seq(Entry) /\ Len(t) = Len(s) + 1 /\ DOMAIN t = 1 .. Len(s) + 1
          /\ DOMAIN s = 1 .. Len(s) /\ t[Len(s) + 1] = e
          /\ \A i \in 1 .. Len(s) : t[i] = s[i]
      <4> HIDE DEF s, e
      <4> QED  BY <3>2
    <3>4. AppOf[e.pkg] # a /\ \E j \in DOMAIN staged : e = staged[j]
      BY <2>1, <2>3
    <3>5. \A i \in DOMAIN s : AppOf[s[i].pkg] # a /\ \E j \in DOMAIN staged : s[i] = staged[j]
      BY <2>1
    <3> HIDE DEF s, e, t
    <3>6. \A i \in DOMAIN t : i = Len(s) + 1 \/ i \in DOMAIN s
      BY <3>2, <3>3
    <3>7. \A i \in DOMAIN t : AppOf[t[i].pkg] # a /\ \E j \in DOMAIN staged : t[i] = staged[j]
      BY <3>3, <3>4, <3>5, <3>6
    <3>8. Len(t) <= k + 1
      BY <3>2, <3>3
    <3>9. Good(t, k + 1)
      BY <3>3, <3>7, <3>8
    <3> QED  BY <3>1, <3>9 DEF s, e, t
  <2> QED  BY <2>2, <2>3
<1> HIDE DEF T
<1>10. n \in T
  BY <1>1, <1>8, <1>9, InductionOnSets
<1>11. Good(left[n], n)
  BY <1>10, <1>1 DEF T
<1> QED  BY <1>6, <1>11

\* An entry is as good as any if it was staged before, or is of this package.
Staged(e, p) ==
    \/ \E j \in DOMAIN staged : e = staged[j]
    \/ e = [pkg |-> p, isUpdate |-> row[AppOf[p]] # None]

LEMMA StagingKeeps ==
    ASSUME staged \in Seq(Entry), Len(staged) <= MaxStaged, NEW p \in Packages, Stage(p)
    PROVE  /\ staged' \in Seq(Entry) /\ Len(staged') <= MaxStaged
           /\ \A i \in DOMAIN staged' : Staged(staged'[i], p)
<1> DEFINE n == Len(staged)
           e == [pkg |-> p, isUpdate |-> row[AppOf[p]] # None]
           room == IF n < MaxStaged THEN staged ELSE SubSeq(staged, n - MaxStaged + 2, n)
<1>1. MaxStaged \in Nat \ {0} /\ n \in Nat /\ n <= MaxStaged
  BY AppsAssumption
<1>2. e \in Entry
  BY DEF Entry
<1>3. /\ room \in Seq(Entry) /\ Len(room) < MaxStaged
      /\ \A i \in 1 .. Len(room) : \E j \in DOMAIN staged : room[i] = staged[j]
  <2>1. CASE n < MaxStaged
    BY <2>1
  <2>2. CASE ~(n < MaxStaged)
    <3>1. n = MaxStaged /\ n - MaxStaged + 2 = 2 /\ room = SubSeq(staged, 2, n)
      BY <1>1, <2>2
    <3>2. /\ SubSeq(staged, 2, n) \in Seq(Entry)
          /\ Len(SubSeq(staged, 2, n)) = n - 1
          /\ \A i \in 1 .. n - 1 : SubSeq(staged, 2, n)[i] = staged[i + 1]
      BY <1>1, <3>1
    <3>3. \A i \in 1 .. n - 1 : i + 1 \in DOMAIN staged
      BY <1>1
    <3> HIDE DEF room
    <3> QED  BY <1>1, <3>1, <3>2, <3>3
  <2> QED  BY <2>1, <2>2
<1>4. staged' = Append(room, e)
  BY DEF Stage
<1> HIDE DEF room, e
<1>5. /\ Append(room, e) \in Seq(Entry) /\ Len(Append(room, e)) = Len(room) + 1
      /\ DOMAIN Append(room, e) = 1 .. Len(room) + 1 /\ Append(room, e)[Len(room) + 1] = e
      /\ \A i \in 1 .. Len(room) : Append(room, e)[i] = room[i]
  BY <1>2, <1>3
<1>6. \A i \in DOMAIN staged' : i = Len(room) + 1 \/ i \in 1 .. Len(room)
  BY <1>3, <1>4, <1>5
<1>7. \A i \in DOMAIN staged' : Staged(staged'[i], p)
  BY <1>3, <1>4, <1>5, <1>6 DEF Staged, e
<1> QED  BY <1>1, <1>3, <1>4, <1>5, <1>7

LEMMA UnstagingKeeps ==
    ASSUME staged \in Seq(Entry), Len(staged) <= MaxStaged, NEW i \in DOMAIN staged,
           staged' = RemoveAt(staged, i)
    PROVE  /\ staged' \in Seq(Entry) /\ Len(staged') <= MaxStaged
           /\ \A k \in DOMAIN staged' : \E j \in DOMAIN staged : staged'[k] = staged[j]
<1> DEFINE n == Len(staged)
           s == SubSeq(staged, 1, i - 1)
           t == SubSeq(staged, i + 1, n)
<1>1. MaxStaged \in Nat /\ n \in Nat /\ i \in 1 .. n /\ DOMAIN staged = 1 .. n
  BY AppsAssumption
<1>2. /\ s \in Seq(Entry) /\ Len(s) = i - 1
      /\ \A k \in 1 .. i - 1 : s[k] = staged[k]
  BY <1>1
<1>3. /\ t \in Seq(Entry) /\ Len(t) = n - i
      /\ \A k \in 1 .. n - i : t[k] = staged[i + k]
  BY <1>1
<1>4. staged' = s \o t
  BY DEF RemoveAt
<1> HIDE DEF s, t, n
<1>5. /\ s \o t \in Seq(Entry) /\ Len(s \o t) = Len(s) + Len(t)
      /\ DOMAIN (s \o t) = 1 .. Len(s) + Len(t)
      /\ \A k \in 1 .. Len(s) + Len(t) :
            (s \o t)[k] = IF k <= Len(s) THEN s[k] ELSE t[k - Len(s)]
  <2>1. /\ s \o t \in Seq(Entry) /\ Len(s \o t) = Len(s) + Len(t)
        /\ \A k \in 1 .. Len(s) + Len(t) :
              (s \o t)[k] = IF k <= Len(s) THEN s[k] ELSE t[k - Len(s)]
    <3> DEFINE S == Entry
    <3>1. s \in Seq(S) /\ t \in Seq(S)
      BY <1>2, <1>3
    <3> HIDE DEF S
    <3>2. /\ s \o t \in Seq(S) /\ Len(s \o t) = Len(s) + Len(t)
          /\ \A k \in 1 .. Len(s) + Len(t) :
                (s \o t)[k] = IF k <= Len(s) THEN s[k] ELSE t[k - Len(s)]
      BY <3>1, ConcatProperties
    <3> QED  BY <3>2 DEF S
  <2> QED  BY <2>1
<1>6. ASSUME NEW k \in 1 .. n - 1 PROVE \E j \in DOMAIN staged : (s \o t)[k] = staged[j]
  <2>0. k \in 1 .. Len(s) + Len(t)
    BY <1>1, <1>2, <1>3
  <2>1. CASE k <= i - 1
    <3>1. k \in 1 .. i - 1 /\ k \in 1 .. n /\ k <= Len(s)
      BY <1>1, <1>2, <2>1
    <3> QED  BY <1>1, <1>2, <1>5, <2>0, <3>1
  <2>2. CASE ~(k <= i - 1)
    <3>1. k - (i - 1) \in 1 .. n - i /\ i + (k - (i - 1)) \in 1 .. n /\ ~(k <= Len(s))
      BY <1>1, <1>2, <2>2
    <3> QED  BY <1>1, <1>2, <1>3, <1>5, <2>0, <3>1
  <2> QED  BY <2>1, <2>2
<1>7. Len(s) + Len(t) = n - 1
  BY <1>1, <1>2, <1>3
<1>8. n - 1 <= MaxStaged
  <2>1. n <= MaxStaged
    BY DEF n
  <2> QED  BY <1>1, <2>1
<1> QED  BY <1>4, <1>5, <1>6, <1>7, <1>8

-----------------------------------------------------------------------------
(* What is left of an app that was removed *)

RestTyped ==
    /\ kept \subseteq AppIds /\ trusted \subseteq Publishers
    /\ staged \in Seq(Entry) /\ Len(staged) <= MaxStaged
    /\ approved \in [AppIds -> SUBSET Permissions]
    /\ rough \subseteq AppIds
    /\ starts \in 0 .. MaxStarts

RecordInv == CodeInv /\ RestTyped /\ NothingLeft

\* Nothing of an app's, but for the one whose removal ends, is put in order while
\* its row is gone.
LEMMA InOrderBefore ==
    ASSUME CodeInv, [Next]_vars, NEW a \in AppIds, InOrder(a)', row'[a] = None
    PROVE  \/ InOrder(a) /\ row[a] = None
           \/ \E h \in Handlers : FinishRemoval(h) /\ job[h].app = a
<1> DEFINE Good == InOrder(a) /\ row[a] = None
<1>0. /\ \A h \in Handlers : job[h] \in Job
      /\ DOMAIN job = Handlers /\ DOMAIN row = AppIds
      /\ \A h \in Handlers : h \in Changing(a) <=> Busy(job[h]) /\ job[h].app = a
  BY DEF CodeInv, CodeTyped, Changing, Busy
<1>1. ASSUME NEW h \in Handlers, NEW j \in Job, ~Busy(job[h]), Busy(j), Begin(h, j),
             UNCHANGED rough
      PROVE  InOrder(a) /\ a # j.app
  <2>1. ASSUME NEW g \in Handlers, Busy(job[g])
        PROVE  job'[g].at = job[g].at /\ job'[g].app = job[g].app
    <3>1. job'[g] = job[g] \/ job'[g] = [job[g] EXCEPT !.crossed = TRUE]
      BY <1>1, <2>1 DEF Begin
    <3> QED  BY <1>0, <2>1, <3>1, CrossedJob
  <2>2. job'[h] = j
    BY <1>1 DEF Begin
  <2>3. Changing(a) \subseteq Changing(a)'
    BY <2>1 DEF Changing, Busy
  <2>4. a = j.app => h \in Changing(a)'
    BY <1>1, <2>2 DEF Changing, Busy
  <2> QED  BY <1>1, <2>3, <2>4 DEF InOrder
<1>2. ASSUME NEW h \in Handlers, NEW j, job' = [job EXCEPT ![h] = j], UNCHANGED rough,
             Busy(job[h]) => Busy(j) /\ j.app = job[h].app
      PROVE  InOrder(a)
  <2>1. Changing(a) \subseteq Changing(a)'
    BY <1>0, <1>2 DEF Changing, Busy
  <2> QED  BY <1>2, <2>1 DEF InOrder
<1>3. ASSUME NEW h \in Handlers, job' = [job EXCEPT ![h] = Idle],
             a # job[h].app => (a \in rough => a \in rough')
      PROVE  InOrder(a) \/ a = job[h].app
  <2>1. a # job[h].app => Changing(a) \subseteq Changing(a)'
    BY <1>0, <1>3 DEF Changing, Busy
  <2> QED  BY <1>3, <2>1 DEF InOrder
<1>4. ASSUME NEW h \in Handlers, NEW p \in Packages,
             Install(h, p) \/ ApplyUpdate(h, p) \/ \E i \in DOMAIN staged : Confirm(h, p, i)
      PROVE  Good
  <2>1. ~Busy(job[h]) /\ UNCHANGED <<row, rough>>
    BY <1>4 DEF Install, ApplyUpdate, Confirm, Start, Busy
  <2>2. BeginCommit(h, p) \/ UNCHANGED job \/ job' = [job EXCEPT ![h] = Idle]
    BY <1>4 DEF Install, ApplyUpdate, Confirm
  <2>3. CASE BeginCommit(h, p)
    <3> DEFINE j == [at |-> "clear", app |-> AppOf[p], pkg |-> p, written |-> 0,
                     crossed |-> Changing(AppOf[p]) # {}]
    <3>1. j \in Job /\ Busy(j)
      BY AppsAssumption DEF Job, Busy
    <3>2. Begin(h, j)
      BY <2>3 DEF BeginCommit
    <3> HIDE DEF j
    <3> QED  BY <1>1, <2>1, <3>1, <3>2
  <2>4. CASE UNCHANGED job
    BY <2>1, <2>4 DEF InOrder, Changing
  <2>5. CASE job' = [job EXCEPT ![h] = Idle]
    BY <1>2, <2>1, <2>5
  <2> QED  BY <2>2, <2>3, <2>4, <2>5
<1>5. ASSUME NEW h \in Handlers, NEW b \in AppIds, RemoveApp(h, b)
      PROVE  Good
  <2> DEFINE j == [at |-> "remove", app |-> b, crossed |-> Changing(b) # {}]
  <2>1. j \in Job /\ Busy(j) /\ j.app = b
    BY DEF Job, Busy
  <2>2. Begin(h, j) /\ ~Busy(job[h]) /\ UNCHANGED rough /\ row' = [row EXCEPT ![b] = None]
    BY <1>5 DEF RemoveApp, Start, Busy
  <2> HIDE DEF j
  <2>3. InOrder(a) /\ a # b
    BY <1>1, <2>1, <2>2
  <2> QED  BY <1>0, <2>2, <2>3
<1>6. ASSUME NEW h \in Handlers,
             \/ StartUpdate(h) \/ DownloadFails(h)
             \/ ClearCode(h) \/ WriteFile(h) \/ RemoveCode(h)
      PROVE  Good
  <2>1. CASE StartUpdate(h) \/ DownloadFails(h)
    <3>1. PICK j : job' = [job EXCEPT ![h] = j] /\ ~Busy(job[h]) /\ UNCHANGED <<row, rough>>
      BY <2>1 DEF StartUpdate, DownloadFails, Start, Busy
    <3> QED  BY <1>2, <3>1
  <2>2. CASE ClearCode(h) \/ RemoveCode(h)
    <3>1. PICK at \in {"write", "forget"} :
             job' = [job EXCEPT ![h] = [job[h] EXCEPT !.at = at]] /\ UNCHANGED <<row, rough>>
      BY <2>2 DEF ClearCode, RemoveCode, MoveOn
    <3>2. job[h].at \in {"clear", "remove"}
      BY <2>2 DEF ClearCode, RemoveCode
    <3>3. /\ [job[h] EXCEPT !.at = at].at = at
          /\ [job[h] EXCEPT !.at = at].app = job[h].app
      BY <1>0, <3>2 DEF Job, Idle
    <3>4. Busy([job[h] EXCEPT !.at = at])
      BY <3>1, <3>3 DEF Busy
    <3> QED  BY <1>2, <3>1, <3>3, <3>4
  <2>3. CASE WriteFile(h)
    <3>1. PICK n : job' = [job EXCEPT ![h] = [job[h] EXCEPT !.written = n]]
                   /\ UNCHANGED <<row, rough>>
      BY <2>3 DEF WriteFile
    <3>2. job[h].at = "write"
      BY <2>3 DEF WriteFile
    <3>3. /\ [job[h] EXCEPT !.written = n].at = "write"
          /\ [job[h] EXCEPT !.written = n].app = job[h].app
      BY <1>0, <3>2 DEF Job, Idle
    <3>4. Busy([job[h] EXCEPT !.written = n])
      BY <3>3 DEF Busy
    <3> QED  BY <1>2, <3>1, <3>3, <3>4
  <2> QED  BY <1>6, <2>1, <2>2, <2>3
<1>7. ASSUME NEW h \in Handlers, CommitFails(h) \/ RemovalFails(h)
      PROVE  Good
  <2>1. job' = [job EXCEPT ![h] = Idle] /\ rough' = rough \cup {job[h].app} /\ UNCHANGED row
    BY <1>7 DEF CommitFails, RemovalFails, Abandon
  <2>2. a # job[h].app
    BY <2>1 DEF InOrder
  <2> QED  BY <1>3, <2>1, <2>2
<1>8. ASSUME NEW h \in Handlers, Record(h)
      PROVE  Good
  <2>1. /\ job' = [job EXCEPT ![h] = Idle] /\ row' = [row EXCEPT ![job[h].app] = job[h].pkg]
        /\ rough' = IF job[h].crossed THEN rough \cup {job[h].app} ELSE rough \ {job[h].app}
    BY <1>8 DEF Record, Complete
  <2>2. job[h].pkg # None /\ job[h].app \in AppIds
    BY <1>0, <1>8, JobFields, AppsAssumption DEF Record, Busy
  <2>3. a # job[h].app /\ row[a] = None
    BY <1>0, <2>1, <2>2
  <2> QED  BY <1>3, <2>1, <2>3
<1>9. ASSUME NEW h \in Handlers, FinishRemoval(h), job[h].app # a
      PROVE  Good
  <2>1. /\ job' = [job EXCEPT ![h] = Idle] /\ UNCHANGED row
        /\ rough' = IF job[h].crossed THEN rough \cup {job[h].app} ELSE rough \ {job[h].app}
    BY <1>9 DEF FinishRemoval, Complete
  <2> QED  BY <1>3, <1>9, <2>1
<1>10. CASE Restart
  BY <1>10 DEF Restart, InOrder
<1>11. ASSUME \/ \E i \in DOMAIN staged : Discard(i)
              \/ \E b \in AppIds : Acquire(b) \/ \E on \in BOOLEAN : Trust(b, on)
              \/ UNCHANGED vars
       PROVE  Good
  BY <1>11 DEF Discard, Acquire, Trust, vars, InOrder, Changing
<1> QED  BY <1>4, <1>5, <1>6, <1>7, <1>8, <1>9, <1>10, <1>11 DEF Next

\* Nothing comes to be left of an app without its row: what is acquired, and what
\* is staged as an update, is of an app that has one, and a removal that ends takes
\* the rest.
LEMMA LeftStep ==
    ASSUME RecordInv, [Next]_vars,
           \A a \in AppIds : a \in kept' => a \in kept \/ row'[a] # None,
           \A i \in DOMAIN staged' :
              \/ \E j \in DOMAIN staged : staged'[i] = staged[j]
              \/ staged'[i].isUpdate => row'[AppOf[staged'[i].pkg]] # None
    PROVE  NothingLeft'
<1> SUFFICES ASSUME NEW a \in AppIds, InOrder(a)', row'[a] = None
             PROVE  /\ a \notin kept'
                    /\ \A i \in DOMAIN staged' :
                          AppOf[staged'[i].pkg] = a => ~staged'[i].isUpdate
  BY DEF NothingLeft
<1>1. CASE InOrder(a) /\ row[a] = None
  BY <1>1 DEF RecordInv, NothingLeft
<1>2. ASSUME NEW h \in Handlers, FinishRemoval(h), job[h].app = a
      PROVE  a \notin kept' /\ \A i \in DOMAIN staged' : AppOf[staged'[i].pkg] # a
  <2>1. a \notin kept' /\ staged' = StagedForOthers(a)
    BY <1>2 DEF FinishRemoval
  <2>2. staged \in Seq(Entry)
    BY DEF RecordInv, RestTyped
  <2> QED  BY <2>1, <2>2, OthersStay
<1> QED  BY <1>1, <1>2, InOrderBefore DEF RecordInv

LEMMA RestStays ==
    ASSUME RecordInv, [Next]_vars, UNCHANGED <<kept, staged>>,
           UNCHANGED <<trusted, approved>>, rough' \subseteq AppIds,
           starts' \in 0 .. MaxStarts
    PROVE  RestTyped' /\ NothingLeft'
<1>1. staged' = staged /\ \A i \in DOMAIN staged' : staged'[i] = staged[i]
  OBVIOUS
<1>2. \A i \in DOMAIN staged' : \E j \in DOMAIN staged : staged'[i] = staged[j]
  BY <1>1
<1> QED  BY <1>2, LeftStep DEF RecordInv, RestTyped

LEMMA RecordedStep == ASSUME RecordInv, [Next]_vars PROVE RecordInv'
<1> DEFINE New(i) == \/ \E j \in DOMAIN staged : staged'[i] = staged[j]
                     \/ staged'[i].isUpdate => row'[AppOf[staged'[i].pkg]] # None
           Done == RestTyped' /\ NothingLeft'
<1>0. /\ \A h \in Handlers : job[h] \in Job
      /\ row \in [AppIds -> Packages \cup {None}] /\ CodeInv
      /\ kept \subseteq AppIds /\ trusted \subseteq Publishers /\ rough \subseteq AppIds
      /\ staged \in Seq(Entry) /\ Len(staged) <= MaxStaged
      /\ approved \in [AppIds -> SUBSET Permissions] /\ starts \in 0 .. MaxStarts
  BY DEF RecordInv, CodeInv, CodeTyped, RestTyped
<1>1. \A h \in Handlers : Start(h) => starts' \in 0 .. MaxStarts
  BY <1>0, AppsAssumption DEF Start
<1>2. \A h \in Handlers : Busy(job[h]) => job[h].app \in AppIds
  BY <1>0, JobFields
<1>3. ASSUME NEW h \in Handlers, NEW p \in Packages, Install(h, p) \/ ApplyUpdate(h, p)
      PROVE  Done
  <2>1. /\ UNCHANGED <<row, kept, trusted, approved, rough>>
        /\ starts' \in 0 .. MaxStarts
    BY <1>0, <1>1, <1>3 DEF Install, ApplyUpdate
  <2>2. Stage(p) \/ UNCHANGED staged
    BY <1>3 DEF Install, ApplyUpdate
  <2>3. CASE UNCHANGED staged
    BY <1>0, <2>1, <2>3, RestStays
  <2>4. CASE Stage(p)
    <3>1. staged' \in Seq(Entry) /\ Len(staged') <= MaxStaged
      BY <1>0, <2>4, StagingKeeps
    <3>2. \A i \in DOMAIN staged' : Staged(staged'[i], p)
      BY <1>0, <2>4, StagingKeeps
    <3>3. \A i \in DOMAIN staged' : New(i)
      <4> TAKE i \in DOMAIN staged'
      <4>1. CASE \E j \in DOMAIN staged : staged'[i] = staged[j]
        BY <4>1
      <4>2. CASE staged'[i] = [pkg |-> p, isUpdate |-> row[AppOf[p]] # None]
        <5>1. staged'[i].pkg = p /\ staged'[i].isUpdate = (row[AppOf[p]] # None)
          BY <4>2
        <5>2. row'[AppOf[staged'[i].pkg]] = row[AppOf[p]]
          BY <2>1, <5>1
        <5> QED  BY <5>1, <5>2
      <4> QED  BY <3>2, <4>1, <4>2 DEF Staged
    <3>4. NothingLeft'
      BY <2>1, <3>3, LeftStep
    <3> QED  BY <1>0, <2>1, <3>1, <3>4 DEF RestTyped
  <2> QED  BY <2>2, <2>3, <2>4
<1>4. ASSUME NEW i \in DOMAIN staged,
             Discard(i) \/ \E h \in Handlers, p \in Packages : Confirm(h, p, i)
      PROVE  Done
  <2>1. /\ UNCHANGED <<row, kept, trusted, rough>> /\ staged' = RemoveAt(staged, i)
        /\ starts' \in 0 .. MaxStarts
        /\ approved' \in [AppIds -> SUBSET Permissions]
    BY <1>0, <1>1, <1>4, AppsAssumption DEF Confirm, Discard
  <2>2. /\ staged' \in Seq(Entry) /\ Len(staged') <= MaxStaged
        /\ \A k \in DOMAIN staged' : \E j \in DOMAIN staged : staged'[k] = staged[j]
    BY <1>0, <2>1, UnstagingKeeps
  <2>3. NothingLeft'
    BY <2>1, <2>2, LeftStep
  <2> QED  BY <1>0, <2>1, <2>2, <2>3 DEF RestTyped
<1>5. ASSUME NEW h \in Handlers,
             \/ \E a \in AppIds : RemoveApp(h, a)
             \/ StartUpdate(h) \/ DownloadFails(h)
             \/ ClearCode(h) \/ WriteFile(h) \/ RemoveCode(h)
      PROVE  Done
  <2>1. UNCHANGED <<kept, staged, trusted, approved, rough>> /\ starts' \in 0 .. MaxStarts
    BY <1>0, <1>1, <1>5
       DEF RemoveApp, StartUpdate, DownloadFails, ClearCode, WriteFile, RemoveCode
  <2> QED  BY <1>0, <2>1, RestStays
<1>6. ASSUME NEW h \in Handlers, CommitFails(h) \/ RemovalFails(h) \/ Record(h)
      PROVE  Done
  <2>1. /\ UNCHANGED <<kept, staged, trusted, approved, starts>>
        /\ Busy(job[h])
        /\ rough' \in {rough \cup {job[h].app}, rough \ {job[h].app}}
    BY <1>6 DEF CommitFails, RemovalFails, Record, Abandon, Complete, Busy
  <2> QED  BY <1>0, <1>2, <2>1, RestStays
<1>7. ASSUME NEW h \in Handlers, FinishRemoval(h)
      PROVE  Done
  <2>1. /\ UNCHANGED <<row, trusted, approved, starts>> /\ Busy(job[h])
        /\ kept' = kept \ {job[h].app} /\ staged' = StagedForOthers(job[h].app)
        /\ rough' \in {rough \cup {job[h].app}, rough \ {job[h].app}}
    BY <1>7 DEF FinishRemoval, Complete, Busy
  <2>2. /\ staged' \in Seq(Entry) /\ Len(staged') <= Len(staged)
        /\ \A i \in DOMAIN staged' : \E j \in DOMAIN staged : staged'[i] = staged[j]
    BY <1>0, <2>1, OthersStay
  <2>3. Len(staged') <= MaxStaged
    <3>1. Len(staged') \in Nat /\ Len(staged) \in Nat /\ MaxStaged \in Nat
      BY <1>0, <2>2, AppsAssumption
    <3> QED  BY <1>0, <2>2, <3>1
  <2>4. NothingLeft'
    BY <2>1, <2>2, LeftStep
  <2> QED  BY <1>0, <1>2, <2>1, <2>2, <2>3, <2>4 DEF RestTyped
<1>8. ASSUME Restart PROVE Done
  <2>1. /\ UNCHANGED <<row, kept, trusted, approved, starts>> /\ staged' = <<>>
        /\ rough' \subseteq AppIds
    BY <1>0, <1>8 DEF Restart
  <2>2. staged' \in Seq(Entry) /\ Len(staged') <= MaxStaged /\ DOMAIN staged' = {}
    BY <2>1, AppsAssumption
  <2>3. NothingLeft'
    BY <2>1, <2>2, LeftStep
  <2> QED  BY <1>0, <2>1, <2>2, <2>3 DEF RestTyped
<1>9. ASSUME NEW a \in AppIds, Acquire(a) \/ \E on \in BOOLEAN : Trust(a, on)
      PROVE  Done
  <2>1. /\ UNCHANGED <<row, staged, approved, rough, starts>> /\ row[a] # None
        /\ kept' \in {kept, kept \cup {a}} /\ trusted' \subseteq Publishers
    <3>1. CASE Acquire(a)
      BY <1>0, <3>1 DEF Acquire
    <3>2. CASE \E on \in BOOLEAN : Trust(a, on)
      <4>1. row[a] \in Packages /\ Publisher[row[a]] # None
        BY <1>0, <3>2 DEF Trust
      <4>2. Publisher[row[a]] \in Publishers
        BY <4>1 DEF Publishers
      <4> QED  BY <1>0, <3>2, <4>2 DEF Trust
    <3> QED  BY <1>9, <3>1, <3>2
  <2>2. \A b \in AppIds : b \in kept' => b \in kept \/ row'[b] # None
    BY <2>1
  <2>3. \A i \in DOMAIN staged' : \E j \in DOMAIN staged : staged'[i] = staged[j]
    BY <2>1
  <2>4. NothingLeft'
    BY <2>2, <2>3, LeftStep
  <2> QED  BY <1>0, <2>1, <2>4 DEF RestTyped
<1>10. ASSUME UNCHANGED vars PROVE Done
  <2>1. /\ UNCHANGED <<kept, staged>> /\ UNCHANGED <<trusted, approved>>
        /\ rough' \subseteq AppIds /\ starts' \in 0 .. MaxStarts
    BY <1>0, <1>10 DEF vars
  <2> QED  BY <2>1, RestStays
<1>11. Done
  BY <1>3, <1>4, <1>5, <1>6, <1>7, <1>8, <1>9, <1>10 DEF Next
<1> QED  BY <1>0, <1>11, StepCode DEF RecordInv

\* commitPackage and removeApp, with what they leave to the tables of tasks, grants
\* and access lists and to the staging area: whatever changes overlapped or failed
\* before, an app whose last change did not is what its row says, nothing speaks of
\* one that is gone, and no more packages wait for approval than MAX_STAGED.
THEOREM AppsStayAsRecorded == Spec => []AppsAsRecorded
<1>1. Init => RecordInv
  <2> SUFFICES ASSUME Init PROVE RecordInv
    OBVIOUS
  <2>1. CodeTyped
    BY NoFilesTyped DEF Init, CodeTyped, Job
  <2>2. CodeInv
    BY <2>1 DEF Init, CodeInv, Busy, Idle, CodeIsOfRow, InOrder, NoFiles
  <2>3. RestTyped
    BY AppsAssumption DEF Init, RestTyped
  <2>4. NothingLeft
    BY DEF Init, NothingLeft
  <2> QED  BY <2>2, <2>3, <2>4 DEF RecordInv
<1>2. RecordInv => AppsAsRecorded
  BY DEF RecordInv, CodeInv, CodeTyped, RestTyped, AppsAsRecorded, TypeOK
<1> QED  BY <1>1, <1>2, RecordedStep, PTL DEF Spec

=============================================================================
