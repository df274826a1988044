--------------------------- MODULE AppTasksProofs ---------------------------
(***************************************************************************)
(* For any tasks, apps and intervals: no task is in a batch twice, and     *)
(* none is armed later than its interval.  BatchesInStep alone is not      *)
(* inductive: a run arms the row it was read from, long afterwards, with   *)
(* the interval it had then.  What is carried along is that an entry that  *)
(* counts as live still has its row (LiveHasRow), so that completeRun      *)
(* never arms a row that is gone.                                          *)
(***************************************************************************)
EXTENDS AppTasks, FiniteSetTheorems, SequenceTheorems, TLAPS

LiveHasRow == \A i \in DOMAIN batch : batch[i].live => row[batch[i].task] \in Row

IInv == BatchesInStep /\ LiveHasRow

-----------------------------------------------------------------------------
(* The operators *)

\* upsertTask leaves a row that waits at most its own interval, whatever it was.
LEMMA UpsertedWaits ==
    ASSUME TypeOK, NEW t \in Tasks, NEW every \in Intervals, NEW kind \in Kinds,
           NEW enabled \in BOOLEAN, Has(t) => row[t].due <= row[t].every \/ t \in overtaken
    PROVE  LET r == Upserted(t, every, kind, enabled) IN
           /\ r \in Row /\ r.every = every
           /\ \/ r.due <= every
              \/ Has(t) /\ row[t].every = every /\ t \in overtaken
<1>1. Has(t) => row[t] \in Row
  BY DEF TypeOK, Has
<1> QED  BY <1>1, AppTasksAssumption DEF Upserted, Row, Has

\* What is due is read at most once each, and no more of it than the limit.
LEMMA DueTasksDistinct ==
    ASSUME NEW rows, NEW s \in DueTasks(rows)
    PROVE  /\ s \in Seq(Tasks) /\ Len(s) <= Limit
           /\ \A i \in DOMAIN s : rows[s[i]] # None
           /\ \A i, j \in DOMAIN s : i # j => s[i] # s[j]
<1> DEFINE due == {t \in Tasks : rows[t] # None /\ rows[t].enabled /\ rows[t].due <= 0}
           n == IF Cardinality(due) < Limit THEN Cardinality(due) ELSE Limit
<1>1. IsFiniteSet(due) /\ Cardinality(due) \in Nat
  BY FS_Subset, FS_CardinalityType, AppTasksAssumption
<1>2. n \in Nat /\ n <= Limit
  BY <1>1, AppTasksAssumption
<1>3. s \in [1 .. n -> due] /\ \A i, j \in 1 .. n : i < j => s[i] # s[j]
  BY DEF DueTasks
<1>4. s \in Seq(Tasks) /\ Len(s) = n /\ DOMAIN s = 1 .. n
  BY <1>2, <1>3
<1>5. \A i, j \in 1 .. n : i # j => s[i] # s[j]
  <2> TAKE i, j \in 1 .. n
  <2> HAVE i # j
  <2>1. i < j \/ j < i
    BY <1>2
  <2> QED  BY <1>3, <2>1
<1> QED  BY <1>2, <1>3, <1>4, <1>5

\* A minute later no row waits longer, and no row has come or gone.
LEMMA LaterKeepsRows ==
    ASSUME TypeOK
    PROVE  /\ Later \in [Tasks -> Row \cup {None}]
           /\ \A t \in Tasks :
                 /\ ~Has(t) => Later[t] = None
                 /\ Has(t) => /\ Later[t] \in Row /\ Later[t].every = row[t].every
                              /\ Later[t].due <= row[t].due \/ Later[t].due <= 0
<1> DEFINE left == [t \in {u \in Tasks : Has(u)} |-> row[t].due - 1]
           Late(n) == -Cardinality({left[u] : u \in {v \in DOMAIN left :
                                                 n < left[v] /\ left[v] <= 0}})
<1>1. \A n : Late(n) \in Int /\ Late(n) <= 0
  <2> TAKE n
  <2> DEFINE V == {v \in DOMAIN left : n < left[v] /\ left[v] <= 0}
  <2>1. IsFiniteSet(V)
    BY FS_Subset, AppTasksAssumption
  <2> DEFINE W == {left[u] : u \in V}
  <2> DEFINE f == [u \in V |-> left[u]]
  <2>2. f \in Surjection(V, W)
    BY DEF Surjection
  <2>3. IsFiniteSet(W)
    <3> HIDE DEF V, W, f
    <3> QED  BY <2>1, <2>2, FS_Surjection
  <2>4. Cardinality(W) \in Nat
    BY <2>3, FS_CardinalityType
  <2> QED  BY <2>4
<1>2. Later = [t \in Tasks |->
           IF Has(t) THEN [row[t] EXCEPT !.due =
                             IF left[t] > 0 THEN left[t] ELSE Late(left[t])]
                     ELSE None]
  BY DEF Later
<1>3. ASSUME NEW t \in Tasks, Has(t)
      PROVE  /\ Later[t] \in Row /\ Later[t].every = row[t].every
             /\ Later[t].due <= row[t].due \/ Later[t].due <= 0
  <2>1. row[t] \in Row
    BY <1>3 DEF TypeOK, Has
  <2>2. left[t] = row[t].due - 1 /\ left[t] \in Int
    BY <1>3, <2>1 DEF Row
  <2> HIDE DEF left, Late
  <2> DEFINE d == IF left[t] > 0 THEN left[t] ELSE Late(left[t])
  <2>3. d \in Int /\ (d <= row[t].due \/ d <= 0)
    BY <1>1, <2>1, <2>2 DEF Row
  <2>4. Later[t] = [row[t] EXCEPT !.due = d]
    BY <1>2, <1>3
  <2> HIDE DEF d
  <2> QED  BY <2>1, <2>3, <2>4 DEF Row
<1> QED  BY <1>2, <1>3

-----------------------------------------------------------------------------
(* What several actions do *)

\* Rows go, and the entries read from them are live no more.
LEMMA DeletingKeeps ==
    ASSUME IInv, NEW ts \in SUBSET Tasks, DeleteTasks(ts),
           app' \in [Apps -> App], leaving' \subseteq Apps, fetching' = fetching
    PROVE  IInv'
<1>1. row' \in [Tasks -> Row \cup {None}] /\ overtaken' \subseteq Tasks
  BY DEF IInv, BatchesInStep, TypeOK, DeleteTasks
<1>2. batch \in Seq(Entry) /\ Len(batch) <= Limit
  BY DEF IInv, BatchesInStep, TypeOK
<1>3. /\ DOMAIN batch' = DOMAIN batch
      /\ \A i \in DOMAIN batch : /\ batch'[i] \in Entry /\ batch'[i].task = batch[i].task
                                 /\ batch'[i].live => batch[i].live /\ batch[i].task \notin ts
  <2>1. batch' = [i \in DOMAIN batch |->
                    IF batch[i].task \in ts THEN [batch[i] EXCEPT !.live = FALSE]
                                            ELSE batch[i]]
    BY DEF DeleteTasks
  <2>2. \A i \in DOMAIN batch : batch[i] \in Entry
    BY <1>2
  <2> QED  BY <2>1, <2>2 DEF Entry
<1>4. batch' \in Seq(Entry) /\ Len(batch') = Len(batch)
  BY <1>2, <1>3 DEF DeleteTasks
<1>5. TypeOK'
  BY <1>1, <1>2, <1>3, <1>4 DEF IInv, BatchesInStep, TypeOK
<1>6. NoDoubleRun'
  BY <1>3 DEF IInv, BatchesInStep, NoDoubleRun
<1>7. ArmedWithinInterval'
  BY DEF IInv, BatchesInStep, ArmedWithinInterval, DeleteTasks, Has
<1>8. LiveHasRow'
  BY <1>2, <1>3 DEF IInv, LiveHasRow, DeleteTasks, Entry
<1> QED  BY <1>5, <1>6, <1>7, <1>8 DEF IInv, BatchesInStep

\* The head of the batch is done with.
LEMMA HeadAndTail ==
    ASSUME IInv, batch # <<>>
    PROVE  /\ Next1 = batch[1] /\ Next1 \in Entry /\ 1 \in DOMAIN batch
           /\ Tail(batch) \in Seq(Entry) /\ Len(Tail(batch)) <= Limit
           /\ \A i \in DOMAIN Tail(batch) :
                 /\ i + 1 \in DOMAIN batch /\ i + 1 # 1
                 /\ Tail(batch)[i] = batch[i + 1] /\ Tail(batch)[i] \in Entry
           /\ \A i, j \in DOMAIN Tail(batch) :
                 i # j => Tail(batch)[i].task # Tail(batch)[j].task
<1>1. batch \in Seq(Entry) /\ Len(batch) <= Limit /\ NoDoubleRun
  BY DEF IInv, BatchesInStep, TypeOK
<1>2. /\ Next1 = batch[1] /\ Next1 \in Entry /\ 1 \in DOMAIN batch
      /\ Tail(batch) \in Seq(Entry) /\ Len(Tail(batch)) = Len(batch) - 1
      /\ \A i \in DOMAIN Tail(batch) :
            /\ i + 1 \in DOMAIN batch /\ i + 1 # 1
            /\ Tail(batch)[i] = batch[i + 1] /\ Tail(batch)[i] \in Entry
  BY <1>1 DEF Next1
<1>3. Len(Tail(batch)) <= Limit
  BY <1>1, <1>2, AppTasksAssumption
<1>4. ASSUME NEW i \in DOMAIN Tail(batch), NEW j \in DOMAIN Tail(batch), i # j
      PROVE  Tail(batch)[i].task # Tail(batch)[j].task
  <2>1. i + 1 # j + 1
    BY <1>4, <1>2
  <2> QED  BY <1>1, <1>2, <2>1 DEF NoDoubleRun
<1> QED  BY <1>2, <1>3, <1>4

LEMMA CompletingKeeps ==
    ASSUME IInv, batch # <<>>, CompleteRun
    PROVE  IInv'
<1> DEFINE t == Next1.task
<1>1. t \in Tasks /\ Next1.every \in Intervals /\ Next1.live \in BOOLEAN
      /\ (Next1.live => row[t] \in Row)
  BY HeadAndTail DEF Entry, IInv, LiveHasRow
<1>2. /\ row' \in [Tasks -> Row \cup {None}] /\ overtaken' \subseteq Tasks
      /\ \A u \in Tasks : u # t => row'[u] = row[u] /\ (u \in overtaken => u \in overtaken')
      /\ row[t] \in Row => row'[t] \in Row
      /\ ArmedWithinInterval'
  <2>1. row \in [Tasks -> Row \cup {None}] /\ overtaken \subseteq Tasks /\ ArmedWithinInterval
    BY DEF IInv, BatchesInStep, TypeOK
  <2>2. CASE ~Next1.live
    BY <2>1, <2>2 DEF CompleteRun, ArmedWithinInterval, Has
  <2>3. CASE Next1.live
    <3>1. row' = [row EXCEPT ![t] = [row[t] EXCEPT !.due = Next1.every]]
      BY <2>1, <2>3, <1>1 DEF CompleteRun, Armed
    <3>2. /\ row'[t] \in Row /\ row'[t].due = Next1.every /\ row'[t].every = row[t].every
      BY <3>1, <2>1, <2>3, <1>1, AppTasksAssumption DEF Row
    <3>3. overtaken' = IF row[t].every = Next1.every THEN overtaken \ {t}
                                                     ELSE overtaken \cup {t}
      BY <2>3 DEF CompleteRun
    <3>4. \A u \in Tasks : u # t => row'[u] = row[u] /\ (u \in overtaken <=> u \in overtaken')
      BY <3>1, <3>3, <2>1
    <3>5. row'[t].due <= row'[t].every \/ t \in overtaken'
      <4>1. Next1.every \in Nat
        BY <1>1, AppTasksAssumption
      <4>2. CASE row[t].every = Next1.every
        BY <4>1, <4>2, <3>2
      <4>3. CASE row[t].every # Next1.every
        BY <4>3, <3>3
      <4> QED  BY <4>2, <4>3
    <3>6. ArmedWithinInterval'
      BY <3>4, <3>5, <2>1 DEF ArmedWithinInterval, Has
    <3>7. row' \in [Tasks -> Row \cup {None}]
      BY <3>1, <3>2, <2>1
    <3>8. overtaken' \subseteq Tasks
      BY <3>3, <1>1, <2>1
    <3> QED  BY <3>2, <3>4, <3>6, <3>7, <3>8
  <2> QED  BY <2>2, <2>3
<1>3. TypeOK'
  BY <1>2, HeadAndTail DEF IInv, BatchesInStep, TypeOK, CompleteRun
<1>4. NoDoubleRun'
  BY HeadAndTail DEF CompleteRun, NoDoubleRun
<1>5. LiveHasRow'
  <2> SUFFICES ASSUME NEW i \in DOMAIN batch', batch'[i].live
               PROVE  row'[batch'[i].task] \in Row
    BY DEF LiveHasRow
  <2>1. /\ i + 1 \in DOMAIN batch /\ batch'[i] = batch[i + 1] /\ batch[i + 1] \in Entry
        /\ row[batch'[i].task] \in Row
    BY HeadAndTail DEF CompleteRun, IInv, LiveHasRow
  <2> QED  BY <2>1, <1>2 DEF Entry
<1> QED  BY <1>2, <1>3, <1>4, <1>5 DEF IInv, BatchesInStep

-----------------------------------------------------------------------------
(* The actions *)

LEMMA InitKeeps == Init => IInv
<1> SUFFICES ASSUME Init
             PROVE  IInv
  OBVIOUS
<1>1. batch \in Seq(Entry) /\ Len(batch) = 0 /\ DOMAIN batch = {}
  BY DEF Init
<1>2. app \in [Apps -> App] /\ row \in [Tasks -> Row \cup {None}]
  BY DEF Init, App
<1>3. TypeOK
  <2>1. Len(batch) <= Limit
    BY <1>1, AppTasksAssumption
  <2>2. leaving \subseteq Apps /\ overtaken \subseteq Tasks /\ fetching = FALSE
    BY DEF Init
  <2> QED  BY <1>1, <1>2, <2>1, <2>2 DEF TypeOK
<1>4. NoDoubleRun /\ ArmedWithinInterval /\ LiveHasRow
  BY <1>1 DEF Init, NoDoubleRun, ArmedWithinInterval, LiveHasRow, Has
<1> QED  BY <1>3, <1>4 DEF IInv, BatchesInStep

LEMMA RegisterKeeps ==
    ASSUME IInv, NEW t \in Tasks, NEW every \in Intervals, NEW kind \in Kinds,
           NEW enabled \in BOOLEAN, Register(t, every, kind, enabled)
    PROVE  IInv'
<1> DEFINE r == Upserted(t, every, kind, enabled)
<1>1. TypeOK /\ NoDoubleRun /\ ArmedWithinInterval /\ LiveHasRow
  BY DEF IInv, BatchesInStep
<1>2. /\ r \in Row /\ r.every = every
      /\ r.due <= every \/ (Has(t) /\ row[t].every = every /\ t \in overtaken)
  BY <1>1, UpsertedWaits DEF ArmedWithinInterval
<1>3. /\ row' = [row EXCEPT ![t] = r]
      /\ overtaken' = IF Has(t) /\ row[t].every = every THEN overtaken ELSE overtaken \ {t}
      /\ UNCHANGED <<app, leaving, batch, fetching>>
  BY DEF Register
<1> HIDE DEF r
<1>4. TypeOK'
  BY <1>1, <1>2, <1>3 DEF TypeOK
<1>5. NoDoubleRun'
  BY <1>1, <1>3 DEF NoDoubleRun
<1>6. ArmedWithinInterval'
  BY <1>1, <1>2, <1>3 DEF ArmedWithinInterval, Has, TypeOK
<1>7. LiveHasRow'
  BY <1>1, <1>2, <1>3 DEF LiveHasRow, TypeOK
<1> QED  BY <1>4, <1>5, <1>6, <1>7 DEF IInv, BatchesInStep

\* What administrators do to the apps touches no row and no batch.
LEMMA AppsKeep ==
    ASSUME IInv, UNCHANGED <<row, batch, fetching, overtaken>>,
           app' \in [Apps -> App], leaving' \subseteq Apps
    PROVE  IInv'
BY DEF IInv, BatchesInStep, TypeOK, NoDoubleRun, ArmedWithinInterval, LiveHasRow, Has

LEMMA AdministratorKeeps ==
    ASSUME IInv, NEW a \in Apps,
           \/ \E able \in BOOLEAN : CommitPackage(a, able)
           \/ \E enabled \in BOOLEAN : SetEnabled(a, enabled)
           \/ RemoveApp(a) \/ FinishRemoval(a) \/ RemovalFails(a)
    PROVE  IInv'
<1>1. app \in [Apps -> App] /\ leaving \subseteq Apps
  BY DEF IInv, BatchesInStep, TypeOK
<1>2. ASSUME NEW able \in BOOLEAN, CommitPackage(a, able)
      PROVE  IInv'
  <2>1. app' \in [Apps -> App]
    BY <1>1, <1>2 DEF CommitPackage, App
  <2> QED  BY <1>1, <1>2, <2>1, AppsKeep DEF CommitPackage
<1>3. ASSUME NEW enabled \in BOOLEAN, SetEnabled(a, enabled)
      PROVE  IInv'
  <2>1. app' \in [Apps -> App]
    BY <1>1, <1>3 DEF SetEnabled, App
  <2> QED  BY <1>1, <1>3, <2>1, AppsKeep DEF SetEnabled
<1>4. CASE RemoveApp(a)
  <2>1. app' \in [Apps -> App] /\ leaving' \subseteq Apps
    BY <1>1, <1>4 DEF RemoveApp, App
  <2> QED  BY <1>4, <2>1, AppsKeep DEF RemoveApp
<1>5. CASE FinishRemoval(a)
  BY <1>1, <1>5, DeletingKeeps DEF FinishRemoval, TasksOf
<1>6. CASE RemovalFails(a)
  BY <1>1, <1>6, AppsKeep DEF RemovalFails
<1> QED  BY <1>2, <1>3, <1>4, <1>5, <1>6

LEMMA UnregisterKeeps ==
    ASSUME IInv, NEW t \in Tasks, Unregister(t)
    PROVE  IInv'
BY DeletingKeeps DEF Unregister, IInv, BatchesInStep, TypeOK

LEMMA MinuteKeeps ==
    ASSUME IInv, Minute
    PROVE  IInv'
<1>1. TypeOK /\ NoDoubleRun /\ ArmedWithinInterval /\ LiveHasRow
  BY DEF IInv, BatchesInStep
<1>2. row' = Later /\ UNCHANGED <<app, leaving, fetching, overtaken>>
  BY DEF Minute
<1>3. ArmedWithinInterval'
  <2> SUFFICES ASSUME NEW t \in Tasks, Has(t)'
               PROVE  row'[t].due <= row'[t].every \/ t \in overtaken
    BY <1>2 DEF ArmedWithinInterval
  <2>1. Has(t) /\ row[t] \in Row
    BY <1>1, <1>2, LaterKeepsRows DEF Has, TypeOK
  <2>2. /\ row'[t] \in Row /\ row'[t].every = row[t].every
        /\ row'[t].due <= row[t].due \/ row'[t].due <= 0
    BY <1>1, <1>2, <2>1, LaterKeepsRows
  <2>3. row[t].due <= row[t].every \/ t \in overtaken
    BY <1>1, <2>1 DEF ArmedWithinInterval
  <2>4. row[t].due \in Int /\ row'[t].due \in Int /\ row[t].every \in Nat
    BY <2>1, <2>2, AppTasksAssumption DEF Row
  <2> QED  BY <2>2, <2>3, <2>4, AppTasksAssumption
<1>4. CASE batch # <<>>
  <2>1. batch' = batch
    BY <1>4 DEF Minute
  <2>2. TypeOK'
    BY <1>1, <1>2, <2>1, LaterKeepsRows DEF TypeOK
  <2>3. LiveHasRow'
    <3>1. \A i \in DOMAIN batch : batch[i].task \in Tasks
      <4>1. batch \in Seq(Entry)
        BY <1>1 DEF TypeOK
      <4>2. \A i \in DOMAIN batch : batch[i] \in Entry
        BY <4>1
      <4> QED  BY <4>2 DEF Entry
    <3>2. \A t \in Tasks : row[t] \in Row => row'[t] \in Row
      <4> SUFFICES ASSUME NEW t \in Tasks, row[t] \in Row
                   PROVE  row'[t] \in Row
        OBVIOUS
      <4>1. CASE Has(t)
        BY <1>1, <1>2, <4>1, LaterKeepsRows
      <4>2. CASE ~Has(t)
        <5>1. row'[t] = None
          BY <1>1, <1>2, <4>2, LaterKeepsRows
        <5> QED  BY <4>2, <5>1 DEF Has
      <4> QED  BY <4>1, <4>2
    <3> QED  BY <1>1, <2>1, <3>1, <3>2 DEF LiveHasRow
  <2> QED  BY <1>1, <1>3, <2>1, <2>2, <2>3 DEF IInv, BatchesInStep, NoDoubleRun
<1>5. CASE batch = <<>>
  <2>1. PICK s \in DueTasks(row') : batch' = [i \in DOMAIN s |-> Read(s[i])]
    BY <1>5 DEF Minute
  <2>2. /\ s \in Seq(Tasks) /\ Len(s) <= Limit
        /\ \A i \in DOMAIN s : row'[s[i]] # None
        /\ \A i, j \in DOMAIN s : i # j => s[i] # s[j]
    BY DueTasksDistinct
  <2>3. ASSUME NEW i \in DOMAIN s
        PROVE  /\ s[i] \in Tasks /\ Read(s[i]) \in Entry /\ Read(s[i]).task = s[i]
               /\ row'[s[i]] \in Row
    <3>1. s[i] \in Tasks /\ row'[s[i]] # None
      BY <2>2
    <3>2. Has(s[i]) /\ row[s[i]] \in Row /\ row'[s[i]] \in Row
      BY <3>1, <1>1, <1>2, LaterKeepsRows DEF Has, TypeOK
    <3> QED  BY <3>1, <3>2 DEF Read, Entry, Row
  <2>4. /\ batch' \in Seq(Entry) /\ Len(batch') = Len(s) /\ DOMAIN batch' = DOMAIN s
        /\ \A i \in DOMAIN s : batch'[i].task = s[i]
    BY <2>1, <2>2, <2>3
  <2>5. TypeOK'
    BY <1>1, <1>2, <1>5, <2>2, <2>4, LaterKeepsRows DEF TypeOK
  <2>6. NoDoubleRun' /\ LiveHasRow'
    BY <2>2, <2>3, <2>4 DEF NoDoubleRun, LiveHasRow
  <2> QED  BY <1>3, <2>5, <2>6 DEF IInv, BatchesInStep
<1> QED  BY <1>4, <1>5

LEMMA OrphansKeep ==
    ASSUME IInv, DropOrphans
    PROVE  IInv'
<1> DEFINE gone == TasksOf(AppOf[Next1.task])
           rest == Tail(batch)
<1>1. TypeOK /\ NoDoubleRun /\ ArmedWithinInterval /\ LiveHasRow
  BY DEF IInv, BatchesInStep
<1>2. batch # <<>>
  BY DEF DropOrphans
<1>3. /\ row' = [t \in Tasks |-> IF t \in gone THEN None ELSE row[t]]
      /\ batch' = [i \in DOMAIN rest |-> [rest[i] EXCEPT !.live = @ /\ rest[i].task \notin gone]]
      /\ overtaken' = overtaken \ gone
      /\ UNCHANGED <<app, leaving, fetching>> /\ ~fetching
  BY DEF DropOrphans
<1> HIDE DEF gone
<1>4. /\ DOMAIN batch' = DOMAIN rest
      /\ \A i \in DOMAIN rest :
            /\ batch'[i] \in Entry /\ batch'[i].task = batch[i + 1].task
            /\ i + 1 \in DOMAIN batch /\ batch[i + 1] \in Entry
            /\ batch'[i].live => batch[i + 1].live /\ batch[i + 1].task \notin gone
  BY <1>2, <1>3, HeadAndTail DEF Entry
<1>5. batch' \in Seq(Entry) /\ Len(batch') <= Limit
  <2>1. rest \in Seq(Entry) /\ Len(rest) <= Limit
    BY <1>2, HeadAndTail
  <2> QED  BY <1>3, <1>4, <2>1
<1>6. TypeOK'
  BY <1>1, <1>3, <1>5 DEF TypeOK
<1>7. NoDoubleRun'
  BY <1>2, <1>4, HeadAndTail DEF NoDoubleRun
<1>8. ArmedWithinInterval'
  BY <1>1, <1>3 DEF ArmedWithinInterval, Has
<1>9. LiveHasRow'
  BY <1>1, <1>3, <1>4 DEF LiveHasRow, Entry
<1> QED  BY <1>6, <1>7, <1>8, <1>9 DEF IInv, BatchesInStep

LEMMA PerformKeeps ==
    ASSUME IInv, Perform
    PROVE  IInv'
<1>1. CASE DropOrphans
  BY <1>1, OrphansKeep
<1>2. CASE RefuseRun \/ Notify
  BY <1>2, CompletingKeeps DEF RefuseRun, Notify
<1>3. CASE StartFetch
  BY <1>3 DEF StartFetch, IInv, BatchesInStep, TypeOK, NoDoubleRun, ArmedWithinInterval,
              LiveHasRow, Has
<1>4. CASE EndFetch
  BY <1>4, CompletingKeeps DEF EndFetch, IInv, BatchesInStep, TypeOK
<1> QED  BY <1>1, <1>2, <1>3, <1>4 DEF Perform

LEMMA RestartKeeps ==
    ASSUME IInv, Restart
    PROVE  IInv'
<1>1. batch' \in Seq(Entry) /\ Len(batch') = 0 /\ DOMAIN batch' = {}
  BY DEF Restart
<1>2. Len(batch') <= Limit
  BY <1>1, AppTasksAssumption
<1>3. TypeOK'
  BY <1>1, <1>2 DEF Restart, IInv, BatchesInStep, TypeOK
<1>4. NoDoubleRun' /\ ArmedWithinInterval' /\ LiveHasRow'
  BY <1>1 DEF Restart, IInv, BatchesInStep, NoDoubleRun, ArmedWithinInterval, LiveHasRow, Has
<1> QED  BY <1>3, <1>4 DEF IInv, BatchesInStep

LEMMA StepKeeps == IInv /\ [Next]_vars => IInv'
<1> SUFFICES ASSUME IInv, [Next]_vars
             PROVE  IInv'
  OBVIOUS
<1>1. CASE UNCHANGED vars
  BY <1>1 DEF vars, IInv, BatchesInStep, TypeOK, NoDoubleRun, ArmedWithinInterval,
              LiveHasRow, Has
<1>2. CASE Next
  <2>1. ASSUME NEW t \in Tasks, NEW every \in Intervals, NEW kind \in Kinds,
               NEW enabled \in BOOLEAN, Register(t, every, kind, enabled)
        PROVE  IInv'
    BY <2>1, RegisterKeeps
  <2>2. ASSUME NEW t \in Tasks, Unregister(t)
        PROVE  IInv'
    BY <2>2, UnregisterKeeps
  <2>3. ASSUME NEW a \in Apps,
               \/ \E able \in BOOLEAN : CommitPackage(a, able)
               \/ \E enabled \in BOOLEAN : SetEnabled(a, enabled)
               \/ RemoveApp(a) \/ FinishRemoval(a) \/ RemovalFails(a)
        PROVE  IInv'
    BY <2>3, AdministratorKeeps
  <2>4. CASE Minute
    BY <2>4, MinuteKeeps
  <2>5. CASE Perform
    BY <2>5, PerformKeeps
  <2>6. CASE Restart
    BY <2>6, RestartKeeps
  <2> QED  BY <1>2, <2>1, <2>2, <2>3, <2>4, <2>5, <2>6 DEF Next, Perform
<1> QED  BY <1>1, <1>2

\* For any tasks, apps, intervals and limits, and however long a batch takes: no
\* task is performed twice at once, and none is armed later than its interval
\* (the scheduler's "running", upsertTask and completeRun).
THEOREM BatchesStayInStep == FairSpec => []BatchesInStep
<1>1. IInv => BatchesInStep
  BY DEF IInv
<1> QED  BY <1>1, InitKeeps, StepKeeps, PTL DEF FairSpec
=============================================================================
