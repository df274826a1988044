---------------------------- MODULE SharingProofs ----------------------------
(***************************************************************************)
(* That what is granted is what is served, for every value of the          *)
(* constants.  All three invariants speak of a moment with no handler in   *)
(* flight; what makes them inductive says the same of the moments before:  *)
(* that whatever is not yet as it should be is still to be done.           *)
(*                                                                         *)
(* Files and daemons (RowsAreServed), however handlers overlap: a write of *)
(* the files is still to come (FilesInHand), every write is followed by    *)
(* reloads, and a daemon that is behind is going to be told by a handler   *)
(* that cannot give up before (ReloadsInHand).                             *)
(*                                                                         *)
(* Services, accounts and groups (ServicesAsConfigured,                    *)
(* ReachableIsGranted), when handlers come one at a time: what is to be    *)
(* done is what the rows say (Consistent), what a command needs is there   *)
(* when its turn comes (Ready), and each difference between the rows and   *)
(* the system has its command ahead (ServicesInHand, AccountsInHand,       *)
(* GroupsInHand).  A deletion of an account takes no part in this with the *)
(* files: until they are written next, ReachableIsGranted says nothing.    *)
(***************************************************************************)
EXTENDS Sharing, SequenceTheorems, FiniteSetTheorems, TLAPS

-----------------------------------------------------------------------------
(* What handlers have to do *)

AccountOps == {"hash", "makeUser", "setPassword", "dropPassword", "dropUser"}
GroupOps   == {"makeGroup", "readGroup", "join", "leave", "dropGroup"}
FolderOps  == {"mkdir", "quota"}
ServiceOps == {"bootAdd", "bootDel", "start", "stop"}
FileOps    == {"write", "reload"}

Ops == AccountOps \cup GroupOps \cup FolderOps \cup ServiceOps \cup FileOps

Step ==
    {x \in [op : Ops, on : Users \cup Groups \cup Shares \cup Units \cup {None},
            who : SUBSET Users] :
        /\ x.op \in AccountOps => x.on \in Users
        /\ x.op \in GroupOps => x.on \in Groups
        /\ x.op \in ServiceOps \cup {"reload"} => x.on \in Units}

\* A handler is about accounts, about groups, about folders or about services.
OneKind(s) ==
    \E kind \in {AccountOps, GroupOps, FolderOps, ServiceOps} :
        \A i \in DOMAIN s : s[i].op \in kind \cup FileOps

\* A folder is made before anything else, and what is written is then reloaded.
Orderly(s) ==
    \A i \in DOMAIN s :
        /\ s[i].op = "mkdir" => i = 1
        /\ s[i].op = "write" =>
              \A u \in Units : \E j \in DOMAIN s :
                  i < j /\ s[j].op = "reload" /\ s[j].on = u

Program == {s \in Seq(Step) : OneKind(s) /\ Orderly(s)}

Shape == TypeOK /\ todo \in [Procs -> Program]

\* One of these commands is to be run on this.
Has(s, ops, on) == \E i \in DOMAIN s : s[i].op \in ops /\ s[i].on = on
Ahead(ops, on)  == \E p \in Procs : Has(todo[p], ops, on)

-----------------------------------------------------------------------------
(* Files and daemons *)

FilesInHand ==
    \/ unwritten \/ file = Generated(shares)
    \/ \E p \in Procs : \E i \in DOMAIN todo[p] : todo[p][i].op = "write"

\* Told by a handler that has no folder left to make, which could end it.
ToBeTold(u) ==
    \E p \in Procs :
        /\ \E i \in DOMAIN todo[p] : todo[p][i].op = "reload" /\ todo[p][i].on = u
        /\ \A i \in DOMAIN todo[p] : todo[p][i].op # "mkdir"

ReloadsInHand ==
    \A u \in Units \ unserved : loaded[u] \in {None, file[u]} \/ ToBeTold(u)

ServedInv == Shape /\ FilesInHand /\ ReloadsInHand

-----------------------------------------------------------------------------
(* Services, accounts and groups *)

\* The rows refer to rows there are.
RowsAgree ==
    /\ \A g \in Groups : groups[g] # None => groups[g] \subseteq users
    /\ \A s \in Shares : shares[s] # None =>
          \A g \in shares[s].teams : groups[g] # None

OneAtATime == \A p, q \in Procs : todo[p] # <<>> /\ todo[q] # <<>> => p = q

Consistent(x) ==
    /\ x.op \in {"makeUser", "setPassword"} => x.on \in users
    /\ x.op \in {"dropUser", "dropPassword"} => x.on \notin users
    /\ x.op \in {"bootAdd", "start"} => x.on \in enabled
    /\ x.op \in {"bootDel", "stop"} => x.on \notin enabled
    /\ x.op = "dropGroup" => groups[x.on] = None
    /\ x.op = "readGroup" => groups[x.on] = x.who
    /\ x.op = "join" => groups[x.on] # None /\ x.who \subseteq groups[x.on]
    /\ x.op = "leave" => groups[x.on] # None /\ x.who \cap groups[x.on] = {}

Before(s, i, op) == \E j \in DOMAIN s : j < i /\ s[j].op = op /\ s[j].on = s[i].on

Ready(s, i) ==
    /\ s[i].op = "setPassword" => s[i].on \in sysUsers \/ Before(s, i, "makeUser")
    /\ s[i].op \in {"readGroup", "join", "leave"} =>
          sysGroups[s[i].on] # None \/ Before(s, i, "makeGroup")

StepsInOrder ==
    /\ OneAtATime
    /\ \A p \in Procs : \A i \in DOMAIN todo[p] :
          Consistent(todo[p][i]) /\ Ready(todo[p], i)

ServicesInHand ==
    \A u \in Units :
        /\ (u \in boot <=> u \in enabled) \/ Ahead({"bootAdd", "bootDel"}, u)
        /\ (loaded[u] # None <=> u \in enabled) \/ Ahead({"start", "stop"}, u)

AccountsInHand ==
    \A u \in Users :
        /\ (u \in sysUsers <=> u \in users) \/ Ahead({"makeUser", "dropUser"}, u)
        /\ (u \in passdb <=> u \in users) \/ Ahead({"setPassword", "dropPassword"}, u)

\* One member is to join or to leave.
Moving(g, u) ==
    \E p \in Procs : \E i \in DOMAIN todo[p] :
        /\ todo[p][i].op \in {"join", "leave"}
        /\ todo[p][i].on = g /\ todo[p][i].who = {u}

GroupsInHand ==
    \A g \in Groups : groups[g] # None =>
        /\ sysGroups[g] = None => Ahead({"makeGroup"}, g) /\ Ahead({"readGroup"}, g)
        /\ sysGroups[g] # None => \A u \in Users :
              \/ u \in sysGroups[g] <=> u \in groups[g]
              \/ Ahead({"readGroup"}, g) \/ Moving(g, u) \/ Ahead({"dropUser"}, u)

InStep ==
    ~muddled => StepsInOrder /\ ServicesInHand /\ AccountsInHand /\ GroupsInHand

GrantedInv == ServedInv /\ RowsAgree /\ InStep

-----------------------------------------------------------------------------
(* The programs of the handlers *)

Command(op, on, who) == [op |-> op, on |-> on, who |-> who]

LEMMA CommandsAreSteps ==
    /\ \A op \in AccountOps, u \in Users : Command(op, u, {}) \in Step
    /\ \A op \in GroupOps, g \in Groups, m \in SUBSET Users : Command(op, g, m) \in Step
    /\ \A op \in FolderOps, s \in Shares : Command(op, s, {}) \in Step
    /\ \A op \in ServiceOps \cup {"reload"}, u \in Units : Command(op, u, {}) \in Step
    /\ Command("write", None, {}) \in Step
BY DEF Command, Step, Ops, AccountOps, GroupOps, FolderOps, ServiceOps, FileOps

\* Sequences given element by element.
LEMMA JoinsTo ==
    ASSUME NEW S, NEW s \in Seq(S), NEW t \in Seq(S), NEW v \in Seq(S),
           Len(v) = Len(s) + Len(t),
           \A i \in 1 .. Len(s) : v[i] = s[i], \A i \in 1 .. Len(t) : v[Len(s) + i] = t[i]
    PROVE  s \o t = v
<1>1. /\ s \o t \in Seq(S) /\ Len(s \o t) = Len(s) + Len(t)
      /\ \A i \in 1 .. Len(s) + Len(t) :
            (s \o t)[i] = IF i <= Len(s) THEN s[i] ELSE t[i - Len(s)]
  BY ConcatProperties
<1>2. ASSUME NEW i \in 1 .. Len(s) + Len(t)
      PROVE  (s \o t)[i] = v[i]
  <2>1. CASE i <= Len(s)
    BY <1>1, <2>1
  <2>2. CASE i > Len(s)
    <3>1. i - Len(s) \in 1 .. Len(t) /\ Len(s) + (i - Len(s)) = i
      BY <2>2
    <3> QED  BY <1>1, <2>2, <3>1
  <2> QED  BY <2>1, <2>2
<1> QED  BY <1>1, <1>2, SeqEqual

LEMMA Concatenations ==
    /\ \A a, b : <<a>> \o <<b>> = <<a, b>>
    /\ \A a, b, c : <<a>> \o <<b, c>> = <<a, b, c>>
    /\ \A a, b, c : <<a, b>> \o <<c>> = <<a, b, c>>
    /\ \A a, b, c, d : <<a, b>> \o <<c, d>> = <<a, b, c, d>>
    /\ \A a, b, c, d, e : <<a, b, c>> \o <<d, e>> = <<a, b, c, d, e>>
    /\ \A a, b, c, d, e, f : <<a, b, c, d>> \o <<e, f>> = <<a, b, c, d, e, f>>
<1>1. ASSUME NEW a, NEW b
     PROVE  <<a>> \o <<b>> = <<a, b>>
  <2> DEFINE S == {a, b}
             s == <<a>>
             t == <<b>>
             v == <<a, b>>
  <2>1. s \in Seq(S) /\ t \in Seq(S) /\ v \in Seq(S)
    OBVIOUS
  <2>2. Len(v) = Len(s) + Len(t)
    OBVIOUS
  <2>3. \A i \in 1 .. Len(s) : v[i] = s[i]
    OBVIOUS
  <2>4. \A i \in 1 .. Len(t) : v[Len(s) + i] = t[i]
    OBVIOUS
  <2> HIDE DEF S, s, t, v
  <2>5. s \o t = v
    BY <2>1, <2>2, <2>3, <2>4, JoinsTo
  <2> QED  BY <2>5 DEF s, t, v
<1>2. ASSUME NEW a, NEW b, NEW c
     PROVE  <<a>> \o <<b, c>> = <<a, b, c>>
  <2> DEFINE S == {a, b, c}
             s == <<a>>
             t == <<b, c>>
             v == <<a, b, c>>
  <2>1. s \in Seq(S) /\ t \in Seq(S) /\ v \in Seq(S)
    OBVIOUS
  <2>2. Len(v) = Len(s) + Len(t)
    OBVIOUS
  <2>3. \A i \in 1 .. Len(s) : v[i] = s[i]
    OBVIOUS
  <2>4. \A i \in 1 .. Len(t) : v[Len(s) + i] = t[i]
    OBVIOUS
  <2> HIDE DEF S, s, t, v
  <2>5. s \o t = v
    BY <2>1, <2>2, <2>3, <2>4, JoinsTo
  <2> QED  BY <2>5 DEF s, t, v
<1>3. ASSUME NEW a, NEW b, NEW c
     PROVE  <<a, b>> \o <<c>> = <<a, b, c>>
  <2> DEFINE S == {a, b, c}
             s == <<a, b>>
             t == <<c>>
             v == <<a, b, c>>
  <2>1. s \in Seq(S) /\ t \in Seq(S) /\ v \in Seq(S)
    OBVIOUS
  <2>2. Len(v) = Len(s) + Len(t)
    OBVIOUS
  <2>3. \A i \in 1 .. Len(s) : v[i] = s[i]
    OBVIOUS
  <2>4. \A i \in 1 .. Len(t) : v[Len(s) + i] = t[i]
    OBVIOUS
  <2> HIDE DEF S, s, t, v
  <2>5. s \o t = v
    BY <2>1, <2>2, <2>3, <2>4, JoinsTo
  <2> QED  BY <2>5 DEF s, t, v
<1>4. ASSUME NEW a, NEW b, NEW c, NEW d
     PROVE  <<a, b>> \o <<c, d>> = <<a, b, c, d>>
  <2> DEFINE S == {a, b, c, d}
             s == <<a, b>>
             t == <<c, d>>
             v == <<a, b, c, d>>
  <2>1. s \in Seq(S) /\ t \in Seq(S) /\ v \in Seq(S)
    OBVIOUS
  <2>2. Len(v) = Len(s) + Len(t)
    OBVIOUS
  <2>3. \A i \in 1 .. Len(s) : v[i] = s[i]
    OBVIOUS
  <2>4. \A i \in 1 .. Len(t) : v[Len(s) + i] = t[i]
    OBVIOUS
  <2> HIDE DEF S, s, t, v
  <2>5. s \o t = v
    BY <2>1, <2>2, <2>3, <2>4, JoinsTo
  <2> QED  BY <2>5 DEF s, t, v
<1>5. ASSUME NEW a, NEW b, NEW c, NEW d, NEW e
     PROVE  <<a, b, c>> \o <<d, e>> = <<a, b, c, d, e>>
  <2> DEFINE S == {a, b, c, d, e}
             s == <<a, b, c>>
             t == <<d, e>>
             v == <<a, b, c, d, e>>
  <2>1. s \in Seq(S) /\ t \in Seq(S) /\ v \in Seq(S)
    OBVIOUS
  <2>2. Len(v) = Len(s) + Len(t)
    OBVIOUS
  <2>3. \A i \in 1 .. Len(s) : v[i] = s[i]
    OBVIOUS
  <2>4. \A i \in 1 .. Len(t) : v[Len(s) + i] = t[i]
    OBVIOUS
  <2> HIDE DEF S, s, t, v
  <2>5. s \o t = v
    BY <2>1, <2>2, <2>3, <2>4, JoinsTo
  <2> QED  BY <2>5 DEF s, t, v
<1>6. ASSUME NEW a, NEW b, NEW c, NEW d, NEW e, NEW f
     PROVE  <<a, b, c, d>> \o <<e, f>> = <<a, b, c, d, e, f>>
  <2> DEFINE S == {a, b, c, d, e, f}
             s == <<a, b, c, d>>
             t == <<e, f>>
             v == <<a, b, c, d, e, f>>
  <2>1. s \in Seq(S) /\ t \in Seq(S) /\ v \in Seq(S)
    OBVIOUS
  <2>2. Len(v) = Len(s) + Len(t)
    OBVIOUS
  <2>3. \A i \in 1 .. Len(s) : v[i] = s[i]
    OBVIOUS
  <2>4. \A i \in 1 .. Len(t) : v[Len(s) + i] = t[i]
    OBVIOUS
  <2> HIDE DEF S, s, t, v
  <2>5. s \o t = v
    BY <2>1, <2>2, <2>3, <2>4, JoinsTo
  <2> QED  BY <2>5 DEF s, t, v
<1> QED  BY <1>1, <1>2, <1>3, <1>4, <1>5, <1>6

\* The programs, command by command.
LEMMA Programs ==
    /\ Reloads =
          <<Command("reload", "smb", {}), Command("reload", "nfs", {})>>
    /\ \A u : SyncUser(u) =
          <<Command("makeUser", u, {}), Command("setPassword", u, {})>>
    /\ \A u : Do("hash", u, {}) \o SyncUser(u) =
          <<Command("hash", u, {}), Command("makeUser", u, {}),
            Command("setPassword", u, {})>>
    /\ \A u : RemoveUser(u) =
          <<Command("dropPassword", u, {}), Command("dropUser", u, {})>>
    /\ \A g, m : SyncGroup(g, m) =
          <<Command("makeGroup", g, {}), Command("readGroup", g, m)>>
    /\ \A g, m : SyncGroup(g, m) \o Write \o Reloads =
          <<Command("makeGroup", g, {}), Command("readGroup", g, m),
            Command("write", None, {}), Command("reload", "smb", {}),
            Command("reload", "nfs", {})>>
    /\ \A op, x : Do(op, x, {}) \o Write \o Reloads =
          <<Command(op, x, {}), Command("write", None, {}),
            Command("reload", "smb", {}), Command("reload", "nfs", {})>>
    /\ \A on : ApplyServiceStates(on) =
          <<Command(IF "smb" \in on THEN "bootAdd" ELSE "stop", "smb", {}),
            Command(IF "smb" \in on THEN "start" ELSE "bootDel", "smb", {}),
            Command(IF "nfs" \in on THEN "bootAdd" ELSE "stop", "nfs", {}),
            Command(IF "nfs" \in on THEN "start" ELSE "bootDel", "nfs", {})>>
    /\ \A on : ApplyServiceStates(on) \o Reloads =
          <<Command(IF "smb" \in on THEN "bootAdd" ELSE "stop", "smb", {}),
            Command(IF "smb" \in on THEN "start" ELSE "bootDel", "smb", {}),
            Command(IF "nfs" \in on THEN "bootAdd" ELSE "stop", "nfs", {}),
            Command(IF "nfs" \in on THEN "start" ELSE "bootDel", "nfs", {}),
            Command("reload", "smb", {}), Command("reload", "nfs", {})>>
<1>1. \A op, on, who : Do(op, on, who) = <<Command(op, on, who)>>
  BY DEF Do, Command
<1> HIDE DEF Command
<1>0. \A a, b, c, d : <<a, b>> \o <<c, d>> = <<a, b, c, d>>
  BY Concatenations
<1>2. Reloads = <<Command("reload", "smb", {}), Command("reload", "nfs", {})>>
  BY <1>1, Concatenations DEF Reloads
<1>3. Write = <<Command("write", None, {})>>
  BY <1>1 DEF Write
<1>4. \A u : SyncUser(u) = <<Command("makeUser", u, {}), Command("setPassword", u, {})>>
  BY <1>1, Concatenations DEF SyncUser
<1>5. \A u : Do("hash", u, {}) \o SyncUser(u) =
          <<Command("hash", u, {}), Command("makeUser", u, {}),
            Command("setPassword", u, {})>>
  BY <1>1, <1>4, Concatenations
<1>6. \A u : RemoveUser(u) = <<Command("dropPassword", u, {}), Command("dropUser", u, {})>>
  BY <1>1, Concatenations DEF RemoveUser
<1>7. \A g, m : SyncGroup(g, m) = <<Command("makeGroup", g, {}), Command("readGroup", g, m)>>
  BY <1>1, Concatenations DEF SyncGroup
<1>8. ASSUME NEW g, NEW m
      PROVE  SyncGroup(g, m) \o Write \o Reloads =
                <<Command("makeGroup", g, {}), Command("readGroup", g, m),
                  Command("write", None, {}), Command("reload", "smb", {}),
                  Command("reload", "nfs", {})>>
  <2>1. SyncGroup(g, m) \o Write =
           <<Command("makeGroup", g, {}), Command("readGroup", g, m),
             Command("write", None, {})>>
    BY <1>3, <1>7, Concatenations
  <2> QED  BY <1>2, <2>1, Concatenations
<1>9. ASSUME NEW op, NEW x
      PROVE  Do(op, x, {}) \o Write \o Reloads =
                <<Command(op, x, {}), Command("write", None, {}),
                  Command("reload", "smb", {}), Command("reload", "nfs", {})>>
  <2>1. Do(op, x, {}) \o Write = <<Command(op, x, {}), Command("write", None, {})>>
    BY <1>1, <1>3, Concatenations
  <2> QED  BY <1>2, <1>0, <2>1
<1>10. \A on, u : Switch(on, u) =
          <<Command(IF u \in on THEN "bootAdd" ELSE "stop", u, {}),
            Command(IF u \in on THEN "start" ELSE "bootDel", u, {})>>
  BY <1>1, Concatenations DEF Switch
<1>11. ASSUME NEW on
       PROVE  /\ ApplyServiceStates(on) =
                    <<Command(IF "smb" \in on THEN "bootAdd" ELSE "stop", "smb", {}),
                      Command(IF "smb" \in on THEN "start" ELSE "bootDel", "smb", {}),
                      Command(IF "nfs" \in on THEN "bootAdd" ELSE "stop", "nfs", {}),
                      Command(IF "nfs" \in on THEN "start" ELSE "bootDel", "nfs", {})>>
              /\ ApplyServiceStates(on) \o Reloads =
                    <<Command(IF "smb" \in on THEN "bootAdd" ELSE "stop", "smb", {}),
                      Command(IF "smb" \in on THEN "start" ELSE "bootDel", "smb", {}),
                      Command(IF "nfs" \in on THEN "bootAdd" ELSE "stop", "nfs", {}),
                      Command(IF "nfs" \in on THEN "start" ELSE "bootDel", "nfs", {}),
                      Command("reload", "smb", {}), Command("reload", "nfs", {})>>
  <2> DEFINE a == Command(IF "smb" \in on THEN "bootAdd" ELSE "stop", "smb", {})
             b == Command(IF "smb" \in on THEN "start" ELSE "bootDel", "smb", {})
             c == Command(IF "nfs" \in on THEN "bootAdd" ELSE "stop", "nfs", {})
             d == Command(IF "nfs" \in on THEN "start" ELSE "bootDel", "nfs", {})
  <2>1. Switch(on, "smb") = <<a, b>> /\ Switch(on, "nfs") = <<c, d>>
    BY <1>10
  <2> HIDE DEF a, b, c, d
  <2>2. ApplyServiceStates(on) = <<a, b, c, d>>
    BY <1>0, <2>1 DEF ApplyServiceStates
  <2>3. ApplyServiceStates(on) \o Reloads =
           <<a, b, c, d, Command("reload", "smb", {}), Command("reload", "nfs", {})>>
    BY <1>2, <2>2, Concatenations
  <2> QED  BY <2>2, <2>3 DEF a, b, c, d
<1> QED  BY <1>2, <1>4, <1>5, <1>6, <1>7, <1>8, <1>9, <1>11


\* Each unit is told, and nothing can end the handler before.
Told(s) ==
    /\ \A u \in Units : \E i \in DOMAIN s : s[i].op = "reload" /\ s[i].on = u
    /\ \A i \in DOMAIN s : s[i].op # "mkdir"

Writes(s) == \E i \in DOMAIN s : s[i].op = "write"

\* Each is about one kind of thing, and reloads what it writes.
LEMMA ReloadsProgram ==
    LET s == Reloads IN
        s \in Program /\ Told(s)
<1> DEFINE s == <<Command("reload", "smb", {}), Command("reload", "nfs", {})>>
<1>1. s = Reloads
  BY Programs
<1>2. s \in Seq(Step) /\ DOMAIN s = 1 .. 2
  <2>1. /\ Command("reload", "smb", {}) \in Step
        /\ Command("reload", "nfs", {}) \in Step
    BY CommandsAreSteps DEF Units
  <2> HIDE DEF Command
  <2> QED  BY <2>1
<1>3. /\ s[1].op = "reload" /\ s[1].on = "smb"
      /\ s[2].op = "reload" /\ s[2].on = "nfs"
  BY DEF Command
<1> HIDE DEF s
<1>4. \A i \in DOMAIN s : s[i].op \in GroupOps \cup FileOps /\ s[i].op # "mkdir"
  BY <1>2, <1>3 DEF GroupOps, FileOps
<1>5. OneKind(s)
  BY <1>4 DEF OneKind
<1>6. Orderly(s)
  BY <1>2, <1>3 DEF Orderly, Units
<1>7. Told(s)
  BY <1>2, <1>3, <1>4 DEF Told, Units
<1> QED  BY <1>1, <1>2, <1>5, <1>6, <1>7 DEF Program

LEMMA SyncUserProgram ==
    ASSUME NEW u \in Users
    PROVE  LET s == SyncUser(u) IN
           s \in Program
<1> DEFINE s == <<Command("makeUser", u, {}), Command("setPassword", u, {})>>
<1>1. s = SyncUser(u)
  BY Programs
<1>2. s \in Seq(Step) /\ DOMAIN s = 1 .. 2
  <2>1. /\ Command("makeUser", u, {}) \in Step
        /\ Command("setPassword", u, {}) \in Step
    BY CommandsAreSteps DEF AccountOps
  <2> HIDE DEF Command
  <2> QED  BY <2>1
<1>3. /\ s[1].op = "makeUser"
      /\ s[2].op = "setPassword"
  BY DEF Command
<1> HIDE DEF s
<1>4. \A i \in DOMAIN s : s[i].op \in AccountOps \cup FileOps /\ s[i].op # "mkdir"
  BY <1>2, <1>3 DEF AccountOps, FileOps
<1>5. OneKind(s)
  BY <1>4 DEF OneKind
<1>6. Orderly(s)
  BY <1>2, <1>3 DEF Orderly, Units
<1> QED  BY <1>1, <1>2, <1>5, <1>6 DEF Program

LEMMA PasswordProgram ==
    ASSUME NEW u \in Users
    PROVE  LET s == Do("hash", u, {}) \o SyncUser(u) IN
           s \in Program
<1> DEFINE s == <<Command("hash", u, {}), Command("makeUser", u, {}),
                Command("setPassword", u, {})>>
<1>1. s = Do("hash", u, {}) \o SyncUser(u)
  BY Programs
<1>2. s \in Seq(Step) /\ DOMAIN s = 1 .. 3
  <2>1. /\ Command("hash", u, {}) \in Step
        /\ Command("makeUser", u, {}) \in Step
        /\ Command("setPassword", u, {}) \in Step
    BY CommandsAreSteps DEF AccountOps
  <2> HIDE DEF Command
  <2> QED  BY <2>1
<1>3. /\ s[1].op = "hash"
      /\ s[2].op = "makeUser"
      /\ s[3].op = "setPassword"
  BY DEF Command
<1> HIDE DEF s
<1>4. \A i \in DOMAIN s : s[i].op \in AccountOps \cup FileOps /\ s[i].op # "mkdir"
  BY <1>2, <1>3 DEF AccountOps, FileOps
<1>5. OneKind(s)
  BY <1>4 DEF OneKind
<1>6. Orderly(s)
  BY <1>2, <1>3 DEF Orderly, Units
<1> QED  BY <1>1, <1>2, <1>5, <1>6 DEF Program

LEMMA RemoveUserProgram ==
    ASSUME NEW u \in Users
    PROVE  LET s == RemoveUser(u) IN
           s \in Program
<1> DEFINE s == <<Command("dropPassword", u, {}), Command("dropUser", u, {})>>
<1>1. s = RemoveUser(u)
  BY Programs
<1>2. s \in Seq(Step) /\ DOMAIN s = 1 .. 2
  <2>1. /\ Command("dropPassword", u, {}) \in Step
        /\ Command("dropUser", u, {}) \in Step
    BY CommandsAreSteps DEF AccountOps
  <2> HIDE DEF Command
  <2> QED  BY <2>1
<1>3. /\ s[1].op = "dropPassword"
      /\ s[2].op = "dropUser"
  BY DEF Command
<1> HIDE DEF s
<1>4. \A i \in DOMAIN s : s[i].op \in AccountOps \cup FileOps /\ s[i].op # "mkdir"
  BY <1>2, <1>3 DEF AccountOps, FileOps
<1>5. OneKind(s)
  BY <1>4 DEF OneKind
<1>6. Orderly(s)
  BY <1>2, <1>3 DEF Orderly, Units
<1> QED  BY <1>1, <1>2, <1>5, <1>6 DEF Program

LEMMA SyncGroupProgram ==
    ASSUME NEW g \in Groups, NEW m \in SUBSET Users
    PROVE  LET s == SyncGroup(g, m) IN
           s \in Program
<1> DEFINE s == <<Command("makeGroup", g, {}), Command("readGroup", g, m)>>
<1>1. s = SyncGroup(g, m)
  BY Programs
<1>2. s \in Seq(Step) /\ DOMAIN s = 1 .. 2
  <2>1. /\ Command("makeGroup", g, {}) \in Step
        /\ Command("readGroup", g, m) \in Step
    BY CommandsAreSteps DEF GroupOps
  <2> HIDE DEF Command
  <2> QED  BY <2>1
<1>3. /\ s[1].op = "makeGroup"
      /\ s[2].op = "readGroup"
  BY DEF Command
<1> HIDE DEF s
<1>4. \A i \in DOMAIN s : s[i].op \in GroupOps \cup FileOps /\ s[i].op # "mkdir"
  BY <1>2, <1>3 DEF GroupOps, FileOps
<1>5. OneKind(s)
  BY <1>4 DEF OneKind
<1>6. Orderly(s)
  BY <1>2, <1>3 DEF Orderly, Units
<1> QED  BY <1>1, <1>2, <1>5, <1>6 DEF Program

LEMMA MembersProgram ==
    ASSUME NEW g \in Groups, NEW m \in SUBSET Users
    PROVE  LET s == SyncGroup(g, m) \o Write \o Reloads IN
           s \in Program /\ Told(s) /\ Writes(s)
<1> DEFINE s == <<Command("makeGroup", g, {}), Command("readGroup", g, m),
                Command("write", None, {}), Command("reload", "smb", {}),
                Command("reload", "nfs", {})>>
<1>1. s = SyncGroup(g, m) \o Write \o Reloads
  BY Programs
<1>2. s \in Seq(Step) /\ DOMAIN s = 1 .. 5
  <2>1. /\ Command("makeGroup", g, {}) \in Step
        /\ Command("readGroup", g, m) \in Step
        /\ Command("write", None, {}) \in Step
        /\ Command("reload", "smb", {}) \in Step
        /\ Command("reload", "nfs", {}) \in Step
    BY CommandsAreSteps DEF GroupOps, Units
  <2> HIDE DEF Command
  <2> QED  BY <2>1
<1>3. /\ s[1].op = "makeGroup"
      /\ s[2].op = "readGroup"
      /\ s[3].op = "write"
      /\ s[4].op = "reload" /\ s[4].on = "smb"
      /\ s[5].op = "reload" /\ s[5].on = "nfs"
  BY DEF Command
<1> HIDE DEF s
<1>4. \A i \in DOMAIN s : s[i].op \in GroupOps \cup FileOps /\ s[i].op # "mkdir"
  BY <1>2, <1>3 DEF GroupOps, FileOps
<1>5. OneKind(s)
  BY <1>4 DEF OneKind
<1>6. Orderly(s)
  BY <1>2, <1>3 DEF Orderly, Units
<1>7. Told(s)
  BY <1>2, <1>3, <1>4 DEF Told, Units
<1>8. Writes(s)
  BY <1>2, <1>3 DEF Writes
<1> QED  BY <1>1, <1>2, <1>5, <1>6, <1>7, <1>8 DEF Program

LEMMA DropGroupProgram ==
    ASSUME NEW g \in Groups
    PROVE  LET s == Do("dropGroup", g, {}) \o Write \o Reloads IN
           s \in Program /\ Told(s) /\ Writes(s)
<1> DEFINE s == <<Command("dropGroup", g, {}), Command("write", None, {}),
                Command("reload", "smb", {}), Command("reload", "nfs", {})>>
<1>1. s = Do("dropGroup", g, {}) \o Write \o Reloads
  BY Programs
<1>2. s \in Seq(Step) /\ DOMAIN s = 1 .. 4
  <2>1. /\ Command("dropGroup", g, {}) \in Step
        /\ Command("write", None, {}) \in Step
        /\ Command("reload", "smb", {}) \in Step
        /\ Command("reload", "nfs", {}) \in Step
    BY CommandsAreSteps DEF GroupOps, Units
  <2> HIDE DEF Command
  <2> QED  BY <2>1
<1>3. /\ s[1].op = "dropGroup"
      /\ s[2].op = "write"
      /\ s[3].op = "reload" /\ s[3].on = "smb"
      /\ s[4].op = "reload" /\ s[4].on = "nfs"
  BY DEF Command
<1> HIDE DEF s
<1>4. \A i \in DOMAIN s : s[i].op \in GroupOps \cup FileOps /\ s[i].op # "mkdir"
  BY <1>2, <1>3 DEF GroupOps, FileOps
<1>5. OneKind(s)
  BY <1>4 DEF OneKind
<1>6. Orderly(s)
  BY <1>2, <1>3 DEF Orderly, Units
<1>7. Told(s)
  BY <1>2, <1>3, <1>4 DEF Told, Units
<1>8. Writes(s)
  BY <1>2, <1>3 DEF Writes
<1> QED  BY <1>1, <1>2, <1>5, <1>6, <1>7, <1>8 DEF Program

LEMMA FolderProgram ==
    ASSUME NEW f \in Shares, NEW op \in FolderOps
    PROVE  LET s == Do(op, f, {}) \o Write \o Reloads IN
           s \in Program /\ Writes(s)
<1> DEFINE s == <<Command(op, f, {}), Command("write", None, {}),
                Command("reload", "smb", {}), Command("reload", "nfs", {})>>
<1>1. s = Do(op, f, {}) \o Write \o Reloads
  BY Programs
<1>2. s \in Seq(Step) /\ DOMAIN s = 1 .. 4
  <2>1. /\ Command(op, f, {}) \in Step
        /\ Command("write", None, {}) \in Step
        /\ Command("reload", "smb", {}) \in Step
        /\ Command("reload", "nfs", {}) \in Step
    BY CommandsAreSteps DEF Units
  <2> HIDE DEF Command
  <2> QED  BY <2>1
<1>3. /\ s[1].op = op
      /\ s[2].op = "write"
      /\ s[3].op = "reload" /\ s[3].on = "smb"
      /\ s[4].op = "reload" /\ s[4].on = "nfs"
  BY DEF Command
<1> HIDE DEF s
<1>4. \A i \in DOMAIN s : s[i].op \in FolderOps \cup FileOps
  BY <1>2, <1>3 DEF FolderOps, FileOps
<1>5. OneKind(s)
  BY <1>4 DEF OneKind
<1>6. Orderly(s)
  BY <1>2, <1>3 DEF Orderly, Units
<1>8. Writes(s)
  BY <1>2, <1>3 DEF Writes
<1> QED  BY <1>1, <1>2, <1>5, <1>6, <1>8 DEF Program

LEMMA ServiceProgram ==
    ASSUME NEW on
    PROVE  LET s == ApplyServiceStates(on) IN
           s \in Program
<1> DEFINE s == <<Command(IF "smb" \in on THEN "bootAdd" ELSE "stop", "smb", {}),
                Command(IF "smb" \in on THEN "start" ELSE "bootDel", "smb", {}),
                Command(IF "nfs" \in on THEN "bootAdd" ELSE "stop", "nfs", {}),
                Command(IF "nfs" \in on THEN "start" ELSE "bootDel", "nfs", {})>>
<1>1. s = ApplyServiceStates(on)
  BY Programs
<1>2. s \in Seq(Step) /\ DOMAIN s = 1 .. 4
  <2>1. /\ Command(IF "smb" \in on THEN "bootAdd" ELSE "stop", "smb", {}) \in Step
        /\ Command(IF "smb" \in on THEN "start" ELSE "bootDel", "smb", {}) \in Step
        /\ Command(IF "nfs" \in on THEN "bootAdd" ELSE "stop", "nfs", {}) \in Step
        /\ Command(IF "nfs" \in on THEN "start" ELSE "bootDel", "nfs", {}) \in Step
    BY CommandsAreSteps DEF ServiceOps, Units
  <2> HIDE DEF Command
  <2> QED  BY <2>1
<1>3. /\ s[1].op \in ServiceOps
      /\ s[2].op \in ServiceOps
      /\ s[3].op \in ServiceOps
      /\ s[4].op \in ServiceOps
  BY DEF Command, ServiceOps
<1> HIDE DEF s
<1>4. \A i \in DOMAIN s : s[i].op \in ServiceOps \cup FileOps /\ s[i].op # "mkdir"
  BY <1>2, <1>3 DEF ServiceOps, FileOps
<1>5. OneKind(s)
  BY <1>4 DEF OneKind
<1>6. Orderly(s)
  BY <1>2, <1>3 DEF Orderly, Units, ServiceOps
<1> QED  BY <1>1, <1>2, <1>5, <1>6 DEF Program

LEMMA PutServicesProgram ==
    ASSUME NEW on
    PROVE  LET s == ApplyServiceStates(on) \o Reloads IN
           s \in Program /\ Told(s)
<1> DEFINE s == <<Command(IF "smb" \in on THEN "bootAdd" ELSE "stop", "smb", {}),
                Command(IF "smb" \in on THEN "start" ELSE "bootDel", "smb", {}),
                Command(IF "nfs" \in on THEN "bootAdd" ELSE "stop", "nfs", {}),
                Command(IF "nfs" \in on THEN "start" ELSE "bootDel", "nfs", {}),
                Command("reload", "smb", {}), Command("reload", "nfs", {})>>
<1>1. s = ApplyServiceStates(on) \o Reloads
  BY Programs
<1>2. s \in Seq(Step) /\ DOMAIN s = 1 .. 6
  <2>1. /\ Command(IF "smb" \in on THEN "bootAdd" ELSE "stop", "smb", {}) \in Step
        /\ Command(IF "smb" \in on THEN "start" ELSE "bootDel", "smb", {}) \in Step
        /\ Command(IF "nfs" \in on THEN "bootAdd" ELSE "stop", "nfs", {}) \in Step
        /\ Command(IF "nfs" \in on THEN "start" ELSE "bootDel", "nfs", {}) \in Step
        /\ Command("reload", "smb", {}) \in Step
        /\ Command("reload", "nfs", {}) \in Step
    BY CommandsAreSteps DEF ServiceOps, Units
  <2> HIDE DEF Command
  <2> QED  BY <2>1
<1>3. /\ s[1].op \in ServiceOps
      /\ s[2].op \in ServiceOps
      /\ s[3].op \in ServiceOps
      /\ s[4].op \in ServiceOps
      /\ s[5].op = "reload" /\ s[5].on = "smb"
      /\ s[6].op = "reload" /\ s[6].on = "nfs"
  BY DEF Command, ServiceOps
<1> HIDE DEF s
<1>4. \A i \in DOMAIN s : s[i].op \in ServiceOps \cup FileOps /\ s[i].op # "mkdir"
  BY <1>2, <1>3 DEF ServiceOps, FileOps
<1>5. OneKind(s)
  BY <1>4 DEF OneKind
<1>6. Orderly(s)
  BY <1>2, <1>3 DEF Orderly, Units, ServiceOps
<1>7. Told(s)
  BY <1>2, <1>3, <1>4 DEF Told, Units
<1> QED  BY <1>1, <1>2, <1>5, <1>6, <1>7 DEF Program

-----------------------------------------------------------------------------
(* How programs change *)

\* Handler p is done with its head, and has n commands to run in its place.
Reworked(p, n) ==
    /\ n \in Nat /\ todo[p] # <<>>
    /\ todo' = [todo EXCEPT ![p] = todo'[p]]
    /\ todo'[p] \in Seq(Step)
    /\ Len(todo'[p]) = n + Len(todo[p]) - 1
    /\ \A i \in 2 .. Len(todo[p]) : todo'[p][i - 1 + n] = todo[p][i]

LEMMA ProgramsAreSequences ==
    ASSUME Shape
    PROVE  \A p \in Procs :
              /\ todo[p] \in Seq(Step) /\ Len(todo[p]) \in Nat
              /\ DOMAIN todo[p] = 1 .. Len(todo[p])
              /\ OneKind(todo[p]) /\ Orderly(todo[p])
              /\ todo[p] = <<>> <=> Len(todo[p]) = 0
<1> SUFFICES ASSUME NEW p \in Procs
             PROVE  /\ todo[p] \in Seq(Step) /\ Len(todo[p]) \in Nat
                    /\ DOMAIN todo[p] = 1 .. Len(todo[p])
                    /\ OneKind(todo[p]) /\ Orderly(todo[p])
                    /\ todo[p] = <<>> <=> Len(todo[p]) = 0
  OBVIOUS
<1>1. todo[p] \in Seq(Step) /\ OneKind(todo[p]) /\ Orderly(todo[p])
  BY DEF Shape, Program
<1> QED  BY <1>1, EmptySeq, LenProperties

LEMMA HeadIsFirst ==
    ASSUME Shape, NEW p \in Procs, todo[p] # <<>>
    PROVE  /\ Head(todo[p]) = todo[p][1] /\ 1 \in DOMAIN todo[p]
           /\ Head(todo[p]) \in Step
BY ProgramsAreSequences

LEMMA AdvanceReworks ==
    ASSUME Shape, NEW p \in Procs, todo[p] # <<>>, Advance(p)
    PROVE  Reworked(p, 0)
<1>1. todo[p] \in Seq(Step) /\ p \in DOMAIN todo
  BY ProgramsAreSequences DEF Shape
<1>2. todo' = [todo EXCEPT ![p] = Tail(todo[p])] /\ todo'[p] = Tail(todo[p])
  BY <1>1 DEF Advance
<1>3. /\ Tail(todo[p]) \in Seq(Step) /\ Len(Tail(todo[p])) = Len(todo[p]) - 1
      /\ \A i \in 2 .. Len(todo[p]) : Tail(todo[p])[i - 1 + 0] = todo[p][i]
  BY <1>1
<1>4. Len(Tail(todo[p])) = 0 + Len(todo[p]) - 1 /\ 0 \in Nat
  BY <1>1, <1>3, ProgramsAreSequences
<1> DEFINE t == Tail(todo[p])
<1> HIDE DEF t
<1>5. todo' = [todo EXCEPT ![p] = t] /\ todo'[p] = t
  BY <1>2 DEF t
<1>6. t \in Seq(Step) /\ Len(t) = 0 + Len(todo[p]) - 1
      /\ \A i \in 2 .. Len(todo[p]) : t[i - 1 + 0] = todo[p][i]
  BY <1>3, <1>4 DEF t
<1> QED  BY <1>4, <1>5, <1>6 DEF Reworked

LEMMA OrdersAreSequences ==
    ASSUME NEW S \in SUBSET Users, NEW s \in Orders(S)
    PROVE  /\ s \in Seq(S) /\ DOMAIN s = 1 .. Len(s) /\ Len(s) \in Nat
           /\ \A x \in S : \E i \in DOMAIN s : s[i] = x
<1>1. Cardinality(S) \in Nat
  BY SharingAssumption, FS_Subset, FS_CardinalityType
<1> QED  BY <1>1 DEF Orders

LEMMA EachIsASequence ==
    ASSUME NEW op \in {"join", "leave"}, NEW g \in Groups, NEW S \in SUBSET Users,
           NEW s \in Orders(S)
    PROVE  /\ DoEach(op, g, s) \in Seq(Step) /\ Len(DoEach(op, g, s)) = Len(s)
           /\ \A i \in 1 .. Len(s) : DoEach(op, g, s)[i] = Command(op, g, {s[i]})
<1>1. /\ s \in Seq(S) /\ DOMAIN s = 1 .. Len(s) /\ Len(s) \in Nat
      /\ \A i \in DOMAIN s : s[i] \in S
  BY OrdersAreSequences
<1>2. \A i \in DOMAIN s : Command(op, g, {s[i]}) \in Step
  BY <1>1, CommandsAreSteps DEF GroupOps
<1> QED  BY <1>1, <1>2 DEF DoEach, Command

\* The members that join and leave come first, all of them.
Reconciled(p, current, n) ==
    LET wanted == Head(todo[p]).who IN
    /\ \A i \in 1 .. n : \E x \in Users :
          \/ todo'[p][i] = Command("join", On(p), {x}) /\ x \in wanted \ current
          \/ todo'[p][i] = Command("leave", On(p), {x}) /\ x \in current \ wanted
    /\ \A x \in wanted \ current :
          \E i \in 1 .. n : todo'[p][i] = Command("join", On(p), {x})
    /\ \A x \in current \ wanted :
          \E i \in 1 .. n : todo'[p][i] = Command("leave", On(p), {x})

LEMMA ReconcileReworks ==
    ASSUME Shape, NEW p \in Procs, Now(p, "readGroup"), NEW current \in SUBSET Users,
           Reconcile(p, current)
    PROVE  \E n \in Nat : Reworked(p, n) /\ Reconciled(p, current, n)
<1> DEFINE wanted == Head(todo[p]).who
           in == wanted \ current
           out == current \ wanted
<1>1. /\ todo[p] # <<>> /\ todo[p] \in Seq(Step) /\ p \in DOMAIN todo
      /\ Head(todo[p]) \in Step /\ Head(todo[p]).op = "readGroup"
  BY HeadIsFirst, ProgramsAreSequences DEF Now, Shape
<1>2. On(p) \in Groups /\ wanted \in SUBSET Users
  BY <1>1 DEF On, Step, GroupOps
<1> HIDE DEF wanted
<1>3. PICK joining \in Orders(in), leaving \in Orders(out) :
        todo' = [todo EXCEPT ![p] = DoEach("join", On(p), joining)
                       \o DoEach("leave", On(p), leaving) \o Tail(@)]
  BY DEF Reconcile, wanted
<1> DEFINE a == DoEach("join", On(p), joining)
           b == DoEach("leave", On(p), leaving)
           n == Len(joining) + Len(leaving)
<1>4. in \in SUBSET Users /\ out \in SUBSET Users
  BY <1>2
<1>5. /\ joining \in Seq(in) /\ DOMAIN joining = 1 .. Len(joining) /\ Len(joining) \in Nat
      /\ leaving \in Seq(out) /\ DOMAIN leaving = 1 .. Len(leaving) /\ Len(leaving) \in Nat
      /\ \A x \in in : \E i \in DOMAIN joining : joining[i] = x
      /\ \A x \in out : \E i \in DOMAIN leaving : leaving[i] = x
      /\ \A i \in DOMAIN joining : joining[i] \in in
      /\ \A i \in DOMAIN leaving : leaving[i] \in out
  <2>1. /\ joining \in Seq(in) /\ DOMAIN joining = 1 .. Len(joining) /\ Len(joining) \in Nat
        /\ \A x \in in : \E i \in DOMAIN joining : joining[i] = x
    BY <1>3, <1>4, OrdersAreSequences
  <2>2. /\ leaving \in Seq(out) /\ DOMAIN leaving = 1 .. Len(leaving) /\ Len(leaving) \in Nat
        /\ \A x \in out : \E i \in DOMAIN leaving : leaving[i] = x
    BY <1>3, <1>4, OrdersAreSequences
  <2> QED  BY <2>1, <2>2
<1>6. /\ a \in Seq(Step) /\ Len(a) = Len(joining)
      /\ \A i \in 1 .. Len(joining) : a[i] = Command("join", On(p), {joining[i]})
  BY <1>2, <1>3, <1>4, EachIsASequence
<1>7. /\ b \in Seq(Step) /\ Len(b) = Len(leaving)
      /\ \A i \in 1 .. Len(leaving) : b[i] = Command("leave", On(p), {leaving[i]})
  BY <1>2, <1>3, <1>4, EachIsASequence
<1>8. /\ Tail(todo[p]) \in Seq(Step) /\ Len(Tail(todo[p])) = Len(todo[p]) - 1
      /\ Len(todo[p]) \in Nat
      /\ \A i \in 1 .. Len(todo[p]) - 1 : Tail(todo[p])[i] = todo[p][i + 1]
  BY <1>1
<1>9. todo'[p] = (a \o b) \o Tail(todo[p]) /\ todo' = [todo EXCEPT ![p] = todo'[p]]
  BY <1>1, <1>3
<1> HIDE DEF a, b, in, out
<1>10. /\ a \o b \in Seq(Step) /\ Len(a \o b) = n
       /\ \A i \in 1 .. Len(joining) : (a \o b)[i] = a[i]
       /\ \A i \in 1 .. Len(leaving) : (a \o b)[Len(joining) + i] = b[i]
       /\ \A i \in 1 .. n : i > Len(joining) => (a \o b)[i] = b[i - Len(joining)]
  <2>1. /\ a \o b \in Seq(Step) /\ Len(a \o b) = Len(a) + Len(b)
        /\ \A i \in 1 .. Len(a) + Len(b) :
              (a \o b)[i] = IF i <= Len(a) THEN a[i] ELSE b[i - Len(a)]
    BY <1>6, <1>7, ConcatProperties
  <2> QED  BY <2>1, <1>5, <1>6, <1>7
<1>11. n \in Nat
  BY <1>5
<1> HIDE DEF n
<1>12. /\ todo'[p] \in Seq(Step) /\ Len(todo'[p]) = n + Len(todo[p]) - 1
       /\ \A i \in 1 .. n : todo'[p][i] = (a \o b)[i]
       /\ \A i \in 1 .. Len(todo[p]) - 1 : todo'[p][n + i] = Tail(todo[p])[i]
  <2> DEFINE ab == a \o b
             t == Tail(todo[p])
  <2>1. ab \in Seq(Step) /\ t \in Seq(Step) /\ Len(ab) = n /\ Len(t) = Len(todo[p]) - 1
    BY <1>8, <1>10
  <2>2. todo'[p] = ab \o t
    BY <1>9
  <2> HIDE DEF ab, t
  <2>3. /\ ab \o t \in Seq(Step) /\ Len(ab \o t) = Len(ab) + Len(t)
        /\ \A i \in 1 .. Len(ab) + Len(t) :
              (ab \o t)[i] = IF i <= Len(ab) THEN ab[i] ELSE t[i - Len(ab)]
    BY <2>1, ConcatProperties
  <2>4. \A i \in 1 .. n : (ab \o t)[i] = ab[i]
    BY <1>8, <1>11, <2>1, <2>3
  <2>5. \A i \in 1 .. Len(todo[p]) - 1 : (ab \o t)[n + i] = t[i]
    BY <1>8, <1>11, <2>1, <2>3
  <2>6. Len(ab \o t) = n + Len(todo[p]) - 1
    BY <1>8, <1>11, <2>1, <2>3
  <2> QED  BY <2>2, <2>3, <2>4, <2>5, <2>6 DEF ab, t
<1>13. Reworked(p, n)
  <2>1. ASSUME NEW i \in 2 .. Len(todo[p])
        PROVE  todo'[p][i - 1 + n] = todo[p][i]
    <3>1. i - 1 \in 1 .. Len(todo[p]) - 1 /\ n + (i - 1) = i - 1 + n /\ (i - 1) + 1 = i
      BY <1>8, <1>11
    <3>2. todo'[p][n + (i - 1)] = Tail(todo[p])[i - 1]
      BY <3>1, <1>12
    <3>3. Tail(todo[p])[i - 1] = todo[p][(i - 1) + 1]
      BY <3>1, <1>8
    <3> QED  BY <3>1, <3>2, <3>3
  <2> QED  BY <2>1, <1>1, <1>9, <1>11, <1>12 DEF Reworked
<1>14. ASSUME NEW i \in 1 .. n
       PROVE  \E x \in Users :
                 \/ todo'[p][i] = Command("join", On(p), {x}) /\ x \in in
                 \/ todo'[p][i] = Command("leave", On(p), {x}) /\ x \in out
  <2>1. CASE i <= Len(joining)
    <3>1. i \in DOMAIN joining /\ i \in 1 .. Len(joining)
      BY <2>1, <1>5, <1>11
    <3>2. todo'[p][i] = Command("join", On(p), {joining[i]}) /\ joining[i] \in in
      BY <3>1, <1>5, <1>6, <1>10, <1>12
    <3> QED  BY <3>2, <1>4
  <2>2. CASE i > Len(joining)
    <3>1. PICK k \in 1 .. Len(leaving) : k = i - Len(joining)
      <4>1. i - Len(joining) \in 1 .. Len(leaving)
        BY <2>2, <1>5, <1>11 DEF n
      <4> QED  BY <4>1
    <3>2. todo'[p][i] = b[k] /\ k \in DOMAIN leaving
      BY <2>2, <3>1, <1>5, <1>10, <1>12
    <3>3. todo'[p][i] = Command("leave", On(p), {leaving[k]}) /\ leaving[k] \in out
      BY <3>1, <3>2, <1>5, <1>7
    <3>4. leaving[k] \in Users
      BY <3>3, <1>4
    <3> WITNESS leaving[k] \in Users
    <3> QED  BY <3>3
  <2>3. i <= Len(joining) \/ i > Len(joining)
    BY <1>5, <1>11
  <2> QED  BY <2>1, <2>2, <2>3
<1>15. ASSUME NEW x \in in
       PROVE  \E i \in 1 .. n : todo'[p][i] = Command("join", On(p), {x})
  <2>1. PICK i \in DOMAIN joining : joining[i] = x
    BY <1>5
  <2>2. i \in 1 .. Len(joining) /\ i \in 1 .. n
    BY <1>5, <2>1 DEF n
  <2> QED  BY <2>1, <2>2, <1>6, <1>10, <1>12
<1>16. ASSUME NEW x \in out
       PROVE  \E i \in 1 .. n : todo'[p][i] = Command("leave", On(p), {x})
  <2>1. PICK i \in DOMAIN leaving : leaving[i] = x
    BY <1>5
  <2>2. i \in 1 .. Len(leaving) /\ Len(joining) + i \in 1 .. n
    BY <1>5, <2>1 DEF n
  <2>3. todo'[p][Len(joining) + i] = Command("leave", On(p), {x})
    BY <2>1, <2>2, <1>7, <1>10, <1>12
  <2> QED  BY <2>2, <2>3
<1>17. Reconciled(p, current, n)
  BY <1>14, <1>15, <1>16 DEF Reconciled, in, out, wanted
<1> QED  BY <1>11, <1>13, <1>17

\* What is still to do stays to be done, and in its order.
LEMMA ReworkedKeeps ==
    ASSUME Shape, NEW p \in Procs, NEW n, Reworked(p, n)
    PROVE  /\ DOMAIN todo' = Procs /\ \A q \in Procs \ {p} : todo'[q] = todo[q]
           /\ n \in Nat /\ Len(todo[p]) \in Nat \ {0} /\ DOMAIN todo[p] = 1 .. Len(todo[p])
           /\ DOMAIN todo'[p] = 1 .. n + Len(todo[p]) - 1
           /\ \A i \in DOMAIN todo[p] : i # 1 =>
                 i - 1 + n \in DOMAIN todo'[p] /\ todo'[p][i - 1 + n] = todo[p][i]
           /\ \A j \in DOMAIN todo'[p] : j > n =>
                 /\ j + 1 - n \in DOMAIN todo[p] /\ j + 1 - n # 1
                 /\ todo'[p][j] = todo[p][j + 1 - n]
<1>1. /\ todo[p] \in Seq(Step) /\ Len(todo[p]) \in Nat /\ DOMAIN todo[p] = 1 .. Len(todo[p])
      /\ todo[p] = <<>> <=> Len(todo[p]) = 0
  BY ProgramsAreSequences
<1>2. DOMAIN todo = Procs
  BY DEF Shape
<1>3. DOMAIN todo' = Procs /\ \A q \in Procs \ {p} : todo'[q] = todo[q]
  BY <1>2 DEF Reworked
<1>4. /\ n \in Nat /\ Len(todo[p]) \in Nat \ {0}
      /\ DOMAIN todo'[p] = 1 .. n + Len(todo[p]) - 1
  BY <1>1, LenProperties DEF Reworked
<1>5. ASSUME NEW i \in DOMAIN todo[p], i # 1
      PROVE  i - 1 + n \in DOMAIN todo'[p] /\ todo'[p][i - 1 + n] = todo[p][i]
  BY <1>1, <1>4, <1>5 DEF Reworked
<1>6. ASSUME NEW j \in DOMAIN todo'[p], j > n
      PROVE  /\ j + 1 - n \in DOMAIN todo[p] /\ j + 1 - n # 1
             /\ todo'[p][j] = todo[p][j + 1 - n]
  <2>1. j + 1 - n \in 2 .. Len(todo[p]) /\ (j + 1 - n) - 1 + n = j
    BY <1>4, <1>6
  <2>2. todo'[p][(j + 1 - n) - 1 + n] = todo[p][j + 1 - n]
    BY <2>1 DEF Reworked
  <2> QED  BY <2>1, <2>2, <1>1
<1> QED  BY <1>1, <1>3, <1>4, <1>5, <1>6

\* The programs stay programs.
LEMMA ReworkedPrograms ==
    ASSUME Shape, NEW p \in Procs, NEW n, Reworked(p, n),
           n # 0 => todo[p][1].op = "readGroup",
           \A i \in 1 .. n : todo'[p][i].op \in {"join", "leave"}
    PROVE  todo' \in [Procs -> Program]
<1>1. /\ todo[p] \in Seq(Step) /\ OneKind(todo[p]) /\ Orderly(todo[p])
  BY ProgramsAreSequences
<1>2. PICK kind \in {AccountOps, GroupOps, FolderOps, ServiceOps} :
         \A i \in DOMAIN todo[p] : todo[p][i].op \in kind \cup FileOps
  BY <1>1 DEF OneKind
<1>3. 1 \in DOMAIN todo[p]
  BY ReworkedKeeps
<1>4. n # 0 => kind = GroupOps
  BY <1>2, <1>3 DEF AccountOps, GroupOps, FolderOps, ServiceOps, FileOps
<1>5. OneKind(todo'[p])
  <2>1. ASSUME NEW i \in DOMAIN todo'[p]
        PROVE  todo'[p][i].op \in kind \cup FileOps
    <3>1. CASE i > n
      BY <3>1, <1>2, ReworkedKeeps
    <3>2. CASE ~(i > n)
      <4>1. i \in 1 .. n /\ n # 0
        BY <3>2, ReworkedKeeps
      <4> QED  BY <4>1, <1>4 DEF GroupOps
    <3> QED  BY <3>1, <3>2
  <2> QED  BY <2>1 DEF OneKind
<1>6. Orderly(todo'[p])
  <2> SUFFICES ASSUME NEW i \in DOMAIN todo'[p]
               PROVE  /\ todo'[p][i].op = "mkdir" => i = 1
                      /\ todo'[p][i].op = "write" =>
                            \A u \in Units : \E j \in DOMAIN todo'[p] :
                               i < j /\ todo'[p][j].op = "reload" /\ todo'[p][j].on = u
    BY DEF Orderly
  <2>1. CASE ~(i > n)
    <3>1. i \in 1 .. n
      BY <2>1, ReworkedKeeps
    <3> QED  BY <3>1
  <2>2. CASE i > n
    <3> DEFINE k == i + 1 - n
    <3>1. /\ k \in DOMAIN todo[p] /\ k # 1 /\ todo'[p][i] = todo[p][k]
          /\ i = k - 1 + n /\ i \in Nat /\ n \in Nat /\ k \in Nat
      <4>1. /\ n \in Nat /\ i \in Nat
            /\ i + 1 - n \in DOMAIN todo[p] /\ i + 1 - n # 1
            /\ todo'[p][i] = todo[p][i + 1 - n]
        BY <2>2, ReworkedKeeps
      <4> QED  BY <2>2, <4>1
    <3> HIDE DEF k
    <3>2. todo'[p][i].op # "mkdir"
      BY <1>1, <3>1 DEF Orderly
    <3>3. ASSUME todo'[p][i].op = "write", NEW u \in Units
          PROVE  \E j \in DOMAIN todo'[p] :
                    i < j /\ todo'[p][j].op = "reload" /\ todo'[p][j].on = u
      <4>1. PICK j \in DOMAIN todo[p] :
               k < j /\ todo[p][j].op = "reload" /\ todo[p][j].on = u
        BY <1>1, <3>1, <3>3 DEF Orderly
      <4>2. j \in Nat /\ j # 1
        BY <4>1, <3>1, ReworkedKeeps
      <4>3. j - 1 + n \in DOMAIN todo'[p] /\ todo'[p][j - 1 + n] = todo[p][j]
        BY <4>2, ReworkedKeeps
      <4>4. i < j - 1 + n
        BY <3>1, <4>1, <4>2
      <4> QED  BY <4>1, <4>3, <4>4
    <3> QED  BY <3>2, <3>3
  <2> QED  BY <2>1, <2>2
<1>7. todo'[p] \in Program
  BY <1>5, <1>6 DEF Program, Reworked
<1> QED  BY <1>7, ReworkedKeeps DEF Shape, Reworked
-----------------------------------------------------------------------------
(* Files and daemons *)

RowTypes ==
    /\ users \subseteq Users /\ enabled \subseteq Units
    /\ groups \in [Groups -> {None} \cup SUBSET Users]
    /\ shares \in [Shares -> {None} \cup Share]

SystemTypes ==
    /\ sysUsers \subseteq Users /\ passdb \subseteq Users
    /\ sysGroups \in [Groups -> {None} \cup SUBSET Users]
    /\ boot \subseteq Units

FileTypes ==
    /\ file \in [Units -> [Shares -> SUBSET Listed]]
    /\ loaded = [u \in Units |-> loaded[u]]
    /\ \A u \in Units : loaded[u] = None \/ loaded[u] \in [Shares -> SUBSET Listed]

CountTypes ==
    /\ changes \in 0 .. MaxChanges /\ mishaps \in 0 .. MaxMishaps
    /\ unwritten \in BOOLEAN /\ unserved \subseteq Units /\ muddled \in BOOLEAN

LEMMA TypeParts == TypeOK <=> RowTypes /\ SystemTypes /\ FileTypes /\ CountTypes
BY DEF TypeOK, RowTypes, SystemTypes, FileTypes, CountTypes

LEMMA TypePartsNext == TypeOK' <=> RowTypes' /\ SystemTypes' /\ FileTypes' /\ CountTypes'
BY DEF TypeOK, RowTypes, SystemTypes, FileTypes, CountTypes

LEMMA GeneratedType ==
    ASSUME NEW sh \in [Shares -> {None} \cup Share]
    PROVE  Generated(sh) \in [Units -> [Shares -> SUBSET Listed]]
<1> SUFFICES ASSUME NEW u \in Units, NEW s \in Shares
             PROVE  (IF sh[s] = None THEN {} ELSE IF u = "nfs" THEN Exported(sh[s])
                     ELSE sh[s].people \cup sh[s].teams) \subseteq Listed
  BY DEF Generated
<1>1. CASE sh[s] # None
  <2>1. sh[s] \in Share
    BY <1>1
  <2> QED  BY <1>1, <2>1 DEF Share, Exported, Listed
<1> QED  BY <1>1

LEMMA MishapCounts ==
    ASSUME CountTypes, Mishap
    PROVE  mishaps' \in 0 .. MaxMishaps
BY SharingAssumption DEF CountTypes, Mishap

\* What the generated files may be afterwards.
LEMMA ApplyingWrites ==
    ASSUME TypeOK, NEW sh \in [Shares -> {None} \cup Share], ApplyGeneratedConfigs(sh)
    PROVE  /\ file' \in [Units -> [Shares -> SUBSET Listed]]
           /\ mishaps' \in 0 .. MaxMishaps /\ unwritten' \in BOOLEAN
           /\ unwritten' \/ file' = Generated(sh)
<1>1. FileTypes /\ CountTypes
  BY TypeParts
<1>2. CASE file' = Generated(sh) /\ unwritten' = FALSE /\ UNCHANGED mishaps
  BY <1>1, <1>2, GeneratedType DEF CountTypes
<1>3. ASSUME NEW lost \in Units, Mishap, unwritten' = TRUE,
             file' = [Generated(sh) EXCEPT ![lost] = file[lost]]
      PROVE  /\ file' \in [Units -> [Shares -> SUBSET Listed]]
             /\ mishaps' \in 0 .. MaxMishaps
  BY <1>1, <1>3, GeneratedType, MishapCounts DEF FileTypes
<1> QED  BY <1>2, <1>3 DEF ApplyGeneratedConfigs

LEMMA BeginServes ==
    ASSUME ServedInv, NEW r \in Requests, NEW steps \in Program, Begin(r, steps), RowTypes',
           \/ NoWrite /\ shares' = shares /\ UNCHANGED unwritten
           \/ NoWrite /\ unwritten' = TRUE
           \/ NoWrite /\ Writes(steps) /\ UNCHANGED unwritten
           \/ ApplyGeneratedConfigs(shares') /\ Told(steps)
    PROVE  ServedInv'
<1>1. Shape /\ TypeOK /\ FilesInHand /\ ReloadsInHand
  BY DEF ServedInv, Shape
<1>2. /\ todo[r] = <<>> /\ todo' = [todo EXCEPT ![r] = steps]
      /\ UNCHANGED <<system, unserved>> /\ r \in Procs
      /\ changes < MaxChanges /\ changes' = changes + 1 /\ muddled' = (muddled \/ ~Quiet)
  BY DEF Begin, Procs
<1>3. todo' \in [Procs -> Program] /\ todo'[r] = steps
      /\ \A p \in Procs : todo'[p] = todo[p] \/ p = r
  BY <1>1, <1>2 DEF Shape
<1>4. SystemTypes'
  BY <1>1, <1>2, TypeParts DEF SystemTypes, system
<1>5. /\ file' \in [Units -> [Shares -> SUBSET Listed]]
      /\ mishaps' \in 0 .. MaxMishaps /\ unwritten' \in BOOLEAN
  <2>1. FileTypes /\ CountTypes
    BY <1>1, TypeParts
  <2>2. CASE ApplyGeneratedConfigs(shares')
    BY <1>1, <2>2, ApplyingWrites DEF RowTypes
  <2>3. CASE NoWrite
    BY <2>1, <2>3 DEF NoWrite, FileTypes, CountTypes, ApplyGeneratedConfigs
  <2>4. NoWrite => unwritten' = TRUE \/ UNCHANGED unwritten \/ ApplyGeneratedConfigs(shares')
    OBVIOUS
  <2> QED  BY <2>1, <2>2, <2>3, <2>4 DEF CountTypes
<1>6. TypeOK'
  <2>1. FileTypes'
    BY <1>1, <1>2, <1>5, TypeParts DEF FileTypes, system
  <2>2. CountTypes'
    BY <1>1, <1>2, <1>5, TypeParts, SharingAssumption DEF CountTypes
  <2> QED  BY <1>4, <2>1, <2>2, TypePartsNext
<1>7. FilesInHand'
  <2>1. CASE NoWrite /\ shares' = shares /\ UNCHANGED unwritten
    <3>1. CASE unwritten \/ file = Generated(shares)
      BY <2>1, <3>1 DEF FilesInHand, NoWrite
    <3>2. ASSUME NEW p \in Procs, NEW i \in DOMAIN todo[p], todo[p][i].op = "write"
          PROVE  FilesInHand'
      BY <1>2, <1>3, <3>2 DEF FilesInHand
    <3> QED  BY <1>1, <3>1, <3>2 DEF FilesInHand
  <2>2. CASE unwritten' = TRUE
    BY <2>2 DEF FilesInHand
  <2>3. CASE Writes(steps)
    BY <1>2, <1>3, <2>3 DEF FilesInHand, Writes
  <2>4. CASE ApplyGeneratedConfigs(shares')
    BY <1>1, <2>4, ApplyingWrites DEF FilesInHand, RowTypes
  <2> QED  BY <2>1, <2>2, <2>3, <2>4
<1>8. ReloadsInHand'
  <2> SUFFICES ASSUME NEW u \in Units, u \notin unserved'
               PROVE  loaded'[u] \in {None, file'[u]} \/ ToBeTold(u)'
    BY DEF ReloadsInHand
  <2>1. CASE Told(steps)
    BY <1>2, <1>3, <2>1 DEF Told, ToBeTold
  <2>2. CASE NoWrite
    <3>1. loaded[u] \in {None, file[u]} \/ ToBeTold(u)
      BY <1>1, <1>2 DEF ReloadsInHand
    <3>2. ASSUME ToBeTold(u)
          PROVE  ToBeTold(u)'
      <4>1. PICK p \in Procs :
              /\ \E i \in DOMAIN todo[p] : todo[p][i].op = "reload" /\ todo[p][i].on = u
              /\ \A i \in DOMAIN todo[p] : todo[p][i].op # "mkdir"
        BY <3>2 DEF ToBeTold
      <4>2. todo'[p] = todo[p]
        BY <1>2, <1>3, <4>1
      <4> QED  BY <4>1, <4>2 DEF ToBeTold
    <3> QED  BY <1>2, <2>2, <3>1, <3>2 DEF NoWrite, system
  <2> QED  BY <2>1, <2>2
<1> QED  BY <1>3, <1>6, <1>7, <1>8 DEF ServedInv, Shape

\* A command other than a write: what is to be told is told, or was left out.
LEMMA CommandServes ==
    ASSUME ServedInv, NEW p \in Procs, NEW n, Reworked(p, n),
           n # 0 => todo[p][1].op = "readGroup",
           \A i \in 1 .. n : todo'[p][i].op \in {"join", "leave"},
           todo[p][1].op # "write", UNCHANGED <<file, shares, unwritten>>, TypeOK',
           \A u \in Units \ unserved' :
              \/ loaded'[u] \in {None, file[u]}
              \/ /\ u \notin unserved /\ loaded'[u] = loaded[u]
                 /\ ~(todo[p][1].op = "reload" /\ todo[p][1].on = u)
    PROVE  ServedInv'
<1>1. Shape /\ FilesInHand /\ ReloadsInHand
  BY DEF ServedInv
<1>2. todo' \in [Procs -> Program]
  BY <1>1, ReworkedPrograms
<1>3. \A q \in Procs : \A i \in DOMAIN todo[q] :
         (q = p /\ i = 1) \/ \E j \in DOMAIN todo'[q] : todo'[q][j] = todo[q][i]
  BY <1>1, ReworkedKeeps
<1>4. FilesInHand'
  <2>1. CASE unwritten \/ file = Generated(shares)
    BY <2>1 DEF FilesInHand
  <2>2. ASSUME NEW q \in Procs, NEW i \in DOMAIN todo[q], todo[q][i].op = "write"
        PROVE  FilesInHand'
    <3>1. PICK j \in DOMAIN todo'[q] : todo'[q][j] = todo[q][i]
      BY <1>3, <2>2
    <3> QED  BY <2>2, <3>1 DEF FilesInHand
  <2> QED  BY <1>1, <2>1, <2>2 DEF FilesInHand
<1>5. ReloadsInHand'
  <2> SUFFICES ASSUME NEW u \in Units, u \notin unserved', loaded'[u] \notin {None, file[u]}
               PROVE  ToBeTold(u)'
    BY DEF ReloadsInHand
  <2>1. /\ u \notin unserved /\ loaded'[u] = loaded[u]
        /\ ~(todo[p][1].op = "reload" /\ todo[p][1].on = u)
    OBVIOUS
  <2>2. ToBeTold(u)
    BY <1>1, <2>1 DEF ReloadsInHand
  <2>3. PICK q \in Procs :
          /\ \E i \in DOMAIN todo[q] : todo[q][i].op = "reload" /\ todo[q][i].on = u
          /\ \A i \in DOMAIN todo[q] : todo[q][i].op # "mkdir"
    BY <2>2 DEF ToBeTold
  <2>4. PICK i \in DOMAIN todo[q] : todo[q][i].op = "reload" /\ todo[q][i].on = u
    BY <2>3
  <2>5. PICK j \in DOMAIN todo'[q] : todo'[q][j] = todo[q][i]
    BY <1>3, <2>1, <2>4
  <2>6. \A k \in DOMAIN todo'[q] : todo'[q][k].op # "mkdir"
    <3>1. CASE q # p
      BY <1>1, <2>3, <3>1, ReworkedKeeps
    <3>2. CASE q = p
      <4> SUFFICES ASSUME NEW k \in DOMAIN todo'[p]
                   PROVE  todo'[p][k].op # "mkdir"
        BY <3>2
      <4>1. CASE k > n
        <5>1. /\ k + 1 - n \in DOMAIN todo[p]
              /\ todo'[p][k] = todo[p][k + 1 - n]
          BY <1>1, <4>1, ReworkedKeeps
        <5> QED  BY <2>3, <3>2, <5>1
      <4>2. CASE ~(k > n)
        <5>1. k \in 1 .. n
          BY <1>1, <4>2, ReworkedKeeps
        <5> QED  BY <5>1
      <4> QED  BY <4>1, <4>2
    <3> QED  BY <3>1, <3>2
  <2> QED  BY <2>4, <2>5, <2>6 DEF ToBeTold
<1> QED  BY <1>2, <1>4, <1>5 DEF ServedInv, Shape

LEMMA RowTypesNow == ASSUME ServedInv PROVE RowTypes /\ TypeOK
BY TypeParts DEF ServedInv, Shape

LEMMA RequestServes ==
    ASSUME ServedInv, NEW r \in Requests, Request(r)
    PROVE  ServedInv'
<1>1. RowTypes
  BY RowTypesNow
<1>2. ASSUME NEW u \in Users, CreateUser(r, u)
      PROVE  ServedInv'
  <2>1. RowTypes'
    BY <1>1, <1>2 DEF CreateUser, RowTypes
  <2>2. SyncUser(u) \in Program
    BY SyncUserProgram
  <2> QED  BY <1>2, <2>1, <2>2, BeginServes DEF CreateUser
<1>3. ASSUME NEW u \in Users, ChangePassword(r, u)
      PROVE  ServedInv'
  <2>1. RowTypes'
    BY <1>1, <1>3 DEF ChangePassword, RowTypes, rows
  <2>2. Do("hash", u, {}) \o SyncUser(u) \in Program
    BY PasswordProgram
  <2> QED  BY <1>3, <2>1, <2>2, BeginServes DEF ChangePassword, rows
<1>4. ASSUME NEW u \in Users, DeleteUser(r, u)
      PROVE  ServedInv'
  <2>1. RowTypes'
    <3>1. groups' \in [Groups -> {None} \cup SUBSET Users]
      BY <1>1, <1>4 DEF DeleteUser, RowTypes
    <3>2. shares' \in [Shares -> {None} \cup Share]
      BY <1>1, <1>4 DEF DeleteUser, RowTypes, Share
    <3> QED  BY <1>1, <1>4, <3>1, <3>2 DEF DeleteUser, RowTypes
  <2>2. RemoveUser(u) \in Program
    BY RemoveUserProgram
  <2> QED  BY <1>4, <2>1, <2>2, BeginServes DEF DeleteUser
<1>5. ASSUME NEW g \in Groups, CreateGroup(r, g)
      PROVE  ServedInv'
  <2>1. RowTypes'
    BY <1>1, <1>5 DEF CreateGroup, RowTypes
  <2>2. SyncGroup(g, {}) \in Program
    BY SyncGroupProgram
  <2> QED  BY <1>5, <2>1, <2>2, BeginServes DEF CreateGroup
<1>6. ASSUME NEW g \in Groups, DeleteGroup(r, g)
      PROVE  ServedInv'
  <2>1. RowTypes'
    <3>1. groups' \in [Groups -> {None} \cup SUBSET Users]
      BY <1>1, <1>6 DEF DeleteGroup, RowTypes
    <3>2. shares' \in [Shares -> {None} \cup Share]
      BY <1>1, <1>6 DEF DeleteGroup, RowTypes, Share
    <3> QED  BY <1>1, <1>6, <3>1, <3>2 DEF DeleteGroup, RowTypes
  <2> DEFINE steps == Do("dropGroup", g, {}) \o Write \o Reloads
  <2>2. steps \in Program /\ Writes(steps)
    BY DropGroupProgram
  <2>3. Begin(r, steps) /\ NoWrite /\ UNCHANGED unwritten
    BY <1>6 DEF DeleteGroup
  <2> HIDE DEF steps
  <2> QED  BY <2>1, <2>2, <2>3, BeginServes
<1>7. ASSUME NEW g \in Groups, NEW m \in SUBSET Users, SetMembers(r, g, m)
      PROVE  ServedInv'
  <2>1. RowTypes'
    BY <1>1, <1>7 DEF SetMembers, RowTypes
  <2> DEFINE steps == SyncGroup(g, m) \o Write \o Reloads
  <2>2. steps \in Program
    BY MembersProgram
  <2>3. Begin(r, steps) /\ NoWrite /\ UNCHANGED unwritten /\ shares' = shares
    BY <1>7 DEF SetMembers
  <2> HIDE DEF steps
  <2> QED  BY <2>1, <2>2, <2>3, BeginServes
<1>8. ASSUME NEW s \in Shares, CreateShare(r, s)
      PROVE  ServedInv'
  <2>1. RowTypes'
    BY <1>1, <1>8 DEF CreateShare, RowTypes, Share
  <2> DEFINE steps == Do("mkdir", s, {}) \o Write \o Reloads
  <2>2. steps \in Program /\ Writes(steps)
    BY FolderProgram DEF FolderOps
  <2>3. Begin(r, steps) /\ NoWrite /\ UNCHANGED unwritten
    BY <1>8 DEF CreateShare
  <2> HIDE DEF steps
  <2> QED  BY <2>1, <2>2, <2>3, BeginServes
<1>9. ASSUME NEW s \in Shares, DeleteShare(r, s)
      PROVE  ServedInv'
  <2>1. RowTypes'
    BY <1>1, <1>9 DEF DeleteShare, RowTypes
  <2>2. Reloads \in Program /\ Told(Reloads)
    BY ReloadsProgram
  <2> QED  BY <1>9, <2>1, <2>2, BeginServes DEF DeleteShare
<1>10. ASSUME NEW s \in Shares, NEW people \in SUBSET Users, NEW teams \in SUBSET Groups,
              UpdateShare(r, s, people, teams)
       PROVE  ServedInv'
  <2>1. RowTypes'
    <3>1. shares[s] \in Share
      BY <1>1, <1>10 DEF UpdateShare, RowTypes
    <3>2. shares' = [shares EXCEPT ![s] = [shares[s] EXCEPT !.people = people, !.teams = teams]]
      BY <1>1, <1>10 DEF UpdateShare, RowTypes
    <3>3. [shares[s] EXCEPT !.people = people, !.teams = teams] \in Share
      BY <3>1 DEF Share
    <3> QED  BY <1>1, <1>10, <3>2, <3>3 DEF UpdateShare, RowTypes
  <2>2. CASE ApplyGeneratedConfigs(shares') /\ Begin(r, Reloads)
    <3>1. Reloads \in Program /\ Told(Reloads)
      BY ReloadsProgram
    <3> QED  BY <2>1, <2>2, <3>1, BeginServes
  <2> DEFINE steps == Do("quota", s, {}) \o Write \o Reloads
  <2>3. steps \in Program /\ Writes(steps)
    BY FolderProgram DEF FolderOps
  <2>4. CASE Begin(r, steps) /\ NoWrite /\ UNCHANGED unwritten
    <3> HIDE DEF steps
    <3> QED  BY <2>1, <2>3, <2>4, BeginServes
  <2> QED  BY <1>10, <2>2, <2>4 DEF UpdateShare
<1>11. ASSUME NEW on \in SUBSET Units, PutServices(r, on)
       PROVE  ServedInv'
  <2>1. RowTypes' /\ shares' = shares
    BY <1>1, <1>11 DEF PutServices, RowTypes
  <2> DEFINE steps == ApplyServiceStates(on) \o Reloads
  <2>2. steps \in Program /\ Told(steps)
    BY PutServicesProgram
  <2>3. Begin(r, steps) /\ ApplyGeneratedConfigs(shares')
    BY <1>11, <2>1 DEF PutServices
  <2> HIDE DEF steps
  <2> QED  BY <2>1, <2>2, <2>3, BeginServes
<1> QED  BY <1>2, <1>3, <1>4, <1>5, <1>6, <1>7, <1>8, <1>9, <1>10, <1>11 DEF Request

LEMMA NfsRulesServe ==
    ASSUME ServedInv, NEW s \in Shares, NEW k \in Clients, ChangeNfsRules(s, k)
    PROVE  ServedInv'
<1>1. RowTypes /\ SystemTypes /\ FileTypes /\ CountTypes /\ TypeOK
  BY RowTypesNow, TypeParts
<1>2. shares' \in [Shares -> {None} \cup Share]
  <2>1. shares[s] \in Share
    BY <1>1 DEF ChangeNfsRules, RowTypes
  <2>2. PICK own \in SUBSET Clients : shares' = [shares EXCEPT ![s].clients = own]
    BY <2>1 DEF ChangeNfsRules, Share
  <2>3. [shares[s] EXCEPT !.clients = own] \in Share
    BY <2>1 DEF Share
  <2> QED  BY <1>1, <2>2, <2>3 DEF RowTypes
<1>3. /\ file' \in [Units -> [Shares -> SUBSET Listed]]
      /\ mishaps' \in 0 .. MaxMishaps /\ unwritten' \in BOOLEAN
      /\ unwritten' \/ file' = Generated(shares')
  BY <1>1, <1>2, ApplyingWrites DEF ChangeNfsRules
<1>4. TypeOK'
  <2>1. RowTypes' /\ SystemTypes'
    BY <1>1, <1>2 DEF ChangeNfsRules, RowTypes, SystemTypes, system
  <2>2. FileTypes' /\ CountTypes'
    BY <1>1, <1>3, SharingAssumption DEF ChangeNfsRules, FileTypes, CountTypes, system
  <2> QED  BY <2>1, <2>2, TypePartsNext
<1>5. FilesInHand' /\ ReloadsInHand'
  BY <1>3 DEF FilesInHand, ReloadsInHand, ChangeNfsRules
<1> QED  BY <1>4, <1>5 DEF ServedInv, Shape, ChangeNfsRules

-----------------------------------------------------------------------------
(* The commands: files and daemons *)

LEMMA NowIsFirst ==
    ASSUME Shape, NEW p \in Procs, NEW op, Now(p, op)
    PROVE  /\ todo[p] # <<>> /\ todo[p][1].op = op /\ On(p) = todo[p][1].on
           /\ Head(todo[p]) = todo[p][1] /\ todo[p][1] \in Step
BY HeadIsFirst DEF Now, On

\* Commands that touch accounts, groups and the runlevel, or nothing.
LEMMA OtherCommandsServe ==
    ASSUME ServedInv, NEW p \in Procs, NEW op \in Ops \ {"write", "reload"}, Now(p, op),
           Advance(p), UnchangedByCommand,
           UNCHANGED <<file, loaded, mishaps, unwritten, unserved>>, SystemTypes'
    PROVE  ServedInv'
<1>1. Shape /\ RowTypes /\ FileTypes /\ CountTypes
  BY RowTypesNow, TypeParts DEF ServedInv
<1>2. todo[p] # <<>> /\ todo[p][1].op = op
  BY <1>1, NowIsFirst
<1>3. Reworked(p, 0)
  BY <1>1, <1>2, AdvanceReworks
<1>4. TypeOK'
  <2>1. RowTypes' /\ FileTypes' /\ CountTypes'
    BY <1>1 DEF RowTypes, FileTypes, CountTypes, UnchangedByCommand, rows
  <2> QED  BY <2>1, TypePartsNext
<1>5. \A u \in Units \ unserved' :
         \/ loaded'[u] \in {None, file[u]}
         \/ /\ u \notin unserved /\ loaded'[u] = loaded[u]
            /\ ~(todo[p][1].op = "reload" /\ todo[p][1].on = u)
  BY <1>2
<1>6. UNCHANGED <<file, shares, unwritten>>
  BY DEF UnchangedByCommand, rows
<1>7. \A i \in 1 .. 0 : todo'[p][i].op \in {"join", "leave"}
  OBVIOUS
<1> QED  BY <1>2, <1>3, <1>4, <1>5, <1>6, <1>7, CommandServes

LEMMA SystemCommandsServe ==
    ASSUME ServedInv, NEW p \in Procs,
           \/ Pause(p) \/ MakeDirectory(p) \/ SetRunlevel(p) \/ ChangeSystemUser(p)
           \/ ChangeSambaUser(p) \/ ChangeSystemGroup(p) \/ ChangeMembership(p)
    PROVE  ServedInv'
<1>1. Shape /\ SystemTypes
  BY RowTypesNow, TypeParts DEF ServedInv
<1>2. \A op : Now(p, op) => Head(todo[p]) \in Step /\ Head(todo[p]).op = op
                            /\ On(p) = Head(todo[p]).on
  BY <1>1, NowIsFirst
<1>3. CASE Pause(p) \/ MakeDirectory(p)
  <2>1. SystemTypes'
    BY <1>1, <1>3 DEF Pause, MakeDirectory, SystemTypes, system
  <2>2. CASE Now(p, "hash")
    BY <1>3, <2>1, <2>2, OtherCommandsServe
       DEF Pause, MakeDirectory, system, Ops, AccountOps
  <2>3. CASE Now(p, "quota")
    BY <1>3, <2>1, <2>3, OtherCommandsServe
       DEF Pause, MakeDirectory, system, Ops, FolderOps
  <2>4. CASE Now(p, "mkdir")
    BY <1>3, <2>1, <2>4, OtherCommandsServe
       DEF Pause, MakeDirectory, system, Ops, FolderOps
  <2> QED  BY <1>3, <2>2, <2>3, <2>4 DEF Pause, MakeDirectory
<1>4. CASE SetRunlevel(p)
  <2>1. PICK op \in {"bootAdd", "bootDel"} : Now(p, op)
    BY <1>4 DEF SetRunlevel
  <2>2. On(p) \in Units /\ op \in Ops \ {"write", "reload"}
    BY <1>2, <2>1 DEF Step, ServiceOps, Ops
  <2>3. SystemTypes'
    BY <1>1, <1>4, <2>2 DEF SetRunlevel, SystemTypes
  <2> QED  BY <1>4, <2>1, <2>2, <2>3, OtherCommandsServe DEF SetRunlevel
<1>5. CASE ChangeSystemUser(p)
  <2>1. PICK op \in {"makeUser", "dropUser"} : Now(p, op)
    BY <1>5 DEF ChangeSystemUser
  <2>2. On(p) \in Users /\ op \in Ops \ {"write", "reload"}
    BY <1>2, <2>1 DEF Step, AccountOps, Ops
  <2>3. sysGroups' \in [Groups -> {None} \cup SUBSET Users]
    BY <1>1, <1>5 DEF ChangeSystemUser, SystemTypes
  <2>4. SystemTypes'
    BY <1>1, <1>5, <2>2, <2>3 DEF ChangeSystemUser, SystemTypes
  <2> QED  BY <1>5, <2>1, <2>2, <2>4, OtherCommandsServe DEF ChangeSystemUser
<1>6. CASE ChangeSambaUser(p)
  <2>1. PICK op \in {"setPassword", "dropPassword"} : Now(p, op)
    BY <1>6 DEF ChangeSambaUser
  <2>2. On(p) \in Users /\ op \in Ops \ {"write", "reload"}
    BY <1>2, <2>1 DEF Step, AccountOps, Ops
  <2>3. SystemTypes'
    BY <1>1, <1>6, <2>2 DEF ChangeSambaUser, SystemTypes
  <2> QED  BY <1>6, <2>1, <2>2, <2>3, OtherCommandsServe DEF ChangeSambaUser
<1>7. CASE ChangeSystemGroup(p)
  <2>1. PICK op \in {"makeGroup", "dropGroup"} : Now(p, op)
    BY <1>7 DEF ChangeSystemGroup
  <2>2. op \in Ops \ {"write", "reload"}
    BY <2>1 DEF GroupOps, Ops
  <2>3. SystemTypes'
    BY <1>1, <1>7 DEF ChangeSystemGroup, SystemTypes
  <2> QED  BY <1>7, <2>1, <2>2, <2>3, OtherCommandsServe DEF ChangeSystemGroup
<1>8. CASE ChangeMembership(p)
  <2>1. PICK op \in {"join", "leave"} : Now(p, op)
    BY <1>8 DEF ChangeMembership
  <2>2. op \in Ops \ {"write", "reload"}
    BY <2>1 DEF GroupOps, Ops
  <2>3. SystemTypes'
    BY <1>1, <1>8 DEF ChangeMembership, SystemTypes
  <2> QED  BY <1>8, <2>1, <2>2, <2>3, OtherCommandsServe DEF ChangeMembership
<1> QED  BY <1>3, <1>4, <1>5, <1>6, <1>7, <1>8

LEMMA WriteFilesServes ==
    ASSUME ServedInv, NEW p \in Procs, WriteFiles(p)
    PROVE  ServedInv'
<1>1. Shape /\ TypeOK /\ RowTypes /\ SystemTypes /\ FileTypes /\ CountTypes
  BY RowTypesNow, TypeParts DEF ServedInv
<1>2. todo[p] # <<>> /\ todo[p][1].op = "write"
  BY <1>1, NowIsFirst DEF WriteFiles
<1>3. Reworked(p, 0)
  BY <1>1, <1>2, AdvanceReworks DEF WriteFiles
<1>4. todo' \in [Procs -> Program]
  <2>1. \A i \in 1 .. 0 : todo'[p][i].op \in {"join", "leave"}
    OBVIOUS
  <2> QED  BY <1>1, <1>3, <2>1, ReworkedPrograms
<1>5. UNCHANGED <<users, groups, shares, enabled, changes, muddled, unserved>>
      /\ UNCHANGED <<sysUsers, passdb, sysGroups, loaded, boot>>
  BY DEF WriteFiles, UnchangedByCommand, rows, system
<1>6. /\ file' \in [Units -> [Shares -> SUBSET Listed]]
      /\ mishaps' \in 0 .. MaxMishaps /\ unwritten' \in BOOLEAN
      /\ unwritten' \/ file' = Generated(shares')
  <2>1. ApplyGeneratedConfigs(shares)
    BY DEF WriteFiles
  <2> QED  BY <1>1, <1>5, <2>1, ApplyingWrites DEF RowTypes
<1>7. TypeOK'
  <2>1. RowTypes' /\ SystemTypes' /\ FileTypes' /\ CountTypes'
    BY <1>1, <1>5, <1>6 DEF RowTypes, SystemTypes, FileTypes, CountTypes
  <2> QED  BY <2>1, TypePartsNext
<1>8. ASSUME NEW u \in Units
      PROVE  ToBeTold(u)'
  <2>1. Orderly(todo[p]) /\ 1 \in DOMAIN todo[p]
    BY <1>1, <1>3, ProgramsAreSequences, ReworkedKeeps
  <2>2. PICK j \in DOMAIN todo[p] : 1 < j /\ todo[p][j].op = "reload" /\ todo[p][j].on = u
    BY <1>2, <2>1 DEF Orderly
  <2>3. j - 1 + 0 \in DOMAIN todo'[p] /\ todo'[p][j - 1 + 0] = todo[p][j]
    BY <1>1, <1>3, <2>2, ReworkedKeeps
  <2>4. ASSUME NEW k \in DOMAIN todo'[p]
        PROVE  todo'[p][k].op # "mkdir"
    <3>1. k > 0
      BY <1>1, <1>3, ReworkedKeeps
    <3>2. /\ k + 1 - 0 \in DOMAIN todo[p] /\ k + 1 - 0 # 1
          /\ todo'[p][k] = todo[p][k + 1 - 0]
      BY <1>1, <1>3, <3>1, ReworkedKeeps
    <3> QED  BY <2>1, <3>2 DEF Orderly
  <2> QED  BY <2>2, <2>3, <2>4 DEF ToBeTold
<1>9. FilesInHand' /\ ReloadsInHand'
  BY <1>6, <1>8 DEF FilesInHand, ReloadsInHand
<1> QED  BY <1>4, <1>7, <1>9 DEF ServedInv, Shape

LEMMA DaemonCommandsServe ==
    ASSUME ServedInv, NEW p \in Procs, Reload(p) \/ StartOrStop(p)
    PROVE  ServedInv'
<1>1. Shape /\ RowTypes /\ SystemTypes /\ FileTypes /\ CountTypes
  BY RowTypesNow, TypeParts DEF ServedInv
<1>2. PICK op \in {"reload", "start", "stop"} : Now(p, op)
  BY DEF Reload, StartOrStop
<1>3. /\ todo[p] # <<>> /\ todo[p][1].op = op /\ On(p) = todo[p][1].on
      /\ On(p) \in Units
  BY <1>1, <1>2, NowIsFirst DEF Step, ServiceOps
<1>4. Advance(p) /\ UNCHANGED <<users, groups, shares, enabled, changes, muddled>>
      /\ UNCHANGED <<sysUsers, passdb, sysGroups, boot, file, mishaps, unwritten>>
  BY DEF Reload, StartOrStop, UnchangedByCommand, rows
<1>5. Reworked(p, 0)
  BY <1>1, <1>3, <1>4, AdvanceReworks
<1>6. /\ unserved' \subseteq Units /\ loaded' = [u \in Units |-> loaded'[u]]
      /\ \A u \in Units : loaded'[u] \in {None, file[u], loaded[u]}
      /\ \A u \in Units \ unserved' :
            \/ loaded'[u] \in {None, file[u]}
            \/ u \notin unserved /\ loaded'[u] = loaded[u] /\ ~(op = "reload" /\ On(p) = u)
  <2>1. /\ DOMAIN loaded = Units /\ unserved \subseteq Units
        /\ loaded = [u \in Units |-> loaded[u]]
    BY <1>1 DEF FileTypes, CountTypes
  <2>2. CASE Reload(p)
    <3>1. /\ loaded' = IF loaded[On(p)] = None THEN loaded
                      ELSE [loaded EXCEPT ![On(p)] = file[On(p)]]
          /\ unserved' = unserved \ {On(p)}
      BY <2>2 DEF Reload
    <3>2. CASE loaded[On(p)] = None
      BY <1>3, <2>1, <3>1, <3>2
    <3>3. CASE loaded[On(p)] # None
      BY <1>3, <2>1, <3>1, <3>3
    <3> QED  BY <3>2, <3>3
  <2>3. CASE StartOrStop(p)
    <3>1. /\ op # "reload"
          /\ loaded' = [loaded EXCEPT ![On(p)] =
                           IF op = "stop" THEN None
                           ELSE IF loaded[On(p)] = None THEN file[On(p)] ELSE loaded[On(p)]]
          /\ unserved' = IF loaded[On(p)] = None \/ op = "stop"
                         THEN unserved \ {On(p)} ELSE unserved
      BY <1>2, <1>3, <2>1, <2>3 DEF StartOrStop, Now
    <3>2. CASE op = "stop"
      BY <1>3, <2>1, <3>1, <3>2
    <3>3. CASE op # "stop"
      BY <1>3, <2>1, <3>1, <3>3
    <3> QED  BY <3>2, <3>3
  <2> QED  BY <2>2, <2>3
<1>7. TypeOK'
  <2>1. RowTypes' /\ SystemTypes' /\ FileTypes' /\ CountTypes'
    BY <1>1, <1>4, <1>6 DEF RowTypes, SystemTypes, FileTypes, CountTypes
  <2> QED  BY <2>1, TypePartsNext
<1>8. \A i \in 1 .. 0 : todo'[p][i].op \in {"join", "leave"}
  OBVIOUS
<1> QED  BY <1>3, <1>4, <1>5, <1>6, <1>7, <1>8, CommandServes

LEMMA ReadGroupServes ==
    ASSUME ServedInv, NEW p \in Procs, ReadGroup(p) \/ ReadGroupFails(p)
    PROVE  ServedInv'
<1>1. Shape /\ RowTypes /\ SystemTypes /\ FileTypes /\ CountTypes
  BY RowTypesNow, TypeParts DEF ServedInv
<1>2. Now(p, "readGroup")
  BY DEF ReadGroup, ReadGroupFails
<1>3. todo[p] # <<>> /\ todo[p][1].op = "readGroup" /\ On(p) \in Groups
  BY <1>1, <1>2, NowIsFirst DEF Step, GroupOps
<1>4. PICK current \in SUBSET Users : Reconcile(p, current)
  <2>1. (IF sysGroups[On(p)] = None THEN {} ELSE sysGroups[On(p)]) \in SUBSET Users
    BY <1>1, <1>3 DEF SystemTypes
  <2>2. {} \in SUBSET Users
    OBVIOUS
  <2> QED  BY <2>1, <2>2 DEF ReadGroup, ReadGroupFails
<1>5. PICK n \in Nat : Reworked(p, n) /\ Reconciled(p, current, n)
  BY <1>1, <1>2, <1>4, ReconcileReworks
<1>6. \A i \in 1 .. n : todo'[p][i].op \in {"join", "leave"}
  <2> SUFFICES ASSUME NEW i \in 1 .. n
               PROVE  todo'[p][i].op \in {"join", "leave"}
    OBVIOUS
  <2>1. PICK x \in Users : \/ todo'[p][i] = Command("join", On(p), {x})
                           \/ todo'[p][i] = Command("leave", On(p), {x})
    BY <1>5 DEF Reconciled
  <2> QED  BY <2>1 DEF Command
<1>7. /\ UNCHANGED <<users, groups, shares, enabled, changes, unwritten, unserved>>
      /\ UNCHANGED <<sysUsers, passdb, sysGroups, loaded, boot, file>>
  BY DEF ReadGroup, ReadGroupFails, UnchangedByCommand, rows, system
<1>8. muddled' \in BOOLEAN /\ mishaps' \in 0 .. MaxMishaps
  BY <1>1, MishapCounts DEF ReadGroup, ReadGroupFails, UnchangedByCommand, CountTypes
<1>9. TypeOK'
  <2>1. RowTypes' /\ SystemTypes' /\ FileTypes' /\ CountTypes'
    BY <1>1, <1>7, <1>8 DEF RowTypes, SystemTypes, FileTypes, CountTypes
  <2> QED  BY <2>1, TypePartsNext
<1>10. \A u \in Units \ unserved' :
          u \notin unserved /\ loaded'[u] = loaded[u]
          /\ ~(todo[p][1].op = "reload" /\ todo[p][1].on = u)
  BY <1>3, <1>7
<1>11. todo[p][1].op # "write"
  BY <1>3
<1> QED  BY <1>3, <1>5, <1>6, <1>7, <1>9, <1>10, <1>11, CommandServes

LEMMA FailingCommandServes ==
    ASSUME ServedInv, NEW p \in Procs, CommandFails(p)
    PROVE  ServedInv'
<1>1. Shape /\ RowTypes /\ SystemTypes /\ FileTypes /\ CountTypes
  BY RowTypesNow, TypeParts DEF ServedInv
<1>2. /\ todo[p] # <<>> /\ Head(todo[p]) = todo[p][1] /\ On(p) = todo[p][1].on
      /\ todo[p][1] \in Step
  BY <1>1, HeadIsFirst DEF CommandFails, On
<1>3. /\ todo[p][1].op \notin {"write", "readGroup"} /\ Advance(p)
      /\ muddled' = TRUE /\ mishaps' \in 0 .. MaxMishaps
      /\ UNCHANGED <<users, groups, shares, enabled, changes, unwritten>>
      /\ UNCHANGED <<sysUsers, passdb, sysGroups, loaded, boot, file>>
  BY <1>1, <1>2, MishapCounts DEF CommandFails, rows, system
<1>4. /\ unserved' \subseteq Units
      /\ \A u \in Units \ unserved' :
            u \notin unserved /\ ~(todo[p][1].op = "reload" /\ todo[p][1].on = u)
  <2>1. unserved \subseteq Units
    BY <1>1 DEF CountTypes
  <2>2. todo[p][1].op \in {"reload", "start", "stop"} => On(p) \in Units
    BY <1>2 DEF Step, ServiceOps
  <2>3. unserved' = IF todo[p][1].op \in {"reload", "start", "stop"}
                    THEN unserved \cup {On(p)} ELSE unserved
    BY <1>2 DEF CommandFails
  <2>4. CASE todo[p][1].op \in {"reload", "start", "stop"}
    BY <1>2, <2>1, <2>2, <2>3, <2>4
  <2>5. CASE todo[p][1].op \notin {"reload", "start", "stop"}
    BY <2>1, <2>3, <2>5
  <2> QED  BY <2>4, <2>5
<1>5. Reworked(p, 0)
  BY <1>1, <1>2, <1>3, AdvanceReworks
<1>6. TypeOK'
  <2>1. RowTypes' /\ SystemTypes' /\ FileTypes' /\ CountTypes'
    BY <1>1, <1>3, <1>4 DEF RowTypes, SystemTypes, FileTypes, CountTypes
  <2> QED  BY <2>1, TypePartsNext
<1>7. \A i \in 1 .. 0 : todo'[p][i].op \in {"join", "leave"}
  OBVIOUS
<1> QED  BY <1>3, <1>4, <1>5, <1>6, <1>7, CommandServes

\* The handler ends, and with it what it had to write and reload; it is not
\* one that a daemon waits for.
LEMMA FailingDirectoryServes ==
    ASSUME ServedInv, NEW p \in Procs, MakeDirectoryFails(p)
    PROVE  ServedInv'
<1>1. Shape /\ RowTypes /\ SystemTypes /\ FileTypes /\ CountTypes /\ ReloadsInHand
  BY RowTypesNow, TypeParts DEF ServedInv
<1>2. todo[p] # <<>> /\ todo[p][1].op = "mkdir" /\ 1 \in DOMAIN todo[p]
  BY <1>1, NowIsFirst, HeadIsFirst DEF MakeDirectoryFails
<1>3. /\ todo' = [todo EXCEPT ![p] = <<>>] /\ unwritten' = TRUE
      /\ mishaps' \in 0 .. MaxMishaps
      /\ UNCHANGED <<users, groups, enabled, changes, unserved, muddled>>
      /\ UNCHANGED <<sysUsers, passdb, sysGroups, loaded, boot, file>>
  BY <1>1, MishapCounts DEF MakeDirectoryFails, system
<1>4. shares' \in [Shares -> {None} \cup Share]
  BY <1>1 DEF MakeDirectoryFails, RowTypes
<1>5. TypeOK'
  <2>1. RowTypes' /\ SystemTypes' /\ FileTypes' /\ CountTypes'
    BY <1>1, <1>3, <1>4 DEF RowTypes, SystemTypes, FileTypes, CountTypes
  <2> QED  BY <2>1, TypePartsNext
<1>6. todo' \in [Procs -> Program]
  <2>1. <<>> \in Program
    BY DEF Program, OneKind, Orderly
  <2> QED  BY <1>1, <1>3, <2>1 DEF Shape
<1>7. ASSUME NEW u \in Units, ToBeTold(u)
      PROVE  ToBeTold(u)'
  <2>1. PICK q \in Procs :
          /\ \E i \in DOMAIN todo[q] : todo[q][i].op = "reload" /\ todo[q][i].on = u
          /\ \A i \in DOMAIN todo[q] : todo[q][i].op # "mkdir"
    BY <1>7 DEF ToBeTold
  <2>2. q # p
    BY <1>2, <2>1
  <2>3. todo'[q] = todo[q]
    BY <1>1, <1>3, <2>2 DEF Shape
  <2> QED  BY <2>1, <2>3 DEF ToBeTold
<1>8. ReloadsInHand'
  BY <1>1, <1>3, <1>7 DEF ReloadsInHand
<1>9. FilesInHand'
  BY <1>3 DEF FilesInHand
<1> QED  BY <1>5, <1>6, <1>8, <1>9 DEF ServedInv, Shape

\* With no handler in flight nothing is in hand.
LEMMA QuietIsExact ==
    ASSUME ServedInv, Quiet
    PROVE  FilesMatchRows /\ DaemonsServeFiles
<1>1. \A p \in Procs : DOMAIN todo[p] = {}
  <2>1. DOMAIN <<>> = {}
    OBVIOUS
  <2> QED  BY <2>1 DEF Quiet
<1>2. FilesMatchRows
  BY <1>1 DEF ServedInv, FilesInHand, FilesMatchRows
<1>3. DaemonsServeFiles
  BY <1>1 DEF ServedInv, ReloadsInHand, ToBeTold, DaemonsServeFiles
<1> QED  BY <1>2, <1>3

LEMMA RestartServes ==
    ASSUME ServedInv, Restart \/ Reboot
    PROVE  ServedInv'
<1>1. Shape /\ RowTypes /\ SystemTypes /\ FileTypes /\ CountTypes
      /\ FilesInHand /\ ReloadsInHand
  BY RowTypesNow, TypeParts DEF ServedInv
<1>2. /\ Stopped /\ mishaps' \in 0 .. MaxMishaps
      /\ UNCHANGED <<users, groups, shares, enabled, file, changes>>
      /\ UNCHANGED <<sysUsers, passdb, sysGroups, boot>>
      /\ unwritten' = (unwritten \/ ~Quiet) /\ muddled' = (muddled \/ ~Quiet)
  BY <1>1, MishapCounts DEF Restart, Reboot, Stopped, rows, system
<1>3. todo' \in [Procs -> Program]
  <2>1. <<>> \in Program
    BY DEF Program, OneKind, Orderly
  <2>2. ApplyServiceStates(enabled) \in Program
    BY ServiceProgram
  <2> QED  BY <1>2, <2>1, <2>2 DEF Stopped
<1>4. unserved' \subseteq Units
  BY <1>1 DEF Restart, Reboot, CountTypes
<1>5. /\ loaded' = [u \in Units |-> loaded'[u]]
      /\ \A u \in Units : loaded'[u] \in {None, file[u], loaded[u]}
  <2>1. CASE Restart
    BY <1>1, <2>1 DEF Restart, system, FileTypes
  <2>2. CASE Reboot
    BY <2>2 DEF Reboot
  <2> QED  BY <2>1, <2>2
<1>6. TypeOK'
  <2>1. RowTypes' /\ SystemTypes' /\ FileTypes' /\ CountTypes'
    BY <1>1, <1>2, <1>4, <1>5 DEF RowTypes, SystemTypes, FileTypes, CountTypes
  <2> QED  BY <2>1, TypePartsNext
<1>7. FilesInHand'
  <2>1. CASE Quiet
    BY <1>2, <2>1, QuietIsExact DEF FilesMatchRows, FilesInHand
  <2>2. CASE ~Quiet
    BY <1>2, <2>2 DEF FilesInHand
  <2> QED  BY <2>1, <2>2
<1>8. ReloadsInHand'
  <2>1. CASE Reboot
    BY <1>2, <2>1 DEF Reboot, ReloadsInHand
  <2>2. CASE Restart /\ ~Quiet
    BY <2>2 DEF Restart, ReloadsInHand
  <2>3. CASE Restart /\ Quiet
    BY <1>2, <2>3, QuietIsExact DEF Restart, system, DaemonsServeFiles, ReloadsInHand
  <2> QED  BY <2>1, <2>2, <2>3
<1> QED  BY <1>3, <1>6, <1>7, <1>8 DEF ServedInv, Shape

LEMMA PerformServes ==
    ASSUME ServedInv, NEW p \in Procs, Perform(p)
    PROVE  ServedInv'
BY SystemCommandsServe, WriteFilesServes, DaemonCommandsServe, ReadGroupServes,
   FailingCommandServes, FailingDirectoryServes DEF Perform

LEMMA ServedAtFirst == Init => ServedInv
<1> SUFFICES ASSUME Init
             PROVE  ServedInv
  OBVIOUS
<1>1. shares \in [Shares -> {None} \cup Share]
  BY DEF Init, Share
<1>2. RowTypes /\ SystemTypes
  BY <1>1 DEF Init, RowTypes, SystemTypes
<1>3. FileTypes
  <2>1. file \in [Units -> [Shares -> SUBSET Listed]]
    BY <1>1, GeneratedType DEF Init
  <2>2. loaded = [u \in Units |-> IF u \in enabled THEN file[u] ELSE None]
    BY DEF Init
  <2>3. \A u \in Units : loaded[u] = IF u \in enabled THEN file[u] ELSE None
    BY <2>2
  <2>4. loaded = [u \in Units |-> loaded[u]]
    BY <2>2
  <2>5. \A u \in Units : loaded[u] = None \/ loaded[u] \in [Shares -> SUBSET Listed]
    BY <2>1, <2>3
  <2> QED  BY <2>1, <2>4, <2>5 DEF FileTypes
<1>4. CountTypes
  <2>1. /\ changes = 0 /\ mishaps = 0
        /\ unwritten = FALSE /\ unserved = {} /\ muddled = FALSE
    BY DEF Init
  <2>2. 0 \in 0 .. MaxChanges /\ 0 \in 0 .. MaxMishaps
    BY SharingAssumption
  <2>3. FALSE \in BOOLEAN /\ {} \subseteq Units
    OBVIOUS
  <2> QED  BY <2>1, <2>2, <2>3, Zenon DEF CountTypes
<1>5. todo \in [Procs -> Program]
  <2>1. <<>> \in Program
    BY DEF Program, OneKind, Orderly
  <2> QED  BY <2>1 DEF Init
<1>6. FilesInHand /\ ReloadsInHand
  BY DEF Init, FilesInHand, ReloadsInHand
<1> QED  BY <1>2, <1>3, <1>4, <1>5, <1>6, TypeParts DEF ServedInv, Shape

LEMMA ServedThroughout == ServedInv /\ [Next]_vars => ServedInv'
<1> SUFFICES ASSUME ServedInv, [Next]_vars
             PROVE  ServedInv'
  OBVIOUS
<1>1. CASE UNCHANGED vars
  BY <1>1 DEF vars, rows, system, history, ServedInv, Shape, TypeOK, FilesInHand,
              ReloadsInHand, ToBeTold
<1>2. CASE Next
  BY <1>2, RequestServes, NfsRulesServe, PerformServes, RestartServes DEF Next
<1> QED  BY <1>1, <1>2

\* RowsAreServed holds throughout, however handlers overlap and whatever commands
\* fail: with no handler in flight the generated files say what the rows say,
\* unless an account was deleted, a write or mkdir failed or a restart came
\* halfway; and a daemon that is up serves the files, unless its own last
\* reload failed or was left out.
THEOREM WhatIsStoredIsServed == Spec => []RowsAreServed
<1>1. ServedInv => RowsAreServed
  <2>1. ServedInv => TypeOK
    BY DEF ServedInv, Shape
  <2>2. ServedInv => FilesMatchRows /\ DaemonsServeFiles
    BY QuietIsExact DEF FilesMatchRows, DaemonsServeFiles
  <2> QED  BY <2>1, <2>2 DEF RowsAreServed
<1> QED  BY <1>1, ServedAtFirst, ServedThroughout, PTL DEF Spec

-----------------------------------------------------------------------------
(* Requests: services, accounts and groups *)

\* The system is what the rows say.
Agreed ==
    /\ \A u \in Units : (u \in boot <=> u \in enabled) /\ (loaded[u] # None <=> u \in enabled)
    /\ \A u \in Users : (u \in sysUsers <=> u \in users) /\ (u \in passdb <=> u \in users)
    /\ \A g \in Groups : groups[g] # None =>
          sysGroups[g] # None /\ \A u \in Users : u \in sysGroups[g] <=> u \in groups[g]

LEMMA QuietAgrees ==
    ASSUME InStep, Quiet, ~muddled
    PROVE  Agreed
<1>1. \A p \in Procs : DOMAIN todo[p] = {}
  <2>1. DOMAIN <<>> = {}
    OBVIOUS
  <2> QED  BY <2>1 DEF Quiet
<1>2. \A ops, on : ~Ahead(ops, on)
  BY <1>1 DEF Ahead, Has
<1>3. \A g, u : ~Moving(g, u)
  BY <1>1 DEF Moving
<1>4. ServicesInHand /\ AccountsInHand /\ GroupsInHand
  BY DEF InStep
<1>5. \A u \in Units : (u \in boot <=> u \in enabled) /\ (loaded[u] # None <=> u \in enabled)
  BY <1>2, <1>4 DEF ServicesInHand
<1>6. \A u \in Users : (u \in sysUsers <=> u \in users) /\ (u \in passdb <=> u \in users)
  BY <1>2, <1>4 DEF AccountsInHand
<1>7. \A g \in Groups : groups[g] # None =>
          sysGroups[g] # None /\ \A u \in Users : u \in sysGroups[g] <=> u \in groups[g]
  BY <1>2, <1>3, <1>4 DEF GroupsInHand
<1> QED  BY <1>5, <1>6, <1>7 DEF Agreed

\* One request after the other: each difference it makes, it has the command for.
LEMMA BeginsInStep ==
    ASSUME Shape, InStep, NEW r \in Requests, NEW steps \in Program, Begin(r, steps),
           \A i \in DOMAIN steps : Consistent(steps[i])',
           Agreed => \A i \in DOMAIN steps :
              /\ steps[i].op = "setPassword" =>
                    steps[i].on \in sysUsers \/ Before(steps, i, "makeUser")
              /\ steps[i].op \in {"readGroup", "join", "leave"} =>
                    Before(steps, i, "makeGroup"),
           \A u \in Units :
              \/ u \in enabled' <=> u \in enabled
              \/ /\ Has(steps, {"bootAdd", "bootDel"}, u)
                 /\ Has(steps, {"start", "stop"}, u),
           \A u \in Users :
              \/ u \in users' <=> u \in users
              \/ /\ Has(steps, {"makeUser", "dropUser"}, u)
                 /\ Has(steps, {"setPassword", "dropPassword"}, u),
           \A g \in Groups : groups'[g] # None =>
              \/ Has(steps, {"makeGroup"}, g) /\ Has(steps, {"readGroup"}, g)
              \/ /\ groups[g] # None
                 /\ \A u \in Users : \/ u \in groups'[g] <=> u \in groups[g]
                                     \/ Has(steps, {"dropUser"}, u)
    PROVE  InStep'
<1> SUFFICES ASSUME ~muddled'
             PROVE  /\ StepsInOrder' /\ ServicesInHand' /\ AccountsInHand' /\ GroupsInHand'
  BY DEF InStep
<1>1. /\ ~muddled /\ Quiet /\ r \in Procs
      /\ UNCHANGED <<sysUsers, passdb, sysGroups, loaded, boot>>
      /\ todo' = [todo EXCEPT ![r] = steps]
  BY DEF Begin, Procs, system
<1>2. Agreed
  BY <1>1, QuietAgrees
<1>3. /\ todo'[r] = steps
      /\ \A p \in Procs \ {r} : todo'[p] = <<>> /\ DOMAIN todo'[p] = {}
  <2>1. DOMAIN <<>> = {}
    OBVIOUS
  <2> QED  BY <1>1, <2>1 DEF Shape, Quiet
<1>4. \A ops, on : Has(steps, ops, on) => Ahead(ops, on)'
  BY <1>1, <1>3 DEF Ahead, Has
<1>5. StepsInOrder'
  <2>1. OneAtATime'
    BY <1>3 DEF OneAtATime
  <2>2. \A i \in DOMAIN steps : Consistent(steps[i])' /\ Ready(steps, i)'
    BY <1>1, <1>2 DEF Ready, Before
  <2>3. \A p \in Procs : \A i \in DOMAIN todo'[p] :
           Consistent(todo[p][i])' /\ Ready(todo[p], i)'
    BY <1>3, <2>2 DEF Consistent, Ready, Before
  <2> QED  BY <2>1, <2>3 DEF StepsInOrder
<1>6. ServicesInHand'
  BY <1>1, <1>2, <1>4 DEF ServicesInHand, Agreed
<1>7. AccountsInHand'
  BY <1>1, <1>2, <1>4 DEF AccountsInHand, Agreed
<1>8. GroupsInHand'
  <2> SUFFICES ASSUME NEW g \in Groups, groups'[g] # None
               PROVE  /\ sysGroups'[g] = None =>
                            Ahead({"makeGroup"}, g)' /\ Ahead({"readGroup"}, g)'
                      /\ sysGroups'[g] # None => \A u \in Users :
                            \/ u \in sysGroups'[g] <=> u \in groups'[g]
                            \/ Ahead({"readGroup"}, g)' \/ Ahead({"dropUser"}, u)'
    BY DEF GroupsInHand
  <2>1. CASE Has(steps, {"makeGroup"}, g) /\ Has(steps, {"readGroup"}, g)
    BY <1>4, <2>1
  <2>2. CASE /\ groups[g] # None
             /\ \A u \in Users : \/ u \in groups'[g] <=> u \in groups[g]
                                 \/ Has(steps, {"dropUser"}, u)
    BY <1>1, <1>2, <1>4, <2>2 DEF Agreed
  <2> QED  BY <2>1, <2>2
<1> QED  BY <1>5, <1>6, <1>7, <1>8

\* Commands about folders, files and daemons are nothing to the accounts.
LEMMA FolderRequestInStep ==
    ASSUME Shape, InStep, NEW r \in Requests, NEW steps \in Program, Begin(r, steps),
           \A i \in DOMAIN steps : steps[i].op \in FolderOps \cup FileOps,
           UNCHANGED <<users, groups, enabled>>
    PROVE  InStep'
<1>1. \A i \in DOMAIN steps : Consistent(steps[i])'
  BY DEF Consistent, FolderOps, FileOps
<1>2. \A i \in DOMAIN steps :
         steps[i].op \notin {"setPassword", "readGroup", "join", "leave"}
  BY DEF FolderOps, FileOps
<1> QED  BY <1>1, <1>2, BeginsInStep

LEMMA AccountRequestInStep ==
    ASSUME ServedInv, InStep, NEW r \in Requests, NEW u \in Users,
           CreateUser(r, u) \/ ChangePassword(r, u) \/ DeleteUser(r, u)
    PROVE  InStep'
<1>1. Shape /\ RowTypes
  BY RowTypesNow DEF ServedInv
<1>2. CASE CreateUser(r, u)
  <2> DEFINE steps == SyncUser(u)
  <2>1. /\ Begin(r, steps) /\ users' = users \cup {u} /\ UNCHANGED <<groups, enabled>>
        /\ steps \in Program
    BY <1>2, SyncUserProgram DEF CreateUser
  <2>2. /\ DOMAIN steps = 1 .. 2 /\ steps[1] = Command("makeUser", u, {})
        /\ steps[2] = Command("setPassword", u, {})
    BY Programs
  <2> HIDE DEF steps
  <2>3. \A i \in DOMAIN steps : Consistent(steps[i])'
    BY <2>1, <2>2 DEF Consistent, Command
  <2>4. \A i \in DOMAIN steps :
           /\ steps[i].op = "setPassword" => Before(steps, i, "makeUser")
           /\ steps[i].op \notin {"readGroup", "join", "leave"}
    BY <2>2 DEF Before, Command
  <2>5. /\ Has(steps, {"makeUser", "dropUser"}, u)
        /\ Has(steps, {"setPassword", "dropPassword"}, u)
    BY <2>2 DEF Has, Command
  <2> QED  BY <1>1, <2>1, <2>3, <2>4, <2>5, BeginsInStep
<1>3. CASE ChangePassword(r, u)
  <2> DEFINE steps == Do("hash", u, {}) \o SyncUser(u)
  <2>1. /\ Begin(r, steps) /\ u \in users /\ UNCHANGED <<users, groups, enabled>>
        /\ steps \in Program
    BY <1>3, PasswordProgram DEF ChangePassword, rows
  <2>2. /\ DOMAIN steps = 1 .. 3 /\ steps[1] = Command("hash", u, {})
        /\ steps[2] = Command("makeUser", u, {}) /\ steps[3] = Command("setPassword", u, {})
    <3>1. steps = <<Command("hash", u, {}), Command("makeUser", u, {}),
                    Command("setPassword", u, {})>>
      BY Programs
    <3> HIDE DEF steps
    <3> QED  BY <3>1
  <2> HIDE DEF steps
  <2>3. \A i \in DOMAIN steps : Consistent(steps[i])'
    BY <2>1, <2>2 DEF Consistent, Command
  <2>4. \A i \in DOMAIN steps :
           /\ steps[i].op = "setPassword" => Before(steps, i, "makeUser")
           /\ steps[i].op \notin {"readGroup", "join", "leave"}
    BY <2>2 DEF Before, Command
  <2> QED  BY <1>1, <2>1, <2>3, <2>4, BeginsInStep
<1>4. CASE DeleteUser(r, u)
  <2> DEFINE steps == RemoveUser(u)
  <2>1. /\ Begin(r, steps) /\ users' = users \ {u} /\ UNCHANGED enabled
        /\ groups' = [g \in Groups |->
                         IF groups[g] = None THEN None ELSE groups[g] \ {u}]
        /\ steps \in Program
    BY <1>4, RemoveUserProgram DEF DeleteUser
  <2>2. /\ DOMAIN steps = 1 .. 2 /\ steps[1] = Command("dropPassword", u, {})
        /\ steps[2] = Command("dropUser", u, {})
    BY Programs
  <2> HIDE DEF steps
  <2>3. \A i \in DOMAIN steps : Consistent(steps[i])'
    BY <2>1, <2>2 DEF Consistent, Command
  <2>4. \A i \in DOMAIN steps :
           steps[i].op \notin {"setPassword", "readGroup", "join", "leave"}
    BY <2>2 DEF Command
  <2>5. /\ Has(steps, {"makeUser", "dropUser"}, u) /\ Has(steps, {"dropUser"}, u)
        /\ Has(steps, {"setPassword", "dropPassword"}, u)
    BY <2>2 DEF Has, Command
  <2>6. \A g \in Groups : groups'[g] # None =>
           /\ groups[g] # None
           /\ \A v \in Users : v # u => (v \in groups'[g] <=> v \in groups[g])
    BY <2>1
  <2> QED  BY <1>1, <2>1, <2>3, <2>4, <2>5, <2>6, BeginsInStep
<1> QED  BY <1>2, <1>3, <1>4

LEMMA GroupRequestInStep ==
    ASSUME ServedInv, InStep, NEW r \in Requests, NEW g \in Groups,
           \/ CreateGroup(r, g) \/ DeleteGroup(r, g)
           \/ \E m \in SUBSET Users : SetMembers(r, g, m)
    PROVE  InStep'
<1>1. Shape /\ RowTypes
  BY RowTypesNow DEF ServedInv
<1>2. ASSUME NEW m \in SUBSET Users, NEW steps \in Program, Begin(r, steps),
             DOMAIN steps \in {1 .. 2, 1 .. 5}, steps[1] = Command("makeGroup", g, {}),
             steps[2] = Command("readGroup", g, m),
             \A i \in DOMAIN steps \ {1, 2} : steps[i].op \in FileOps,
             groups' = [groups EXCEPT ![g] = m], UNCHANGED <<users, enabled>>
      PROVE  InStep'
  <2>1. groups'[g] = m /\ \A h \in Groups \ {g} : groups'[h] = groups[h]
    BY <1>1, <1>2 DEF RowTypes
  <2>2. \A i \in DOMAIN steps : Consistent(steps[i])'
    <3> SUFFICES ASSUME NEW i \in DOMAIN steps
                 PROVE  Consistent(steps[i])'
      OBVIOUS
    <3>1. CASE i = 1
      BY <1>2, <3>1 DEF Consistent, Command
    <3>2. CASE i = 2
      BY <1>2, <2>1, <3>2 DEF Consistent, Command
    <3>3. CASE i \notin {1, 2}
      BY <1>2, <3>3 DEF Consistent, FileOps
    <3> QED  BY <3>1, <3>2, <3>3
  <2>3. ASSUME NEW i \in DOMAIN steps
        PROVE  /\ steps[i].op # "setPassword"
               /\ steps[i].op \in {"readGroup", "join", "leave"} =>
                     Before(steps, i, "makeGroup")
    <3>1. CASE i = 1
      BY <1>2, <3>1 DEF Command
    <3>2. CASE i = 2
      BY <1>2, <3>2 DEF Command, Before
    <3>3. CASE i \notin {1, 2}
      BY <1>2, <3>3 DEF FileOps
    <3> QED  BY <3>1, <3>2, <3>3
  <2>4. Has(steps, {"makeGroup"}, g) /\ Has(steps, {"readGroup"}, g)
    BY <1>2 DEF Has, Command
  <2> QED  BY <1>1, <1>2, <2>1, <2>2, <2>3, <2>4, BeginsInStep
<1>3. CASE CreateGroup(r, g)
  <2> DEFINE steps == SyncGroup(g, {})
  <2>1. Begin(r, steps) /\ groups' = [groups EXCEPT ![g] = {}]
        /\ UNCHANGED <<users, enabled>> /\ steps \in Program
    BY <1>3, SyncGroupProgram DEF CreateGroup
  <2>2. /\ DOMAIN steps = 1 .. 2 /\ steps[1] = Command("makeGroup", g, {})
        /\ steps[2] = Command("readGroup", g, {})
    BY Programs
  <2> HIDE DEF steps
  <2>3. {} \in SUBSET Users /\ \A i \in DOMAIN steps \ {1, 2} : steps[i].op \in FileOps
    BY <2>2
  <2> QED  BY <1>2, <2>1, <2>2, <2>3
<1>4. ASSUME NEW m \in SUBSET Users, SetMembers(r, g, m)
      PROVE  InStep'
  <2> DEFINE steps == SyncGroup(g, m) \o Write \o Reloads
  <2>1. Begin(r, steps) /\ groups' = [groups EXCEPT ![g] = m]
        /\ UNCHANGED <<users, enabled>> /\ steps \in Program
    BY <1>4, MembersProgram DEF SetMembers
  <2>2. /\ DOMAIN steps = 1 .. 5 /\ steps[1] = Command("makeGroup", g, {})
        /\ steps[2] = Command("readGroup", g, m) /\ steps[3].op \in FileOps
        /\ steps[4].op \in FileOps /\ steps[5].op \in FileOps
    <3>1. steps = <<Command("makeGroup", g, {}), Command("readGroup", g, m),
                    Command("write", None, {}), Command("reload", "smb", {}),
                    Command("reload", "nfs", {})>>
      BY Programs
    <3> HIDE DEF steps
    <3> QED  BY <3>1 DEF Command, FileOps
  <2> HIDE DEF steps
  <2>3. \A i \in DOMAIN steps \ {1, 2} : steps[i].op \in FileOps
    BY <2>2
  <2> QED  BY <1>2, <2>1, <2>2, <2>3
<1>5. CASE DeleteGroup(r, g)
  <2> DEFINE steps == Do("dropGroup", g, {}) \o Write \o Reloads
  <2>1. Begin(r, steps) /\ groups' = [groups EXCEPT ![g] = None]
        /\ UNCHANGED <<users, enabled>> /\ steps \in Program
    BY <1>5, DropGroupProgram DEF DeleteGroup
  <2>2. /\ DOMAIN steps = 1 .. 4 /\ steps[1] = Command("dropGroup", g, {})
        /\ steps[2].op \in FileOps /\ steps[3].op \in FileOps /\ steps[4].op \in FileOps
    <3>1. steps = <<Command("dropGroup", g, {}), Command("write", None, {}),
                    Command("reload", "smb", {}), Command("reload", "nfs", {})>>
      BY Programs
    <3> HIDE DEF steps
    <3> QED  BY <3>1 DEF Command, FileOps
  <2> HIDE DEF steps
  <2>3. groups'[g] = None /\ \A h \in Groups \ {g} : groups'[h] = groups[h]
    BY <1>1, <2>1 DEF RowTypes
  <2>4. \A i \in DOMAIN steps \ {1} : steps[i].op \in FileOps
    BY <2>2
  <2>5. \A i \in DOMAIN steps : Consistent(steps[i])'
    BY <2>2, <2>3, <2>4 DEF Consistent, Command, FileOps
  <2>6. \A i \in DOMAIN steps :
           steps[i].op \notin {"setPassword", "readGroup", "join", "leave"}
    BY <2>2, <2>4 DEF Command, FileOps
  <2> QED  BY <1>1, <2>1, <2>3, <2>5, <2>6, BeginsInStep
<1> QED  BY <1>3, <1>4, <1>5

LEMMA ServicesRequestInStep ==
    ASSUME ServedInv, InStep, NEW r \in Requests, NEW on \in SUBSET Units, PutServices(r, on)
    PROVE  InStep'
<1>1. Shape /\ RowTypes
  BY RowTypesNow DEF ServedInv
<1> DEFINE a == Command(IF "smb" \in on THEN "bootAdd" ELSE "stop", "smb", {})
           b == Command(IF "smb" \in on THEN "start" ELSE "bootDel", "smb", {})
           c == Command(IF "nfs" \in on THEN "bootAdd" ELSE "stop", "nfs", {})
           d == Command(IF "nfs" \in on THEN "start" ELSE "bootDel", "nfs", {})
           steps == ApplyServiceStates(on) \o Reloads
<1>2. Begin(r, steps) /\ enabled' = on /\ UNCHANGED <<users, groups>> /\ steps \in Program
  BY PutServicesProgram DEF PutServices
<1>3. /\ DOMAIN steps = 1 .. 6 /\ steps[1] = a /\ steps[2] = b /\ steps[3] = c
      /\ steps[4] = d /\ steps[5].op = "reload" /\ steps[6].op = "reload"
  <2>1. steps = <<a, b, c, d, Command("reload", "smb", {}), Command("reload", "nfs", {})>>
    BY Programs
  <2> HIDE DEF steps, a, b, c, d
  <2> QED  BY <2>1 DEF Command
<1> HIDE DEF steps
<1>4. /\ a.on = "smb" /\ b.on = "smb" /\ c.on = "nfs" /\ d.on = "nfs"
      /\ a.op = (IF "smb" \in on THEN "bootAdd" ELSE "stop")
      /\ b.op = (IF "smb" \in on THEN "start" ELSE "bootDel")
      /\ c.op = (IF "nfs" \in on THEN "bootAdd" ELSE "stop")
      /\ d.op = (IF "nfs" \in on THEN "start" ELSE "bootDel")
  BY DEF Command
<1> HIDE DEF a, b, c, d
<1>5. ASSUME NEW i \in DOMAIN steps
      PROVE  /\ Consistent(steps[i])'
             /\ steps[i].op \notin {"setPassword", "readGroup", "join", "leave"}
  <2>1. CASE steps[i].op \in {"bootAdd", "start"}
    <3>1. steps[i].on \in on
      BY <1>3, <1>4, <2>1
    <3> QED  BY <1>2, <2>1, <3>1 DEF Consistent
  <2>2. CASE steps[i].op \in {"bootDel", "stop"}
    <3>1. steps[i].on \notin on
      BY <1>3, <1>4, <2>2
    <3> QED  BY <1>2, <2>2, <3>1 DEF Consistent
  <2>3. CASE steps[i].op = "reload"
    BY <2>3 DEF Consistent
  <2> QED  BY <1>3, <1>4, <2>1, <2>2, <2>3
<1>6. ASSUME NEW u \in Units
      PROVE  Has(steps, {"bootAdd", "bootDel"}, u) /\ Has(steps, {"start", "stop"}, u)
  <2>1. CASE u = "smb"
    BY <1>3, <1>4, <2>1 DEF Has
  <2>2. CASE u = "nfs"
    BY <1>3, <1>4, <2>2 DEF Has
  <2> QED  BY <2>1, <2>2 DEF Units
<1> QED  BY <1>1, <1>2, <1>5, <1>6, BeginsInStep

LEMMA ShareRequestInStep ==
    ASSUME ServedInv, InStep, NEW r \in Requests, NEW s \in Shares,
           \/ CreateShare(r, s) \/ DeleteShare(r, s)
           \/ \E people \in SUBSET Users, teams \in SUBSET Groups :
                 UpdateShare(r, s, people, teams)
    PROVE  InStep'
<1>1. Shape /\ UNCHANGED <<users, groups, enabled>>
  BY DEF ServedInv, CreateShare, DeleteShare, UpdateShare
<1>2. CASE Begin(r, Reloads)
  <2>1. Reloads \in Program /\ \A i \in DOMAIN Reloads : Reloads[i].op \in FileOps
    <3>1. Reloads = <<Command("reload", "smb", {}), Command("reload", "nfs", {})>>
      BY Programs
    <3> QED  BY <3>1, ReloadsProgram DEF Command, FileOps
  <2> QED  BY <1>1, <1>2, <2>1, FolderRequestInStep
<1>3. ASSUME NEW op \in FolderOps, Begin(r, Do(op, s, {}) \o Write \o Reloads)
      PROVE  InStep'
  <2> DEFINE steps == Do(op, s, {}) \o Write \o Reloads
  <2>1. steps \in Program
    BY FolderProgram
  <2>2. \A i \in DOMAIN steps : steps[i].op \in FolderOps \cup FileOps
    <3>1. steps = <<Command(op, s, {}), Command("write", None, {}),
                    Command("reload", "smb", {}), Command("reload", "nfs", {})>>
      BY Programs
    <3> HIDE DEF steps
    <3> QED  BY <3>1 DEF Command, FileOps
  <2>3. Begin(r, steps)
    BY <1>3
  <2> HIDE DEF steps
  <2> QED  BY <1>1, <2>1, <2>2, <2>3, FolderRequestInStep
<1>4. "mkdir" \in FolderOps /\ "quota" \in FolderOps
  BY DEF FolderOps
<1> QED  BY <1>2, <1>3, <1>4 DEF CreateShare, DeleteShare, UpdateShare

LEMMA NfsRulesInStep ==
    ASSUME InStep, NEW s \in Shares, NEW k \in Clients, ChangeNfsRules(s, k)
    PROVE  InStep'
BY DEF ChangeNfsRules, system, InStep, StepsInOrder, OneAtATime, Consistent, Ready,
       Before, ServicesInHand, AccountsInHand, GroupsInHand, Ahead, Has, Moving

LEMMA RequestInStep ==
    ASSUME ServedInv, InStep, NEW r \in Requests, Request(r)
    PROVE  InStep'
BY AccountRequestInStep, GroupRequestInStep, ShareRequestInStep, ServicesRequestInStep
   DEF Request

-----------------------------------------------------------------------------
(* The rows *)

LEMMA RequestRowsAgree ==
    ASSUME RowTypes, RowsAgree, NEW r \in Requests, Request(r)
    PROVE  RowsAgree'
<1>1. /\ \A g \in Groups : groups[g] # None => groups[g] \subseteq users
      /\ \A s \in Shares : shares[s] # None => \A g \in shares[s].teams : groups[g] # None
      /\ DOMAIN groups = Groups /\ DOMAIN shares = Shares
      /\ \A g \in Groups : groups[g] # None => groups[g] \in SUBSET Users
      /\ \A s \in Shares : shares[s] # None => shares[s] \in Share
  BY DEF RowsAgree, RowTypes
<1>2. \A m \in SUBSET Users : m # None
  BY SharingAssumption
<1>3. ASSUME NEW u \in Users, CreateUser(r, u) \/ ChangePassword(r, u)
      PROVE  RowsAgree'
  BY <1>1, <1>3 DEF CreateUser, ChangePassword, rows, RowsAgree
<1>4. ASSUME NEW u \in Users, DeleteUser(r, u)
      PROVE  RowsAgree'
  <2>1. \A g \in Groups :
           groups'[g] = IF groups[g] = None THEN None ELSE groups[g] \ {u}
    BY <1>4 DEF DeleteUser
  <2>2. \A g \in Groups : groups[g] # None => groups'[g] # None
    BY <1>1, <1>2, <2>1
  <2>3. \A s \in Shares :
           shares'[s] = IF shares[s] = None THEN None
                        ELSE [shares[s] EXCEPT !.people = shares[s].people \ {u}]
    BY <1>4 DEF DeleteUser
  <2>4. \A s \in Shares : shares'[s] # None =>
           shares[s] # None /\ shares'[s].teams = shares[s].teams
                            /\ shares[s].teams \subseteq Groups
    BY <1>1, <2>3 DEF Share
  <2>5. users' = users \ {u}
    BY <1>4 DEF DeleteUser
  <2>6. \A g \in Groups : groups'[g] # None => groups'[g] \subseteq users'
    BY <1>1, <2>1, <2>5
  <2>7. \A s \in Shares : shares'[s] # None => \A g \in shares'[s].teams : groups'[g] # None
    BY <1>1, <2>2, <2>4
  <2> QED  BY <2>6, <2>7 DEF RowsAgree
<1>5. ASSUME NEW g \in Groups, NEW m \in SUBSET users,
             groups' = [groups EXCEPT ![g] = m], UNCHANGED <<users, shares>>
      PROVE  RowsAgree'
  <2>1. m # None
    BY <1>2 DEF RowTypes
  <2> QED  BY <1>1, <1>5, <2>1 DEF RowsAgree
<1>6. ASSUME NEW g \in Groups, CreateGroup(r, g)
      PROVE  RowsAgree'
  <2>1. {} \in SUBSET users
    OBVIOUS
  <2> QED  BY <1>5, <1>6, <2>1 DEF CreateGroup
<1>7. ASSUME NEW g \in Groups, NEW m \in SUBSET Users, SetMembers(r, g, m)
      PROVE  RowsAgree'
  BY <1>5, <1>7 DEF SetMembers
<1>8. ASSUME NEW g \in Groups, DeleteGroup(r, g)
      PROVE  RowsAgree'
  <2>1. groups' = [groups EXCEPT ![g] = None] /\ users' = users
    BY <1>8 DEF DeleteGroup
  <2>2. \A s \in Shares :
           shares'[s] = IF shares[s] = None THEN None
                        ELSE [shares[s] EXCEPT !.teams = shares[s].teams \ {g}]
    BY <1>8 DEF DeleteGroup
  <2>3. \A s \in Shares : shares'[s] # None =>
           shares[s] # None /\ shares'[s].teams = shares[s].teams \ {g}
                            /\ shares[s].teams \subseteq Groups
    BY <1>1, <2>2 DEF Share
  <2>4. \A h \in Groups : groups'[h] # None => groups'[h] \subseteq users'
    BY <1>1, <2>1
  <2>5. \A s \in Shares : shares'[s] # None => \A h \in shares'[s].teams : groups'[h] # None
    BY <1>1, <2>1, <2>3
  <2> QED  BY <2>4, <2>5 DEF RowsAgree
<1>9. ASSUME NEW s \in Shares, NEW share, UNCHANGED <<users, groups>>,
             shares' = [shares EXCEPT ![s] = share],
             share = None \/ \A g \in share.teams : groups[g] # None
      PROVE  RowsAgree'
  BY <1>1, <1>9 DEF RowsAgree
<1>10. ASSUME NEW s \in Shares, CreateShare(r, s) \/ DeleteShare(r, s)
       PROVE  RowsAgree'
  <2>1. CASE CreateShare(r, s)
    <3> DEFINE share == [people |-> {}, teams |-> {}, clients |-> {}, by |-> r]
    <3>1. /\ UNCHANGED <<users, groups>> /\ shares' = [shares EXCEPT ![s] = share]
          /\ \A g \in share.teams : groups[g] # None
      BY <2>1 DEF CreateShare
    <3> HIDE DEF share
    <3> QED  BY <1>9, <3>1
  <2>2. CASE DeleteShare(r, s)
    BY <1>9, <2>2 DEF DeleteShare
  <2> QED  BY <1>10, <2>1, <2>2
<1>11. ASSUME NEW s \in Shares, NEW people \in SUBSET Users, NEW teams \in SUBSET Groups,
              UpdateShare(r, s, people, teams)
       PROVE  RowsAgree'
  <2> DEFINE share == [shares[s] EXCEPT !.people = people, !.teams = teams]
  <2>1. shares[s] \in Share
    BY <1>1, <1>11 DEF UpdateShare
  <2>2. share.teams = teams
    BY <2>1 DEF Share
  <2>3. /\ UNCHANGED <<users, groups>> /\ shares' = [shares EXCEPT ![s] = share]
        /\ \A g \in teams : groups[g] # None
    BY <1>1, <1>11 DEF UpdateShare
  <2> HIDE DEF share
  <2> QED  BY <1>9, <2>2, <2>3
<1>12. ASSUME NEW on \in SUBSET Units, PutServices(r, on)
       PROVE  RowsAgree'
  BY <1>1, <1>12 DEF PutServices, RowsAgree
<1> QED  BY <1>3, <1>4, <1>6, <1>7, <1>8, <1>10, <1>11, <1>12 DEF Request

LEMMA RowsAgreeThroughout ==
    ASSUME ServedInv, RowsAgree, Next
    PROVE  RowsAgree'
<1>1. RowTypes
  BY RowTypesNow
<1>2. ASSUME NEW r \in Requests, Request(r)
      PROVE  RowsAgree'
  BY <1>1, <1>2, RequestRowsAgree
<1>3. ASSUME NEW s \in Shares, NEW k \in Clients, ChangeNfsRules(s, k)
      PROVE  RowsAgree'
  <2>1. shares[s] \in Share /\ UNCHANGED <<users, groups>>
    BY <1>1, <1>3 DEF ChangeNfsRules, RowTypes
  <2>2. PICK own : shares' = [shares EXCEPT ![s].clients = own]
    BY <1>3 DEF ChangeNfsRules
  <2>3. \A t \in Shares : shares'[t] # None =>
           shares[t] # None /\ shares'[t].teams = shares[t].teams
    BY <1>1, <1>3, <2>1, <2>2 DEF RowTypes, Share, ChangeNfsRules
  <2> QED  BY <2>1, <2>3 DEF RowsAgree
<1>4. ASSUME NEW p \in Procs, MakeDirectoryFails(p)
      PROVE  RowsAgree'
  <2>1. \A t \in Shares : shares'[t] # None => shares'[t] = shares[t]
    BY <1>1, <1>4 DEF MakeDirectoryFails, RowTypes
  <2> QED  BY <1>4, <2>1 DEF MakeDirectoryFails, RowsAgree
<1>5. CASE UNCHANGED rows
  BY <1>5 DEF rows, RowsAgree
<1>6. ASSUME NEW p \in Procs, Perform(p)
      PROVE  MakeDirectoryFails(p) \/ UNCHANGED rows
  BY <1>6
     DEF Perform, Pause, MakeDirectory, WriteFiles, Reload, StartOrStop, SetRunlevel,
         ChangeSystemUser, ChangeSambaUser, ChangeSystemGroup, ReadGroup,
         ReadGroupFails, ChangeMembership, CommandFails, UnchangedByCommand
<1>7. Restart \/ Reboot => UNCHANGED rows
  BY DEF Restart, Reboot, Stopped
<1> QED  BY <1>2, <1>3, <1>4, <1>5, <1>6, <1>7 DEF Next

-----------------------------------------------------------------------------
(* The commands: services, accounts and groups *)

LEMMA AheadStays ==
    ASSUME Shape, NEW p \in Procs, NEW n, Reworked(p, n), NEW ops, NEW on, Ahead(ops, on),
           ~(todo[p][1].op \in ops /\ todo[p][1].on = on)
    PROVE  Ahead(ops, on)'
<1>1. PICK q \in Procs : \E i \in DOMAIN todo[q] : todo[q][i].op \in ops /\ todo[q][i].on = on
  BY DEF Ahead, Has
<1>2. PICK i \in DOMAIN todo[q] : todo[q][i].op \in ops /\ todo[q][i].on = on
  BY <1>1
<1>3. \E j \in DOMAIN todo'[q] : todo'[q][j] = todo[q][i]
  BY <1>2, ReworkedKeeps
<1> QED  BY <1>2, <1>3 DEF Ahead, Has

LEMMA MovingStays ==
    ASSUME Shape, NEW p \in Procs, NEW n, Reworked(p, n), NEW g, NEW u, Moving(g, u),
           ~(todo[p][1].op \in {"join", "leave"} /\ todo[p][1].on = g /\ todo[p][1].who = {u})
    PROVE  Moving(g, u)'
<1>1. PICK q \in Procs : \E i \in DOMAIN todo[q] :
        todo[q][i].op \in {"join", "leave"} /\ todo[q][i].on = g /\ todo[q][i].who = {u}
  BY DEF Moving
<1>2. PICK i \in DOMAIN todo[q] :
        todo[q][i].op \in {"join", "leave"} /\ todo[q][i].on = g /\ todo[q][i].who = {u}
  BY <1>1
<1>3. \E j \in DOMAIN todo'[q] : todo'[q][j] = todo[q][i]
  BY <1>2, ReworkedKeeps
<1> QED  BY <1>2, <1>3 DEF Moving

\* What the command at the head provides for the others is there from then on.
LEMMA StepsStayInOrder ==
    ASSUME Shape, StepsInOrder, NEW p \in Procs, NEW n, Reworked(p, n),
           UNCHANGED <<users, groups, enabled>>,
           \A i \in 1 .. n : Consistent(todo[p][i])' /\ Ready(todo[p], i)',
           \A u \in Users \cap users : u \in sysUsers => u \in sysUsers',
           \A g \in Groups : groups[g] # None /\ sysGroups[g] # None => sysGroups'[g] # None,
           todo[p][1].op = "makeUser" => todo[p][1].on \in sysUsers',
           todo[p][1].op = "makeGroup" => sysGroups'[todo[p][1].on] # None
    PROVE  StepsInOrder'
<1>1. /\ OneAtATime
      /\ \A q \in Procs : \A i \in DOMAIN todo[q] : Consistent(todo[q][i]) /\ Ready(todo[q], i)
  BY DEF StepsInOrder
<1>2. /\ DOMAIN todo' = Procs /\ \A q \in Procs \ {p} : todo'[q] = todo[q] /\ todo[q] = <<>>
      /\ todo[p] # <<>>
  BY <1>1, ReworkedKeeps DEF OneAtATime, Reworked
<1>3. \A q \in Procs \ {p} : DOMAIN todo'[q] = {}
  <2>1. DOMAIN <<>> = {}
    OBVIOUS
  <2> QED  BY <1>2, <2>1
<1>4. OneAtATime'
  BY <1>2 DEF OneAtATime
<1>5. ASSUME NEW i \in DOMAIN todo'[p]
      PROVE  Consistent(todo[p][i])' /\ Ready(todo[p], i)'
  <2>1. CASE ~(i > n)
    <3>1. i \in 1 .. n
      BY <2>1, ReworkedKeeps
    <3> QED  BY <3>1
  <2>2. CASE i > n
    <3>1. PICK k \in DOMAIN todo[p] : /\ k = i + 1 - n /\ k # 1 /\ todo'[p][i] = todo[p][k]
                                      /\ k \in Nat /\ i \in Nat /\ n \in Nat /\ i = k - 1 + n
      <4>1. /\ i + 1 - n \in DOMAIN todo[p] /\ i + 1 - n # 1
            /\ todo'[p][i] = todo[p][i + 1 - n] /\ i \in Nat /\ n \in Nat
        BY <2>2, ReworkedKeeps
      <4>2. i + 1 - n \in Nat
        BY <2>2, <4>1
      <4> QED  BY <2>2, <4>1, <4>2
    <3>2. Consistent(todo[p][k]) /\ Ready(todo[p], k) /\ todo[p][k] \in Step
      BY <1>1, <3>1, ProgramsAreSequences
    <3>3. Consistent(todo[p][i])'
      BY <3>1, <3>2 DEF Consistent
    <3>4. ASSUME NEW op, Before(todo[p], k, op)
          PROVE  \/ Before(todo[p], i, op)'
                 \/ todo[p][1].op = op /\ todo[p][1].on = todo'[p][i].on
      <4>1. PICK j \in DOMAIN todo[p] :
               j < k /\ todo[p][j].op = op /\ todo[p][j].on = todo[p][k].on
        BY <3>4 DEF Before
      <4>2. CASE j = 1
        BY <3>1, <4>1, <4>2
      <4>3. CASE j # 1
        <5>1. j - 1 + n \in DOMAIN todo'[p] /\ todo'[p][j - 1 + n] = todo[p][j]
          BY <4>3, ReworkedKeeps
        <5>2. j - 1 + n < i
          <6>1. j \in Nat
            BY ReworkedKeeps
          <6> QED  BY <3>1, <4>1, <6>1
        <5> QED  BY <3>1, <4>1, <5>1, <5>2 DEF Before
      <4> QED  BY <4>2, <4>3
    <3>5. ASSUME todo'[p][i].op = "setPassword"
          PROVE  todo'[p][i].on \in sysUsers' \/ Before(todo[p], i, "makeUser")'
      <4>1. todo'[p][i].on \in Users \cap users
        BY <3>1, <3>2, <3>5 DEF Consistent, Step, AccountOps
      <4>2. todo'[p][i].on \in sysUsers \/ Before(todo[p], k, "makeUser")
        BY <3>1, <3>2, <3>5 DEF Ready
      <4> QED  BY <3>4, <4>1, <4>2
    <3>6. ASSUME todo'[p][i].op \in {"readGroup", "join", "leave"}
          PROVE  sysGroups'[todo'[p][i].on] # None \/ Before(todo[p], i, "makeGroup")'
      <4>1. todo'[p][i].on \in Groups
        BY <3>1, <3>2, <3>6 DEF Step, GroupOps
      <4>2. groups[todo'[p][i].on] # None
        <5>1. todo'[p][i].who \in SUBSET Users
          BY <3>1, <3>2 DEF Step
        <5> QED  BY <3>1, <3>2, <3>6, <5>1, SharingAssumption DEF Consistent
      <4>3. sysGroups[todo'[p][i].on] # None \/ Before(todo[p], k, "makeGroup")
        BY <3>1, <3>2, <3>6 DEF Ready
      <4> QED  BY <3>4, <4>1, <4>2, <4>3
    <3> QED  BY <3>3, <3>5, <3>6 DEF Ready
  <2> QED  BY <2>1, <2>2
<1>6. \A q \in Procs : \A i \in DOMAIN todo'[q] :
         Consistent(todo[q][i])' /\ Ready(todo[q], i)'
  BY <1>3, <1>5
<1> QED  BY <1>4, <1>6 DEF StepsInOrder

\* A command leaves things as they were, or puts right what it is about.
LEMMA ServicesStayInHand ==
    ASSUME Shape, ServicesInHand, NEW p \in Procs, NEW n, Reworked(p, n),
           UNCHANGED enabled,
           \A u \in Units :
              \/ u \in boot' <=> u \in enabled
              \/ /\ u \in boot' <=> u \in boot
                 /\ ~(todo[p][1].op \in {"bootAdd", "bootDel"} /\ todo[p][1].on = u),
           \A u \in Units :
              \/ loaded'[u] # None <=> u \in enabled
              \/ /\ loaded'[u] # None <=> loaded[u] # None
                 /\ ~(todo[p][1].op \in {"start", "stop"} /\ todo[p][1].on = u)
    PROVE  ServicesInHand'
<1>1. ASSUME NEW u \in Units
      PROVE  (u \in boot' <=> u \in enabled') \/ Ahead({"bootAdd", "bootDel"}, u)'
  <2>1. (u \in boot <=> u \in enabled) \/ Ahead({"bootAdd", "bootDel"}, u)
    BY DEF ServicesInHand
  <2> QED  BY <2>1, AheadStays
<1>2. ASSUME NEW u \in Units
      PROVE  (loaded'[u] # None <=> u \in enabled') \/ Ahead({"start", "stop"}, u)'
  <2>1. (loaded[u] # None <=> u \in enabled) \/ Ahead({"start", "stop"}, u)
    BY DEF ServicesInHand
  <2> QED  BY <2>1, AheadStays
<1> QED  BY <1>1, <1>2 DEF ServicesInHand

LEMMA AccountsStayInHand ==
    ASSUME Shape, AccountsInHand, NEW p \in Procs, NEW n, Reworked(p, n),
           UNCHANGED users,
           \A u \in Users :
              \/ u \in sysUsers' <=> u \in users
              \/ /\ u \in sysUsers' <=> u \in sysUsers
                 /\ ~(todo[p][1].op \in {"makeUser", "dropUser"} /\ todo[p][1].on = u),
           \A u \in Users :
              \/ u \in passdb' <=> u \in users
              \/ /\ u \in passdb' <=> u \in passdb
                 /\ ~(todo[p][1].op \in {"setPassword", "dropPassword"} /\ todo[p][1].on = u)
    PROVE  AccountsInHand'
<1>1. ASSUME NEW u \in Users
      PROVE  (u \in sysUsers' <=> u \in users') \/ Ahead({"makeUser", "dropUser"}, u)'
  <2>1. (u \in sysUsers <=> u \in users) \/ Ahead({"makeUser", "dropUser"}, u)
    BY DEF AccountsInHand
  <2> QED  BY <2>1, AheadStays
<1>2. ASSUME NEW u \in Users
      PROVE  (u \in passdb' <=> u \in users') \/ Ahead({"setPassword", "dropPassword"}, u)'
  <2>1. (u \in passdb <=> u \in users) \/ Ahead({"setPassword", "dropPassword"}, u)
    BY DEF AccountsInHand
  <2> QED  BY <2>1, AheadStays
<1> QED  BY <1>1, <1>2 DEF AccountsInHand

LEMMA GroupsStayInHand ==
    ASSUME Shape, GroupsInHand, NEW p \in Procs, NEW n, Reworked(p, n),
           UNCHANGED groups,
           \A g \in Groups : groups[g] # None /\ sysGroups'[g] = None =>
              /\ sysGroups[g] = None
              /\ ~(todo[p][1].op \in {"makeGroup", "readGroup"} /\ todo[p][1].on = g),
           \A g \in Groups : groups[g] # None /\ sysGroups'[g] # None =>
              \A u \in Users :
                 \/ u \in sysGroups'[g] <=> u \in groups[g]
                 \/ Ahead({"readGroup"}, g)' \/ Moving(g, u)'
                 \/ /\ sysGroups[g] # None /\ (u \in sysGroups'[g] <=> u \in sysGroups[g])
                    /\ ~(todo[p][1].op = "readGroup" /\ todo[p][1].on = g)
                    /\ ~(todo[p][1].op = "dropUser" /\ todo[p][1].on = u)
                    /\ ~(/\ todo[p][1].op \in {"join", "leave"} /\ todo[p][1].on = g
                         /\ todo[p][1].who = {u})
    PROVE  GroupsInHand'
<1>1. ASSUME NEW g \in Groups, groups[g] # None, sysGroups'[g] = None
      PROVE  Ahead({"makeGroup"}, g)' /\ Ahead({"readGroup"}, g)'
  <2>1. Ahead({"makeGroup"}, g) /\ Ahead({"readGroup"}, g)
    BY <1>1 DEF GroupsInHand
  <2>2. ~(todo[p][1].op \in {"makeGroup", "readGroup"} /\ todo[p][1].on = g)
    BY <1>1
  <2>3. Ahead({"makeGroup"}, g)'
    BY <2>1, <2>2, AheadStays
  <2>4. Ahead({"readGroup"}, g)'
    BY <2>1, <2>2, AheadStays
  <2> QED  BY <2>3, <2>4
<1>2. ASSUME NEW g \in Groups, groups[g] # None, sysGroups'[g] # None, NEW u \in Users
      PROVE  \/ u \in sysGroups'[g] <=> u \in groups[g]
             \/ Ahead({"readGroup"}, g)' \/ Moving(g, u)' \/ Ahead({"dropUser"}, u)'
  <2> SUFFICES ASSUME /\ sysGroups[g] # None
                      /\ u \in sysGroups'[g] <=> u \in sysGroups[g]
                      /\ ~(todo[p][1].op = "readGroup" /\ todo[p][1].on = g)
                      /\ ~(todo[p][1].op = "dropUser" /\ todo[p][1].on = u)
                      /\ ~(/\ todo[p][1].op \in {"join", "leave"} /\ todo[p][1].on = g
                           /\ todo[p][1].who = {u})
               PROVE  \/ u \in sysGroups'[g] <=> u \in groups[g]
                      \/ Ahead({"readGroup"}, g)' \/ Moving(g, u)' \/ Ahead({"dropUser"}, u)'
    BY <1>2
  <2>1. \/ u \in sysGroups[g] <=> u \in groups[g]
        \/ Ahead({"readGroup"}, g) \/ Moving(g, u) \/ Ahead({"dropUser"}, u)
    BY <1>2 DEF GroupsInHand
  <2>2. CASE Ahead({"readGroup"}, g)
    <3>1. ~(todo[p][1].op \in {"readGroup"} /\ todo[p][1].on = g)
      OBVIOUS
    <3> QED  BY <2>2, <3>1, AheadStays
  <2>3. CASE Ahead({"dropUser"}, u)
    <3>1. ~(todo[p][1].op \in {"dropUser"} /\ todo[p][1].on = u)
      OBVIOUS
    <3> QED  BY <2>3, <3>1, AheadStays
  <2>4. CASE Moving(g, u)
    BY <2>4, MovingStays
  <2> QED  BY <2>1, <2>2, <2>3, <2>4
<1>3. ASSUME NEW g \in Groups, groups'[g] # None
      PROVE  /\ sysGroups'[g] = None => Ahead({"makeGroup"}, g)' /\ Ahead({"readGroup"}, g)'
             /\ sysGroups'[g] # None => \A u \in Users :
                   \/ u \in sysGroups'[g] <=> u \in groups'[g]
                   \/ Ahead({"readGroup"}, g)' \/ Moving(g, u)' \/ Ahead({"dropUser"}, u)'
  BY <1>1, <1>2, <1>3
<1> QED  BY <1>3 DEF GroupsInHand

\* What is known of the command whose turn it is.
LEMMA HeadIsInStep ==
    ASSUME ServedInv, InStep, ~muddled, NEW p \in Procs, NEW op, Now(p, op)
    PROVE  /\ Shape /\ StepsInOrder /\ ServicesInHand /\ AccountsInHand /\ GroupsInHand
           /\ todo[p] # <<>> /\ todo[p][1].op = op /\ On(p) = todo[p][1].on
           /\ todo[p][1] \in Step /\ Head(todo[p]) = todo[p][1]
           /\ Consistent(todo[p][1])
           /\ op = "setPassword" => On(p) \in sysUsers
           /\ op \in {"readGroup", "join", "leave"} => sysGroups[On(p)] # None
           /\ Advance(p) => Reworked(p, 0)
<1>1. Shape /\ StepsInOrder /\ ServicesInHand /\ AccountsInHand /\ GroupsInHand
  BY DEF ServedInv, InStep
<1>2. /\ todo[p] # <<>> /\ todo[p][1].op = op /\ On(p) = todo[p][1].on
      /\ todo[p][1] \in Step /\ 1 \in DOMAIN todo[p] /\ Head(todo[p]) = todo[p][1]
  BY <1>1, NowIsFirst, HeadIsFirst
<1>3. Consistent(todo[p][1]) /\ Ready(todo[p], 1)
  BY <1>1, <1>2 DEF StepsInOrder
<1>4. \A o : ~Before(todo[p], 1, o)
  BY <1>1, ProgramsAreSequences DEF Before
<1>5. Advance(p) => Reworked(p, 0)
  BY <1>1, <1>2, AdvanceReworks
<1> QED  BY <1>1, <1>2, <1>3, <1>4, <1>5 DEF Ready

LEMMA OtherCommandsInStep ==
    ASSUME ServedInv, InStep, NEW p \in Procs, Pause(p) \/ MakeDirectory(p) \/ WriteFiles(p) \/ Reload(p)
    PROVE  InStep'
<1>1. PICK op \in {"hash", "quota", "mkdir", "write", "reload"} : Now(p, op)
  BY DEF Pause, MakeDirectory, WriteFiles, Reload
<1>2. /\ Advance(p) /\ UNCHANGED <<users, groups, enabled, muddled>>
      /\ UNCHANGED <<sysUsers, passdb, sysGroups, boot>>
  BY DEF Pause, MakeDirectory, WriteFiles, Reload, UnchangedByCommand, rows, system
<1> SUFFICES ASSUME ~muddled
             PROVE  /\ StepsInOrder' /\ ServicesInHand' /\ AccountsInHand' /\ GroupsInHand'
  BY <1>2 DEF InStep
<1>3. /\ Shape /\ StepsInOrder /\ ServicesInHand /\ AccountsInHand /\ GroupsInHand
      /\ Reworked(p, 0) /\ todo[p][1].op = op /\ On(p) = todo[p][1].on
      /\ todo[p][1] \in Step
  BY <1>1, <1>2, HeadIsInStep
<1>4. \A u \in Units : loaded'[u] # None <=> loaded[u] # None
  <2>1. CASE Reload(p)
    <3>1. On(p) \in Units
      BY <1>3, <2>1, NowIsFirst DEF Reload, Step
    <3>2. FileTypes
      BY RowTypesNow, TypeParts
    <3>3. file[On(p)] # None
      BY <3>1, <3>2, SharingAssumption DEF FileTypes
    <3>4. loaded' = IF loaded[On(p)] = None THEN loaded
                    ELSE [loaded EXCEPT ![On(p)] = file[On(p)]]
      BY <2>1 DEF Reload
    <3>5. CASE loaded[On(p)] = None
      BY <3>4, <3>5
    <3>6. CASE loaded[On(p)] # None
      BY <3>1, <3>2, <3>3, <3>4, <3>6 DEF FileTypes
    <3> QED  BY <3>5, <3>6
  <2>2. CASE ~Reload(p)
    BY <2>2 DEF Pause, MakeDirectory, WriteFiles, system
  <2> QED  BY <2>1, <2>2
<1>5. StepsInOrder'
  <2>1. \A i \in 1 .. 0 : Consistent(todo[p][i])' /\ Ready(todo[p], i)'
    OBVIOUS
  <2> QED  BY <1>1, <1>2, <1>3, <2>1, StepsStayInOrder
<1>6. ServicesInHand'
  BY <1>1, <1>2, <1>3, <1>4, ServicesStayInHand
<1>7. AccountsInHand'
  BY <1>1, <1>2, <1>3, AccountsStayInHand
<1>8. GroupsInHand'
  BY <1>1, <1>2, <1>3, GroupsStayInHand
<1> QED  BY <1>5, <1>6, <1>7, <1>8

LEMMA ServiceCommandsInStep ==
    ASSUME ServedInv, InStep, NEW p \in Procs, StartOrStop(p) \/ SetRunlevel(p)
    PROVE  InStep'
<1>1. PICK op \in {"start", "stop", "bootAdd", "bootDel"} : Now(p, op)
  BY DEF StartOrStop, SetRunlevel
<1>2. /\ Advance(p) /\ UNCHANGED <<users, groups, enabled, muddled>>
      /\ UNCHANGED <<sysUsers, passdb, sysGroups>>
  BY DEF StartOrStop, SetRunlevel, UnchangedByCommand, rows
<1> SUFFICES ASSUME ~muddled
             PROVE  /\ StepsInOrder' /\ ServicesInHand' /\ AccountsInHand' /\ GroupsInHand'
  BY <1>2 DEF InStep
<1>3. /\ Shape /\ StepsInOrder /\ ServicesInHand /\ AccountsInHand /\ GroupsInHand
      /\ Reworked(p, 0) /\ todo[p][1].op = op /\ On(p) = todo[p][1].on
      /\ todo[p][1] \in Step /\ Consistent(todo[p][1])
  BY <1>1, <1>2, HeadIsInStep
<1>4. On(p) \in Units
  BY <1>3 DEF Step, ServiceOps
<1>5. /\ op \in {"bootAdd", "start"} => On(p) \in enabled
      /\ op \in {"bootDel", "stop"} => On(p) \notin enabled
  BY <1>3 DEF Consistent
<1>6. StepsInOrder'
  <2>1. \A i \in 1 .. 0 : Consistent(todo[p][i])' /\ Ready(todo[p], i)'
    OBVIOUS
  <2> QED  BY <1>1, <1>2, <1>3, <2>1, StepsStayInOrder
<1>7. ServicesInHand'
  <2>1. \A op2 : Now(p, op2) => op2 = op
    BY <1>1 DEF Now
  <2>2. CASE StartOrStop(p)
    <3>1. op \in {"start", "stop"} /\ boot' = boot
      BY <2>1, <2>2 DEF StartOrStop
    <3>2. FileTypes
      BY RowTypesNow, TypeParts
    <3>3. file[On(p)] # None
      BY <1>4, <3>2, SharingAssumption DEF FileTypes
    <3>4. loaded' = [loaded EXCEPT ![On(p)] =
                        IF op = "stop" THEN None
                        ELSE IF loaded[On(p)] = None THEN file[On(p)] ELSE loaded[On(p)]]
      BY <1>1, <1>4, <2>1, <2>2, <3>2 DEF StartOrStop, FileTypes
    <3>5. /\ \A u \in Units \ {On(p)} : loaded'[u] = loaded[u]
          /\ loaded'[On(p)] # None <=> On(p) \in enabled
      BY <1>4, <1>5, <3>1, <3>2, <3>3, <3>4 DEF FileTypes
    <3> QED  BY <1>2, <1>3, <3>1, <3>5, ServicesStayInHand
  <2>3. CASE SetRunlevel(p)
    <3>1. op \in {"bootAdd", "bootDel"} /\ loaded' = loaded
      BY <2>1, <2>3 DEF SetRunlevel
    <3>2. boot' = IF op = "bootAdd" THEN boot \cup {On(p)} ELSE boot \ {On(p)}
      BY <1>1, <2>1, <2>3, <3>1 DEF SetRunlevel
    <3>3. /\ \A u \in Units \ {On(p)} : u \in boot' <=> u \in boot
          /\ On(p) \in boot' <=> On(p) \in enabled
      BY <1>4, <1>5, <3>1, <3>2
    <3> QED  BY <1>2, <1>3, <3>1, <3>3, ServicesStayInHand
  <2> QED  BY <2>2, <2>3
<1>8. AccountsInHand'
  BY <1>1, <1>2, <1>3, AccountsStayInHand
<1>9. GroupsInHand'
  BY <1>1, <1>2, <1>3, GroupsStayInHand
<1> QED  BY <1>6, <1>7, <1>8, <1>9

LEMMA AccountCommandsInStep ==
    ASSUME ServedInv, RowsAgree, InStep, NEW p \in Procs,
           ChangeSystemUser(p) \/ ChangeSambaUser(p)
    PROVE  InStep'
<1>1. PICK op \in {"makeUser", "dropUser", "setPassword", "dropPassword"} : Now(p, op)
  BY DEF ChangeSystemUser, ChangeSambaUser
<1>2. /\ Advance(p) /\ UNCHANGED <<users, groups, enabled, muddled>>
      /\ UNCHANGED <<loaded, boot>>
  BY DEF ChangeSystemUser, ChangeSambaUser, UnchangedByCommand, rows
<1> SUFFICES ASSUME ~muddled
             PROVE  /\ StepsInOrder' /\ ServicesInHand' /\ AccountsInHand' /\ GroupsInHand'
  BY <1>2 DEF InStep
<1>3. /\ Shape /\ StepsInOrder /\ ServicesInHand /\ AccountsInHand /\ GroupsInHand
      /\ Reworked(p, 0) /\ todo[p][1].op = op /\ On(p) = todo[p][1].on
      /\ todo[p][1] \in Step /\ Consistent(todo[p][1])
      /\ op = "setPassword" => On(p) \in sysUsers
  BY <1>1, <1>2, HeadIsInStep
<1>4. On(p) \in Users
  BY <1>3 DEF Step, AccountOps
<1>5. /\ op \in {"makeUser", "setPassword"} => On(p) \in users
      /\ op \in {"dropUser", "dropPassword"} => On(p) \notin users
  BY <1>3 DEF Consistent
<1>6. \A op2 : Now(p, op2) => op2 = op
  BY <1>1 DEF Now
<1>7. \A i \in 1 .. 0 : Consistent(todo[p][i])' /\ Ready(todo[p], i)'
  OBVIOUS
<1>8. ServicesInHand'
  BY <1>1, <1>2, <1>3, ServicesStayInHand
<1>9. CASE ChangeSambaUser(p)
  <2>1. op \in {"setPassword", "dropPassword"} /\ UNCHANGED <<sysUsers, sysGroups>>
    BY <1>6, <1>9 DEF ChangeSambaUser
  <2>2. passdb' = IF op = "dropPassword" THEN passdb \ {On(p)}
                  ELSE passdb \cup ({On(p)} \cap sysUsers)
    BY <1>1, <1>6, <1>9, <2>1 DEF ChangeSambaUser
  <2>3. /\ \A u \in Users \ {On(p)} : u \in passdb' <=> u \in passdb
        /\ On(p) \in passdb' <=> On(p) \in users
    BY <1>3, <1>5, <2>1, <2>2
  <2>4. AccountsInHand'
    BY <1>2, <1>3, <2>1, <2>3, AccountsStayInHand
  <2>5. StepsInOrder'
    BY <1>2, <1>3, <1>7, <2>1, StepsStayInOrder
  <2>6. GroupsInHand'
    BY <1>2, <1>3, <2>1, GroupsStayInHand
  <2> QED  BY <1>8, <2>4, <2>5, <2>6
<1>10. CASE ChangeSystemUser(p)
  <2>1. op \in {"makeUser", "dropUser"} /\ passdb' = passdb
    BY <1>6, <1>10 DEF ChangeSystemUser
  <2>2. CASE op = "makeUser"
    <3>1. sysUsers' = sysUsers \cup {On(p)} /\ sysGroups' = sysGroups
      BY <1>1, <1>10, <2>2 DEF ChangeSystemUser
    <3>2. StepsInOrder'
      BY <1>2, <1>3, <1>7, <2>2, <3>1, StepsStayInOrder
    <3>3. AccountsInHand'
      BY <1>2, <1>3, <1>5, <2>1, <2>2, <3>1, AccountsStayInHand
    <3>4. GroupsInHand'
      BY <1>2, <1>3, <2>2, <3>1, GroupsStayInHand
    <3> QED  BY <1>8, <3>2, <3>3, <3>4
  <2>3. CASE op = "dropUser"
    <3>1. /\ sysUsers' = sysUsers \ {On(p)}
          /\ \A g \in Groups : sysGroups'[g] =
                IF sysGroups[g] = None THEN None ELSE sysGroups[g] \ {On(p)}
      BY <1>1, <1>6, <1>10, <2>3 DEF ChangeSystemUser
    <3>2. \A g \in Groups : sysGroups[g] # None => sysGroups'[g] # None
      <4>1. \A g \in Groups : sysGroups[g] # None => sysGroups[g] \in SUBSET Users
        BY RowTypesNow, TypeParts DEF SystemTypes
      <4>2. \A m \in SUBSET Users : m # None
        BY SharingAssumption
      <4> QED  BY <3>1, <4>1, <4>2
    <3>3. StepsInOrder'
      BY <1>2, <1>3, <1>5, <1>7, <2>3, <3>1, <3>2, StepsStayInOrder
    <3>4. AccountsInHand'
      BY <1>2, <1>3, <1>5, <2>1, <2>3, <3>1, AccountsStayInHand
    <3>5. ASSUME NEW g \in Groups, groups[g] # None, sysGroups'[g] = None
          PROVE  sysGroups[g] = None
      BY <3>2, <3>5
    <3>6. ASSUME NEW g \in Groups, groups[g] # None, sysGroups'[g] # None, NEW u \in Users
          PROVE  \/ u \in sysGroups'[g] <=> u \in groups[g]
                 \/ /\ sysGroups[g] # None /\ (u \in sysGroups'[g] <=> u \in sysGroups[g])
                    /\ u # On(p)
      <4>1. sysGroups[g] # None /\ sysGroups'[g] = sysGroups[g] \ {On(p)}
        BY <3>1, <3>6
      <4>2. On(p) \notin groups[g]
        BY <1>5, <2>3, <3>6 DEF RowsAgree
      <4> QED  BY <4>1, <4>2
    <3>7. GroupsInHand'
      BY <1>2, <1>3, <2>3, <3>5, <3>6, GroupsStayInHand
    <3> QED  BY <1>8, <3>3, <3>4, <3>7
  <2> QED  BY <2>1, <2>2, <2>3
<1> QED  BY <1>9, <1>10

LEMMA SystemGroupInStep ==
    ASSUME ServedInv, InStep, NEW p \in Procs, ChangeSystemGroup(p)
    PROVE  InStep'
<1>1. PICK op \in {"makeGroup", "dropGroup"} : Now(p, op)
  BY DEF ChangeSystemGroup
<1>2. /\ Advance(p) /\ UNCHANGED <<users, groups, enabled, muddled>>
      /\ UNCHANGED <<sysUsers, passdb, loaded, boot>>
  BY DEF ChangeSystemGroup, UnchangedByCommand, rows
<1> SUFFICES ASSUME ~muddled
             PROVE  /\ StepsInOrder' /\ ServicesInHand' /\ AccountsInHand' /\ GroupsInHand'
  BY <1>2 DEF InStep
<1>3. /\ Shape /\ StepsInOrder /\ ServicesInHand /\ AccountsInHand /\ GroupsInHand
      /\ Reworked(p, 0) /\ todo[p][1].op = op /\ On(p) = todo[p][1].on
      /\ todo[p][1] \in Step /\ Consistent(todo[p][1])
  BY <1>1, <1>2, HeadIsInStep
<1>4. On(p) \in Groups
  BY <1>3 DEF Step, GroupOps
<1>5. op = "dropGroup" => groups[On(p)] = None
  BY <1>3 DEF Consistent
<1>6. \A op2 : Now(p, op2) => op2 = op
  BY <1>1 DEF Now
<1>7. \A i \in 1 .. 0 : Consistent(todo[p][i])' /\ Ready(todo[p], i)'
  OBVIOUS
<1>8. {} # None
  BY SharingAssumption
<1>9. /\ \A g \in Groups \ {On(p)} : sysGroups'[g] = sysGroups[g]
      /\ op = "makeGroup" => sysGroups'[On(p)] =
            IF sysGroups[On(p)] = None THEN {} ELSE sysGroups[On(p)]
  <2>1. SystemTypes
    BY RowTypesNow, TypeParts
  <2>2. sysGroups' = [sysGroups EXCEPT ![On(p)] =
           IF op = "dropGroup" THEN None
           ELSE IF sysGroups[On(p)] = None THEN {} ELSE sysGroups[On(p)]]
    BY <1>1, <1>4, <1>6, <2>1 DEF ChangeSystemGroup, SystemTypes
  <2> QED  BY <1>4, <2>1, <2>2 DEF SystemTypes
<1>10. StepsInOrder'
  BY <1>1, <1>2, <1>3, <1>4, <1>5, <1>7, <1>8, <1>9, StepsStayInOrder
<1>11. ServicesInHand'
  BY <1>1, <1>2, <1>3, ServicesStayInHand
<1>12. AccountsInHand'
  BY <1>1, <1>2, <1>3, AccountsStayInHand
<1>13. GroupsInHand'
  <2>1. ASSUME NEW g \in Groups, groups[g] # None, sysGroups'[g] = None
        PROVE  sysGroups[g] = None /\ ~(op = "makeGroup" /\ On(p) = g)
    BY <1>1, <1>5, <1>8, <1>9, <2>1
  <2>2. ASSUME NEW g \in Groups, groups[g] # None, sysGroups'[g] # None, NEW u \in Users
        PROVE  \/ Ahead({"readGroup"}, g)'
               \/ sysGroups[g] # None /\ (u \in sysGroups'[g] <=> u \in sysGroups[g])
    <3>1. CASE sysGroups[g] # None
      BY <1>1, <1>5, <1>9, <2>2, <3>1
    <3>2. CASE sysGroups[g] = None
      <4>1. Ahead({"readGroup"}, g)
        BY <1>3, <2>2, <3>2 DEF GroupsInHand
      <4>2. ~(todo[p][1].op \in {"readGroup"} /\ todo[p][1].on = g)
        BY <1>1, <1>3
      <4> QED  BY <1>3, <4>1, <4>2, AheadStays
    <3> QED  BY <3>1, <3>2
  <2> QED  BY <1>1, <1>2, <1>3, <2>1, <2>2, GroupsStayInHand
<1> QED  BY <1>10, <1>11, <1>12, <1>13

\* Whoever is in the system group and not in the rows has the command to leave.
LEMMA ReadGroupInStep ==
    ASSUME ServedInv, InStep, NEW p \in Procs, ReadGroup(p)
    PROVE  InStep'
<1>1. Now(p, "readGroup")
  BY DEF ReadGroup
<1>2. /\ UNCHANGED <<users, groups, enabled, muddled>>
      /\ UNCHANGED <<sysUsers, passdb, sysGroups, loaded, boot>>
  BY DEF ReadGroup, UnchangedByCommand, rows, system
<1> SUFFICES ASSUME ~muddled
             PROVE  /\ StepsInOrder' /\ ServicesInHand' /\ AccountsInHand' /\ GroupsInHand'
  BY <1>2 DEF InStep
<1>3. /\ Shape /\ StepsInOrder /\ ServicesInHand /\ AccountsInHand /\ GroupsInHand
      /\ todo[p][1].op = "readGroup" /\ On(p) = todo[p][1].on
      /\ todo[p][1] \in Step /\ Consistent(todo[p][1]) /\ Head(todo[p]) = todo[p][1]
      /\ sysGroups[On(p)] # None
  BY <1>1, HeadIsInStep
<1>0. PICK g \in Groups : g = On(p)
  BY <1>3 DEF Step, GroupOps
<1> DEFINE wanted == groups[g]
           current == sysGroups[g]
<1>4. /\ Head(todo[p]).who = wanted /\ wanted \in SUBSET Users
      /\ wanted # None /\ current \in SUBSET Users
  <2>1. Head(todo[p]).who = wanted /\ wanted \in SUBSET Users
    BY <1>0, <1>3 DEF Step, GroupOps, Consistent
  <2>2. current \in SUBSET Users
    BY <1>0, <1>3, RowTypesNow, TypeParts DEF SystemTypes
  <2> QED  BY <2>1, <2>2, SharingAssumption
<1>5. PICK n \in Nat : Reworked(p, n) /\ Reconciled(p, current, n)
  <2>1. Reconcile(p, current)
    BY <1>0, <1>3 DEF ReadGroup
  <2> QED  BY <1>1, <1>3, <1>4, <2>1, ReconcileReworks
<1> HIDE DEF wanted, current
<1>6. ASSUME NEW i \in 1 .. n
      PROVE  \/ \E x \in wanted \ current : todo'[p][i] = Command("join", g, {x})
             \/ \E x \in current \ wanted : todo'[p][i] = Command("leave", g, {x})
  BY <1>0, <1>4, <1>5 DEF Reconciled
<1>7. \A x \in wanted \ current : \E i \in 1 .. n : todo'[p][i] = Command("join", g, {x})
  BY <1>0, <1>4, <1>5 DEF Reconciled
<1>8. \A x \in current \ wanted : \E i \in 1 .. n : todo'[p][i] = Command("leave", g, {x})
  BY <1>0, <1>4, <1>5 DEF Reconciled
<1>9. ASSUME NEW i \in 1 .. n
      PROVE  Consistent(todo[p][i])' /\ Ready(todo[p], i)'
  <2>1. groups'[g] = wanted /\ sysGroups'[g] # None
    BY <1>0, <1>2, <1>3 DEF wanted
  <2>2. ASSUME NEW x \in wanted \ current, todo'[p][i] = Command("join", g, {x})
        PROVE  Consistent(todo[p][i])' /\ Ready(todo[p], i)'
    BY <1>4, <2>1, <2>2 DEF Consistent, Ready, Command
  <2>3. ASSUME NEW x \in current \ wanted, todo'[p][i] = Command("leave", g, {x})
        PROVE  Consistent(todo[p][i])' /\ Ready(todo[p], i)'
    BY <1>4, <2>1, <2>3 DEF Consistent, Ready, Command
  <2> QED  BY <1>6, <2>2, <2>3
<1>10. StepsInOrder'
  BY <1>2, <1>3, <1>5, <1>9, StepsStayInOrder
<1>11. ServicesInHand'
  BY <1>2, <1>3, <1>5, ServicesStayInHand
<1>12. AccountsInHand'
  BY <1>2, <1>3, <1>5, AccountsStayInHand
<1>13. GroupsInHand'
  <2>1. 1 .. n \subseteq DOMAIN todo'[p]
    BY <1>3, <1>5, ReworkedKeeps
  <2>2. ASSUME NEW u \in Users
        PROVE  (u \in sysGroups'[g] <=> u \in groups[g]) \/ Moving(g, u)'
    <3>1. CASE u \in wanted \ current
      <4>1. PICK i \in 1 .. n : todo'[p][i] = Command("join", g, {u})
        BY <1>7, <3>1
      <4> QED  BY <2>1, <4>1 DEF Moving, Command
    <3>2. CASE u \in current \ wanted
      <4>1. PICK i \in 1 .. n : todo'[p][i] = Command("leave", g, {u})
        BY <1>8, <3>2
      <4> QED  BY <2>1, <4>1 DEF Moving, Command
    <3> QED  BY <1>2, <3>1, <3>2 DEF wanted, current
  <2>3. sysGroups'[g] # None /\ todo[p][1].on = g
    BY <1>0, <1>2, <1>3
  <2> QED  BY <1>2, <1>3, <1>5, <2>2, <2>3, GroupsStayInHand
<1> QED  BY <1>10, <1>11, <1>12, <1>13

\* A handler is about one kind of thing, and no other is in flight.
LEMMA NothingElseAhead ==
    ASSUME Shape, OneAtATime, NEW p \in Procs, todo[p] # <<>>,
           NEW kind \in {AccountOps, GroupOps, FolderOps, ServiceOps}, todo[p][1].op \in kind,
           NEW ops, ops \cap (kind \cup FileOps) = {}
    PROVE  \A q \in Procs : \A i \in DOMAIN todo[q] : todo[q][i].op \notin ops
<1>1. 1 \in DOMAIN todo[p] /\ OneKind(todo[p])
  BY HeadIsFirst, ProgramsAreSequences
<1>2. PICK k \in {AccountOps, GroupOps, FolderOps, ServiceOps} :
         \A i \in DOMAIN todo[p] : todo[p][i].op \in k \cup FileOps
  BY <1>1 DEF OneKind
<1>3. k = kind
  <2>1. kind \cap FileOps = {}
    BY DEF AccountOps, GroupOps, FolderOps, ServiceOps, FileOps
  <2>2. k # kind => k \cap kind = {}
    BY DEF AccountOps, GroupOps, FolderOps, ServiceOps
  <2> QED  BY <1>1, <1>2, <2>1, <2>2
<1>4. \A q \in Procs \ {p} : DOMAIN todo[q] = {}
  <2>1. DOMAIN <<>> = {}
    OBVIOUS
  <2> QED  BY <2>1 DEF OneAtATime
<1> QED  BY <1>2, <1>3, <1>4

LEMMA MembershipInStep ==
    ASSUME ServedInv, RowsAgree, InStep, NEW p \in Procs, ChangeMembership(p)
    PROVE  InStep'
<1>1. PICK op \in {"join", "leave"} : Now(p, op)
  BY DEF ChangeMembership
<1>2. /\ Advance(p) /\ UNCHANGED <<users, groups, enabled, muddled>>
      /\ UNCHANGED <<sysUsers, passdb, loaded, boot>>
  BY DEF ChangeMembership, UnchangedByCommand, rows
<1> SUFFICES ASSUME ~muddled
             PROVE  /\ StepsInOrder' /\ ServicesInHand' /\ AccountsInHand' /\ GroupsInHand'
  BY <1>2 DEF InStep
<1>3. /\ Shape /\ StepsInOrder /\ ServicesInHand /\ AccountsInHand /\ GroupsInHand
      /\ Reworked(p, 0) /\ todo[p][1].op = op /\ On(p) = todo[p][1].on
      /\ todo[p] # <<>> /\ Head(todo[p]) = todo[p][1]
      /\ todo[p][1] \in Step /\ Consistent(todo[p][1]) /\ sysGroups[On(p)] # None
  BY <1>1, <1>2, HeadIsInStep
<1> DEFINE g == On(p)
           who == todo[p][1].who
<1>4. g \in Groups /\ who \in SUBSET Users
  BY <1>3 DEF Step, GroupOps
<1>5. /\ groups[g] # None
      /\ op = "join" => who \subseteq groups[g]
      /\ op = "leave" => who \cap groups[g] = {}
  BY <1>1, <1>3 DEF Consistent
<1>6. op = "join" => who \subseteq sysUsers
  <2>1. groups[g] \subseteq users
    BY <1>4, <1>5 DEF RowsAgree
  <2>2. \A u \in Users : ~Ahead({"makeUser", "dropUser"}, u)
    <3>1. todo[p][1].op \in GroupOps /\ OneAtATime
      BY <1>1, <1>3 DEF GroupOps, StepsInOrder
    <3>2. {"makeUser", "dropUser"} \cap (GroupOps \cup FileOps) = {}
      BY DEF GroupOps, FileOps
    <3> QED  BY <1>3, <3>1, <3>2, NothingElseAhead DEF Ahead, Has
  <2> QED  BY <1>3, <1>4, <1>5, <2>1, <2>2 DEF AccountsInHand
<1>7. /\ \A h \in Groups \ {g} : sysGroups'[h] = sysGroups[h]
      /\ sysGroups'[g] = IF op = "join" THEN sysGroups[g] \cup who ELSE sysGroups[g] \ who
      /\ sysGroups[g] \in SUBSET Users
  <2>1. sysGroups \in [Groups -> {None} \cup SUBSET Users]
    BY RowTypesNow, TypeParts DEF SystemTypes
  <2>2. \A op2 : Now(p, op2) => op2 = op
    BY <1>1 DEF Now
  <2>3. sysGroups' = [sysGroups EXCEPT ![g] =
           IF sysGroups[g] = None THEN None
           ELSE IF op = "join" THEN sysGroups[g] \cup (who \cap sysUsers)
           ELSE sysGroups[g] \ who]
    BY <1>1, <1>3, <1>4, <2>1, <2>2 DEF ChangeMembership
  <2> QED  BY <1>3, <1>4, <1>6, <2>1, <2>3
<1> HIDE DEF g, who
<1>8. sysGroups'[g] # None
  <2>1. sysGroups'[g] \in SUBSET Users
    BY <1>4, <1>7
  <2> QED  BY <2>1, SharingAssumption
<1>9. g = todo[p][1].on /\ who = todo[p][1].who
  BY <1>3 DEF g, who
<1>10. StepsInOrder'
  <2>1. \A i \in 1 .. 0 : Consistent(todo[p][i])' /\ Ready(todo[p], i)'
    OBVIOUS
  <2> QED  BY <1>1, <1>2, <1>3, <1>7, <1>8, <2>1, StepsStayInOrder
<1>11. ServicesInHand'
  BY <1>1, <1>2, <1>3, ServicesStayInHand
<1>12. AccountsInHand'
  BY <1>1, <1>2, <1>3, AccountsStayInHand
<1>13. GroupsInHand'
  <2>1. ASSUME NEW h \in Groups, sysGroups'[h] = None
        PROVE  sysGroups[h] = None
    BY <1>7, <1>8, <2>1
  <2>2. ASSUME NEW h \in Groups, sysGroups'[h] # None, NEW u \in Users
        PROVE  \/ u \in sysGroups'[h] <=> u \in groups[h]
               \/ /\ sysGroups[h] # None /\ (u \in sysGroups'[h] <=> u \in sysGroups[h])
                  /\ ~(g = h /\ who = {u})
    <3>1. CASE h # g
      BY <1>7, <2>2, <3>1
    <3>2. CASE h = g /\ u \in who
      BY <1>1, <1>5, <1>7, <3>2
    <3>3. CASE h = g /\ u \notin who
      BY <1>3, <1>7, <3>3 DEF g
    <3> QED  BY <3>1, <3>2, <3>3
  <2> QED  BY <1>1, <1>2, <1>3, <1>9, <2>1, <2>2, GroupsStayInHand
<1> QED  BY <1>10, <1>11, <1>12, <1>13

\* The handler ends with nothing to do but folders and files.
LEMMA FailingDirectoryInStep ==
    ASSUME ServedInv, InStep, NEW p \in Procs, MakeDirectoryFails(p)
    PROVE  InStep'
<1>1. /\ Now(p, "mkdir") /\ todo' = [todo EXCEPT ![p] = <<>>]
      /\ UNCHANGED <<users, groups, enabled, muddled>>
      /\ UNCHANGED <<sysUsers, passdb, sysGroups, loaded, boot>>
  BY DEF MakeDirectoryFails, system
<1> SUFFICES ASSUME ~muddled
             PROVE  /\ StepsInOrder' /\ ServicesInHand' /\ AccountsInHand' /\ GroupsInHand'
  BY <1>1 DEF InStep
<1>2. /\ Shape /\ OneAtATime /\ ServicesInHand /\ AccountsInHand /\ GroupsInHand
      /\ todo[p] # <<>> /\ todo[p][1].op = "mkdir"
  BY <1>1, HeadIsInStep DEF StepsInOrder
<1> DEFINE ops == AccountOps \cup GroupOps \cup ServiceOps
<1>3. \A q \in Procs : \A i \in DOMAIN todo[q] : todo[q][i].op \notin ops
  <2>1. ops \cap (FolderOps \cup FileOps) = {}
    BY DEF AccountOps, GroupOps, FolderOps, ServiceOps, FileOps
  <2>2. todo[p][1].op \in FolderOps
    BY <1>2 DEF FolderOps
  <2> HIDE DEF ops
  <2> QED  BY <1>2, <2>1, <2>2, NothingElseAhead
<1>4. /\ \A q \in Procs : todo'[q] = <<>>
      /\ \A q \in Procs : DOMAIN todo'[q] = {}
  <2>1. DOMAIN <<>> = {}
    OBVIOUS
  <2> QED  BY <1>1, <1>2, <2>1 DEF OneAtATime, Shape
<1>5. StepsInOrder'
  BY <1>4 DEF StepsInOrder, OneAtATime
<1>6. ServicesInHand'
  BY <1>1, <1>2, <1>3 DEF ServicesInHand, Ahead, Has, ServiceOps
<1>7. AccountsInHand'
  BY <1>1, <1>2, <1>3 DEF AccountsInHand, Ahead, Has, AccountOps
<1>8. GroupsInHand'
  BY <1>1, <1>2, <1>3 DEF GroupsInHand, Moving, Ahead, Has, GroupOps, AccountOps
<1> QED  BY <1>5, <1>6, <1>7, <1>8

LEMMA PerformInStep ==
    ASSUME ServedInv, RowsAgree, InStep, NEW p \in Procs, Perform(p)
    PROVE  InStep'
<1>1. CASE ReadGroupFails(p) \/ CommandFails(p)
  BY <1>1 DEF ReadGroupFails, CommandFails, InStep
<1> QED  BY <1>1, OtherCommandsInStep, ServiceCommandsInStep, AccountCommandsInStep,
            SystemGroupInStep, ReadGroupInStep, MembershipInStep, FailingDirectoryInStep
         DEF Perform

\* What index.ts enforces is what the rows say, and what the runlevel says too.
LEMMA RestartInStep ==
    ASSUME ServedInv, InStep, Restart \/ Reboot
    PROVE  InStep'
<1>1. /\ UNCHANGED <<users, groups, enabled, sysUsers, passdb, sysGroups, boot>>
      /\ muddled' = (muddled \/ ~Quiet)
      /\ todo' = [p \in Procs |-> IF p = Boot THEN ApplyServiceStates(enabled) ELSE <<>>]
  BY DEF Restart, Reboot, Stopped, rows, system
<1> SUFFICES ASSUME ~muddled, Quiet
             PROVE  /\ StepsInOrder' /\ ServicesInHand' /\ AccountsInHand' /\ GroupsInHand'
  BY <1>1 DEF InStep
<1>2. Agreed
  BY QuietAgrees
<1> DEFINE a == Command(IF "smb" \in enabled THEN "bootAdd" ELSE "stop", "smb", {})
           b == Command(IF "smb" \in enabled THEN "start" ELSE "bootDel", "smb", {})
           c == Command(IF "nfs" \in enabled THEN "bootAdd" ELSE "stop", "nfs", {})
           d == Command(IF "nfs" \in enabled THEN "start" ELSE "bootDel", "nfs", {})
<1>3. /\ todo'[Boot] = <<a, b, c, d>> /\ Boot \in Procs
      /\ \A p \in Procs \ {Boot} : todo'[p] = <<>>
  BY <1>1, Programs DEF Procs
<1>4. /\ a.on = "smb" /\ b.on = "smb" /\ c.on = "nfs" /\ d.on = "nfs"
      /\ a.op = (IF "smb" \in enabled THEN "bootAdd" ELSE "stop")
      /\ b.op = (IF "smb" \in enabled THEN "start" ELSE "bootDel")
      /\ c.op = (IF "nfs" \in enabled THEN "bootAdd" ELSE "stop")
      /\ d.op = (IF "nfs" \in enabled THEN "start" ELSE "bootDel")
  BY DEF Command
<1> HIDE DEF a, b, c, d
<1>5. /\ DOMAIN todo'[Boot] = 1 .. 4 /\ todo'[Boot][1] = a /\ todo'[Boot][2] = b
      /\ todo'[Boot][3] = c /\ todo'[Boot][4] = d
      /\ \A p \in Procs \ {Boot} : DOMAIN todo'[p] = {}
  <2>1. DOMAIN <<>> = {}
    OBVIOUS
  <2> QED  BY <1>3, <2>1
<1>6. ASSUME NEW i \in DOMAIN todo'[Boot]
      PROVE  Consistent(todo[Boot][i])' /\ Ready(todo[Boot], i)'
  <2>1. CASE todo'[Boot][i].op \in {"bootAdd", "start"}
    <3>1. todo'[Boot][i].on \in enabled
      BY <1>4, <1>5, <2>1
    <3> QED  BY <1>1, <2>1, <3>1 DEF Consistent, Ready
  <2>2. CASE todo'[Boot][i].op \in {"bootDel", "stop"}
    <3>1. todo'[Boot][i].on \notin enabled
      BY <1>4, <1>5, <2>2
    <3> QED  BY <1>1, <2>2, <3>1 DEF Consistent, Ready
  <2> QED  BY <1>4, <1>5, <2>1, <2>2
<1>7. StepsInOrder'
  <2>1. OneAtATime'
    BY <1>3 DEF OneAtATime
  <2>2. \A p \in Procs : \A i \in DOMAIN todo'[p] :
           Consistent(todo[p][i])' /\ Ready(todo[p], i)'
    BY <1>5, <1>6
  <2> QED  BY <2>1, <2>2 DEF StepsInOrder
<1>8. ServicesInHand'
  <2>1. \A u \in Units : loaded'[u] # None <=> u \in enabled
    <3>1. CASE Restart
      BY <1>2, <3>1 DEF Restart, system, Agreed
    <3>2. CASE Reboot
      <4>1. \A u \in Units : file[u] # None
        BY RowTypesNow, TypeParts, SharingAssumption DEF FileTypes
      <4>2. \A u \in Units : loaded'[u] = IF u \in boot THEN file[u] ELSE None
        BY <3>2 DEF Reboot
      <4> QED  BY <1>2, <4>1, <4>2 DEF Agreed
    <3> QED  BY <3>1, <3>2
  <2> QED  BY <1>1, <1>2, <2>1 DEF ServicesInHand, Agreed
<1>9. AccountsInHand' /\ GroupsInHand'
  BY <1>1, <1>2 DEF AccountsInHand, GroupsInHand, Agreed
<1> QED  BY <1>7, <1>8, <1>9

LEMMA GrantedAtFirst == Init => GrantedInv
<1> SUFFICES ASSUME Init
             PROVE  RowsAgree /\ InStep
  BY ServedAtFirst DEF GrantedInv
<1>1. \A m \in SUBSET Users : m # None
  BY SharingAssumption
<1>2. /\ users = Users /\ sysUsers = Users /\ passdb = Users
      /\ groups \in [Groups -> SUBSET Users] /\ sysGroups = groups
      /\ boot = enabled /\ \A p \in Procs : todo[p] = <<>>
  BY DEF Init
<1>3. RowsAgree
  <2>1. \A s \in Shares : shares[s].teams \subseteq Groups
    BY DEF Init
  <2> QED  BY <1>1, <1>2, <2>1 DEF RowsAgree
<1>4. \A p \in Procs : DOMAIN todo[p] = {}
  <2>1. DOMAIN <<>> = {}
    OBVIOUS
  <2> QED  BY <1>2, <2>1
<1>5. StepsInOrder
  BY <1>2, <1>4 DEF StepsInOrder, OneAtATime
<1>6. ServicesInHand
  <2>1. \A u \in Units : file[u] # None
    BY ServedAtFirst, RowTypesNow, TypeParts, SharingAssumption DEF FileTypes
  <2>2. \A u \in Units : loaded[u] = IF u \in enabled THEN file[u] ELSE None
    BY DEF Init
  <2> QED  BY <1>2, <2>1, <2>2 DEF ServicesInHand
<1>7. AccountsInHand /\ GroupsInHand
  BY <1>1, <1>2 DEF AccountsInHand, GroupsInHand
<1> QED  BY <1>3, <1>5, <1>6, <1>7 DEF InStep

LEMMA GrantedThroughout == GrantedInv /\ [Next]_vars => GrantedInv'
<1> SUFFICES ASSUME GrantedInv, [Next]_vars
             PROVE  RowsAgree' /\ InStep'
  BY ServedThroughout DEF GrantedInv
<1>1. ServedInv /\ RowsAgree /\ InStep
  BY DEF GrantedInv
<1>2. CASE UNCHANGED vars
  BY <1>1, <1>2
     DEF vars, rows, system, history, RowsAgree, InStep, StepsInOrder, OneAtATime,
         Consistent, Ready, Before, ServicesInHand, AccountsInHand, GroupsInHand,
         Ahead, Has, Moving
<1>3. CASE Next
  <2>1. RowsAgree'
    BY <1>1, <1>3, RowsAgreeThroughout
  <2>2. InStep'
    BY <1>1, <1>3, RequestInStep, NfsRulesInStep, PerformInStep, RestartInStep DEF Next
  <2> QED  BY <2>1, <2>2
<1> QED  BY <1>2, <1>3

\* ServicesAsConfigured holds throughout: when handlers came one at a time and
\* every command worked, a unit switched off is down and stays down across a
\* reboot, and one switched on is up and comes back.
THEOREM ServicesStayAsConfigured == Spec => []ServicesAsConfigured
<1>1. GrantedInv => ServicesAsConfigured
  <2> SUFFICES ASSUME GrantedInv, Quiet, ~muddled
               PROVE  boot = enabled /\ \A u \in Units : loaded[u] # None <=> u \in enabled
    BY DEF ServicesAsConfigured
  <2>1. Agreed
    BY QuietAgrees DEF GrantedInv
  <2>2. boot \subseteq Units /\ enabled \subseteq Units
    BY RowTypesNow, TypeParts DEF GrantedInv, RowTypes, SystemTypes
  <2> QED  BY <2>1, <2>2 DEF Agreed
<1> QED  BY <1>1, GrantedAtFirst, GrantedThroughout, PTL DEF Spec

LEMMA InStepReachesGranted ==
    ASSUME GrantedInv, Quiet, ~muddled, ~unwritten, unserved = {},
           NEW u \in Users, NEW s \in Shares
    PROVE  Reaches(u, s) <=> (Granted(u, s) /\ "smb" \in enabled)
<1>1. ServedInv /\ RowsAgree /\ Agreed
  BY QuietAgrees DEF GrantedInv
<1>2. RowTypes /\ SystemTypes
  BY <1>1, RowTypesNow, TypeParts
<1>3. /\ loaded["smb"] # None <=> "smb" \in enabled
      /\ loaded["smb"] # None => loaded["smb"] = file["smb"]
      /\ file["smb"][s] = IF shares[s] = None THEN {} ELSE shares[s].people \cup shares[s].teams
  <2>1. "smb" \in Units /\ "smb" # "nfs"
    BY DEF Units
  <2>2. file = Generated(shares) /\ loaded["smb"] \in {None, file["smb"]}
    BY <1>1, <2>1, QuietIsExact DEF FilesMatchRows, DaemonsServeFiles
  <2>3. file["smb"][s] =
           IF shares[s] = None THEN {} ELSE shares[s].people \cup shares[s].teams
    BY <2>1, <2>2 DEF Generated
  <2> QED  BY <1>1, <2>1, <2>2, <2>3 DEF Agreed
<1>4. u \in passdb <=> u \in users
  BY <1>1 DEF Agreed
<1>5. CASE shares[s] = None
  BY <1>3, <1>5 DEF Reaches, Granted
<1>6. CASE shares[s] # None
  <2>1. shares[s].people \subseteq Users /\ shares[s].teams \subseteq Groups
    BY <1>2, <1>6 DEF RowTypes, Share
  <2>2. u \in shares[s].people \cup shares[s].teams <=> u \in shares[s].people
    BY <2>1, SharingAssumption
  <2>3. (shares[s].people \cup shares[s].teams) \cap Groups = shares[s].teams
    BY <2>1, SharingAssumption
  <2>4. \A g \in shares[s].teams :
           sysGroups[g] # None /\ (u \in sysGroups[g] <=> u \in groups[g])
    BY <1>1, <1>6, <2>1 DEF Agreed, RowsAgree
  <2>5. CASE loaded["smb"] = None
    BY <1>3, <2>5 DEF Reaches
  <2>6. CASE loaded["smb"] # None
    <3>1. loaded["smb"][s] = shares[s].people \cup shares[s].teams
      BY <1>3, <1>6, <2>6
    <3> QED  BY <1>3, <1>4, <1>6, <2>2, <2>3, <2>4, <2>6, <3>1 DEF Reaches, Granted
  <2> QED  BY <2>5, <2>6
<1> QED  BY <1>5, <1>6

\* ReachableIsGranted holds throughout, end to end: when handlers came one at a
\* time, every command worked and the files were written since an account was
\* last deleted (which writes none), an account reaches over SMB exactly the
\* shares its rows grant it.
THEOREM ReachedIsGranted == Spec => []ReachableIsGranted
<1>1. GrantedInv => ReachableIsGranted
  BY InStepReachesGranted DEF ReachableIsGranted
<1> QED  BY <1>1, GrantedAtFirst, GrantedThroughout, PTL DEF Spec
=============================================================================
