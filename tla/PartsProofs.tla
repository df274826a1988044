------------------------------ MODULE PartsProofs ------------------------------
(***************************************************************************)
(* What the parts that keep nothing in common promise, for every value of  *)
(* their constants, in the behaviours TLC explores: of the parts around    *)
(* the core (Parts) and of those that store the files (Storage).  A step   *)
(* of the whole is one of a single part or leaves that part as it is       *)
(* (PartSteps, StorageSteps), so each part has an inductive invariant of   *)
(* its own, and none of the properties is inductive as it stands:          *)
(*                                                                         *)
(* Bans: a ban that was decided lands later, and a ruleset that was loaded *)
(* is stored later; both carry the property along.                         *)
(* IdProvider: a step of the store says nothing of those before it; what   *)
(* is in the store was not presented.                                      *)
(* Ddns: a check writes the state from what it read before it asked; alone *)
(* since it began, what it read is still so.                               *)
(* Alerts: a scan stores what it mailed before the mail is answered; the   *)
(* mail on its way is accounted for.                                       *)
(* Certificates: a pair is two files and a record; what is written so far, *)
(* and by whom, and that one issuance runs at a time.                      *)
(* Live: a listener is added after an await; which sockets may still add   *)
(* one, and how often.                                                     *)
(* Windows: a window is on the screen wherever it was put, also while it   *)
(* is not shown, and which windows are above which is an order.            *)
(* Notices: a row reaches the list by an answer, over the wire, or leaves  *)
(* by a request; where the rows are that the list does not have yet.       *)
(* Files: an operation is several system calls; where the content is       *)
(* between them.                                                           *)
(* Quotas: a number is given out by counting; how far that can have gone,  *)
(* which saves overlap, and what a save has done so far.                   *)
(* Access: the walk over the levels ends with the nearest that rules.      *)
(* Volumes: a helper is many steps; what is mounted, in fstab and in its   *)
(* scratch file at each, while the helpers came one at a time.             *)
(***************************************************************************)
EXTENDS Parts, Storage, FiniteSetTheorems, WellFoundedInduction, TLAPS

-----------------------------------------------------------------------------
(* Naturals *)

\* A set of naturals that is not empty has a least one, and a greatest if there is a bound.
LEMMA LeastNatural ==
    ASSUME NEW T, T \subseteq Nat, T # {}
    PROVE  \E x \in T : \A y \in T : x <= y
<1> DEFINE R == OpToRel(<, Nat)
<1>1. IsWellFoundedOn(R, Nat)
  BY NatLessThanWellFounded
<1>2. \A x, y \in Nat : x < y => <<x, y>> \in R
  BY DEF OpToRel
<1> HIDE DEF R
<1>3. PICK x \in T : \A y \in T : <<y, x>> \notin R
  BY <1>1, WFMin
<1>4. \A y \in T : ~(y < x)
  BY <1>2, <1>3, Zenon
<1>5. \A y \in T : y \in Nat
  OBVIOUS
<1> QED  BY <1>4, <1>5

LEMMA GreatestNatural ==
    ASSUME NEW T, T \subseteq Nat, T # {}, NEW B \in Nat, \A x \in T : x <= B
    PROVE  \E x \in T : \A y \in T : y <= x
<1> DEFINE D == {B - x : x \in T}
<1>0. \A x \in T : x \in Nat /\ B - x \in Nat
  OBVIOUS
<1>1. D \subseteq Nat /\ D # {}
  BY <1>0
<1>2. PICK d \in D : \A e \in D : d <= e
  BY <1>1, LeastNatural
<1>3. PICK x \in T : d = B - x
  OBVIOUS
<1>4. ASSUME NEW y \in T PROVE y <= x
  <2>1. d <= B - y
    BY <1>2
  <2>2. x \in Nat /\ y \in Nat
    OBVIOUS
  <2> QED  BY <1>3, <2>1, <2>2
<1> QED  BY <1>4

-----------------------------------------------------------------------------
(* A step of the whole *)

\* A step is one of a single part, or leaves it as it is.
LEMMA PartSteps ==
    ASSUME [PartsNext]_partsVars
    PROVE  /\ [Ddns!Next]_ddnsVars /\ [Next]_bansVars /\ [Alerts!Next]_alertsVars
           /\ [IdProvider!Next]_idpVars /\ [Certificates!Next]_certVars
           /\ [Windows!Next]_windowsVars /\ [Live!Next]_liveVars
           /\ [Notices!Next]_noticesVars
<1>1. CASE UNCHANGED partsVars
  BY <1>1 DEF partsVars, outside, desktop
<1>2. CASE PartsNext
  BY <1>2 DEF PartsNext, RunDdns, RunBans, RunAlerts, RunIdProvider, RunCertificates,
     RunWindows, RunLive, RunNotices, outside, desktop
<1> QED  BY <1>1, <1>2

LEMMA StorageSteps ==
    ASSUME [StorageNext]_storageVars
    PROVE  /\ [Access!Next]_accessVars /\ [Files!Next]_filesVars
           /\ [Quotas!Next]_quotaVars /\ [Volumes!Next]_volumesVars
<1>1. CASE UNCHANGED storageVars
  BY <1>1 DEF storageVars
<1>2. CASE StorageNext
  BY <1>2 DEF StorageNext, RunAccess, RunFiles, RunQuotas, RunVolumes
<1> QED  BY <1>1, <1>2

-----------------------------------------------------------------------------
(* Bans *)

\* What a handler does.
Job == {Idle} \cup
    [at : {"banning", "recording", "lifting", "forgetting"}, address : Addresses]

Shape == handlers \in [Handlers -> Job]

\* The addresses of the bans on their way to the kernel.
Banning == At({"banning"})

\* A ban on its way to an address that is trusted by now was decided before it was.
DecidedInTime == Banning \cap trusted \subseteq late

\* So was one of an address that is about to be trusted, once the ruleset is loaded.
StoredInTime ==
    change.at = "storing" => (blocked \cup Banning) \cap change.trusted \subseteq late

IInv == Shape /\ TrustedGetIn /\ DecidedInTime /\ StoredInTime

LEMMA InitInTime == Init => IInv
BY DEF Init, IInv, Shape, Job, TrustedGetIn, DecidedInTime, StoredInTime, Banning, At,
       Idle, NoChange

\* A handler that goes anywhere but to ban: no ban is added to those on their way.
LEMMA GotoElse ==
    ASSUME Shape, NEW h \in Handlers, NEW j \in Job, j.at # "banning", Goto(h, j)
    PROVE  Shape' /\ Banning' \subseteq Banning
BY DEF Shape, Goto, Banning, At

LEMMA GotoBan ==
    ASSUME Shape, NEW h \in Handlers, NEW a \in Addresses,
           Goto(h, [at |-> "banning", address |-> a])
    PROVE  Shape' /\ Banning' \subseteq Banning \cup {a}
<1>1. [at |-> "banning", address |-> a] \in Job
  BY DEF Job
<1> QED  BY <1>1 DEF Shape, Goto, Banning, At

LEMMA SameHandlers ==
    ASSUME Shape, UNCHANGED handlers
    PROVE  Shape' /\ Banning' = Banning
BY DEF Shape, Banning, At

\* A step of a handler that decides nothing.
LEMMA QuietStep ==
    ASSUME IInv, Shape', Banning' \subseteq Banning,
           blocked' \subseteq blocked \cup Banning,
           UNCHANGED <<trusted, change, late>>
    PROVE  IInv'
BY DEF IInv, TrustedGetIn, DecidedInTime, StoredInTime

\* The address is not trusted; if a ruleset waits to be stored, the ban is late.
LEMMA DecideStep ==
    ASSUME IInv, NEW h \in Handlers, NEW a \in Addresses, Fail(h, a) \/ Decoy(h, a)
    PROVE  IInv'
<1>1. a \notin trusted /\ UNCHANGED <<blocked, trusted, change>>
  BY DEF Fail, Decoy, Bannable
<1>2. CASE Goto(h, [at |-> "banning", address |-> a]) /\ Decided(a)
  <2>1. Shape' /\ Banning' \subseteq Banning \cup {a}
    BY <1>2, GotoBan DEF IInv
  <2>2. late \subseteq late' /\ (change.at = "storing" => a \in late')
    BY <1>2 DEF Decided
  <2> QED  BY <1>1, <2>1, <2>2 DEF IInv, TrustedGetIn, DecidedInTime, StoredInTime
<1>3. CASE UNCHANGED <<handlers, late>>
  BY <1>1, <1>3, SameHandlers, QuietStep DEF IInv
<1> QED  BY <1>2, <1>3 DEF Fail, Decoy

LEMMA HandlerStep ==
    ASSUME IInv, NEW h \in Handlers,
           \/ BanAddress(h) \/ RecordBan(h) \/ Unban(h) \/ RemoveBan(h)
           \/ \E a \in Addresses : Lift(h, a)
    PROVE  IInv'
<1>1. handlers[h] \in Job
  BY DEF IInv, Shape
<1>2. CASE BanAddress(h)
  <2> DEFINE a == handlers[h].address
  <2>1. a \in Banning /\ a \in Addresses
    BY <1>1, <1>2 DEF BanAddress, Banning, At, Job, Idle
  <2>2. Goto(h, [at |-> "recording", address |-> a])
    BY <1>2 DEF BanAddress
  <2>3. [at |-> "recording", address |-> a] \in Job
    BY <2>1 DEF Job
  <2>4. blocked' \subseteq blocked \cup Banning /\ UNCHANGED <<trusted, change, late>>
    BY <1>2, <2>1 DEF BanAddress
  <2> HIDE DEF a
  <2> QED  BY <2>2, <2>3, <2>4, GotoElse, QuietStep DEF IInv
<1>3. CASE RecordBan(h) \/ RemoveBan(h)
  <2>1. Goto(h, Idle) /\ UNCHANGED <<blocked, trusted, change, late>>
    BY <1>3 DEF RecordBan, RemoveBan
  <2>2. Idle \in Job /\ Idle.at # "banning"
    BY DEF Job, Idle
  <2> QED  BY <2>1, <2>2, GotoElse, QuietStep DEF IInv
<1>4. CASE Unban(h)
  <2> DEFINE a == handlers[h].address
  <2>1. [at |-> "forgetting", address |-> a] \in Job
    BY <1>1, <1>4 DEF Unban, Job, Idle
  <2>2. Goto(h, [at |-> "forgetting", address |-> a])
        /\ blocked' \subseteq blocked /\ UNCHANGED <<trusted, change, late>>
    BY <1>4 DEF Unban
  <2> HIDE DEF a
  <2> QED  BY <2>1, <2>2, GotoElse, QuietStep DEF IInv
<1>5. ASSUME NEW a \in Addresses, Lift(h, a) PROVE IInv'
  <2>1. [at |-> "lifting", address |-> a] \in Job
    BY DEF Job
  <2>2. Goto(h, [at |-> "lifting", address |-> a])
        /\ UNCHANGED <<blocked, trusted, change, late>>
    BY <1>5 DEF Lift
  <2> QED  BY <2>1, <2>2, GotoElse, QuietStep DEF IInv
<1> QED  BY <1>2, <1>3, <1>4, <1>5

\* The set is emptied with the table, so that only bans on their way are left.
LEMMA LoadStep == ASSUME IInv, LoadRuleset PROVE IInv'
<1>1. /\ blocked' = {} /\ late' = Banning
      /\ UNCHANGED <<trusted, handlers>>
  BY DEF LoadRuleset, AfterLoad, Banning
<1>2. Shape' /\ Banning' = Banning
  BY <1>1, SameHandlers DEF IInv
<1> QED  BY <1>1, <1>2 DEF IInv, TrustedGetIn, DecidedInTime, StoredInTime

LEMMA ChangeStep ==
    ASSUME IInv,
           \/ FailLoad \/ SetFirewallConfig
           \/ \E on, back \in BOOLEAN, who \in SUBSET Addresses : BeginChange(on, who, back)
    PROVE  IInv'
<1>1. Shape' /\ Banning' = Banning /\ blocked' = blocked
  BY SameHandlers DEF IInv, FailLoad, SetFirewallConfig, BeginChange
<1>2. CASE FailLoad
  <2>1. change'.at # "storing"
    BY <1>2 DEF FailLoad, NoChange
  <2>2. \/ UNCHANGED <<trusted, late>>
        \/ late' = late \cup blocked \cup Banning
    BY <1>2 DEF FailLoad, Banning
  <2> QED  BY <1>1, <2>1, <2>2 DEF IInv, TrustedGetIn, DecidedInTime, StoredInTime
<1>3. CASE SetFirewallConfig
  <2>1. /\ change.at = "storing" /\ change'.at # "storing"
        /\ trusted' = change.trusted /\ late' = late
    BY <1>3 DEF SetFirewallConfig, NoChange
  <2> QED  BY <1>1, <2>1 DEF IInv, TrustedGetIn, DecidedInTime, StoredInTime
<1>4. ASSUME NEW on \in BOOLEAN, NEW back \in BOOLEAN, NEW who \in SUBSET Addresses,
             BeginChange(on, who, back)
      PROVE  IInv'
  <2>1. change'.at = "loading" /\ UNCHANGED <<trusted, late>>
    BY <1>4 DEF BeginChange
  <2> QED  BY <1>1, <2>1 DEF IInv, TrustedGetIn, DecidedInTime, StoredInTime
<1> QED  BY <1>2, <1>3, <1>4

LEMMA RestartStep == ASSUME IInv, Restart PROVE IInv'
<1>1. Shape' /\ Banning' = {}
  BY DEF Restart, Shape, Job, Banning, At, Idle
<1>2. change'.at # "storing" /\ UNCHANGED <<trusted, blocked, late>>
  BY DEF Restart, NoChange
<1> QED  BY <1>1, <1>2 DEF IInv, TrustedGetIn, DecidedInTime, StoredInTime

LEMMA StepInTime == IInv /\ [Next]_bansVars => IInv'
<1> SUFFICES ASSUME IInv, [Next]_bansVars PROVE IInv'
  OBVIOUS
<1>1. ASSUME NEW h \in Handlers, NEW a \in Addresses, Fail(h, a) \/ Decoy(h, a)
      PROVE  IInv'
  BY <1>1, DecideStep
<1>2. ASSUME NEW h \in Handlers,
             \/ BanAddress(h) \/ RecordBan(h) \/ Unban(h) \/ RemoveBan(h)
             \/ \E a \in Addresses : Lift(h, a)
      PROVE  IInv'
  BY <1>2, HandlerStep
<1>3. CASE LoadRuleset
  BY <1>3, LoadStep
<1>4. CASE \/ FailLoad \/ SetFirewallConfig
           \/ \E on, back \in BOOLEAN, who \in SUBSET Addresses : BeginChange(on, who, back)
  BY <1>4, ChangeStep
<1>5. CASE Restart
  BY <1>5, RestartStep
<1>6. ASSUME \/ SetHoneypot \/ UNCHANGED bansVars
             \/ \E a \in Addresses : ClearIpFailures(a) \/ Expire(a) \/ Prune(a)
      PROVE  IInv'
  <2>1. /\ blocked' \subseteq blocked
        /\ UNCHANGED <<handlers, trusted, change, late>>
    BY <1>6 DEF SetHoneypot, ClearIpFailures, Expire, Prune, bansVars
  <2> QED  BY <2>1, SameHandlers, QuietStep DEF IInv
<1> QED  BY <1>1, <1>2, <1>3, <1>4, <1>5, <1>6 DEF Next

\* A trusted address is blocked only by a ban that was decided under settings it
\* was not trusted by, and landed on those it is: loading a ruleset empties the
\* set of what the kernel blocks (auto-ban.ts:20, opennas-firewall's apply).
THEOREM TrustedAddressesGetIn == PartsSpec => []TrustedGetIn
<1>1. PartsInit => IInv
  BY InitInTime DEF PartsInit
<1>2. IInv /\ [PartsNext]_partsVars => IInv'
  BY StepInTime, PartSteps
<1>3. IInv => TrustedGetIn
  BY DEF IInv
<1> QED  BY <1>1, <1>2, <1>3, PTL DEF PartsSpec

\* A change of the firewall under way.
Change == [at : {"loading", "storing"}, on : BOOLEAN, trusted : SUBSET Addresses, back : BOOLEAN]

LEMMA ThresholdIsNat == Threshold \in Nat /\ 0 \in 0 .. Threshold
BY PartsAssumption

LEMMA BansStart == ASSUME Init PROVE TypeOK
<1>1. failures \in [Addresses -> 0 .. Threshold]
  BY ThresholdIsNat DEF Init
<1>2. /\ handlers \in [Handlers -> {Idle} \cup
            [at : {"banning", "recording", "lifting", "forgetting"}, address : Addresses]]
      /\ table = FALSE /\ trap = TRUE /\ change = NoChange
      /\ trusted = {} /\ blocked = {} /\ recorded = {} /\ late = {}
  BY DEF Init
<1> QED  BY <1>1, <1>2 DEF TypeOK

\* What the handlers and the counts of failures may become.
LEMMA JobKept ==
    ASSUME TypeOK, NEW h \in Handlers, NEW j \in Job, Goto(h, j)
    PROVE  handlers' \in [Handlers -> Job]
BY DEF TypeOK, Job, Goto

LEMMA CountKept ==
    ASSUME TypeOK, NEW a \in Addresses, NEW n \in 0 .. Threshold,
           failures' = [failures EXCEPT ![a] = n]
    PROVE  failures' \in [Addresses -> 0 .. Threshold]
BY DEF TypeOK

\* A step that leaves the firewall's table and its change alone.
LEMMA BansKept ==
    ASSUME TypeOK, handlers' \in [Handlers -> Job], failures' \in [Addresses -> 0 .. Threshold],
           trap' \in BOOLEAN, blocked' \subseteq Addresses, recorded' \subseteq Addresses,
           late' \subseteq Addresses, UNCHANGED <<table, trusted, change>>,
           blocked' \subseteq blocked \/ table
    PROVE  TypeOK'
BY DEF TypeOK, Job

LEMMA DecideTyped ==
    ASSUME TypeOK, NEW h \in Handlers, NEW a \in Addresses, Fail(h, a) \/ Decoy(h, a)
    PROVE  TypeOK'
<1>1. UNCHANGED <<table, trusted, change, blocked, recorded, trap>>
  BY DEF Fail, Decoy
<1>2. handlers' \in [Handlers -> Job] /\ late' \subseteq Addresses
  <2>1. [at |-> "banning", address |-> a] \in Job
    BY DEF Job
  <2>2. CASE Goto(h, [at |-> "banning", address |-> a]) /\ Decided(a)
    BY <2>1, <2>2, JobKept DEF Decided, TypeOK
  <2>3. CASE UNCHANGED <<handlers, late>>
    BY <2>3 DEF TypeOK, Job
  <2> QED  BY <2>2, <2>3 DEF Fail, Decoy
<1>3. failures' \in [Addresses -> 0 .. Threshold]
  <2> DEFINE n == IF failures[a] < Threshold THEN failures[a] + 1 ELSE Threshold
  <2>1. n \in 0 .. Threshold
    BY ThresholdIsNat DEF TypeOK
  <2>2. CASE failures' = [failures EXCEPT ![a] = n]
    <3> HIDE DEF n
    <3> QED  BY <2>1, <2>2, CountKept
  <2>3. CASE UNCHANGED failures
    BY <2>3 DEF TypeOK
  <2> QED  BY <2>2, <2>3 DEF Fail, Decoy
<1> QED  BY <1>1, <1>2, <1>3, BansKept DEF TypeOK

LEMMA HandlerTyped ==
    ASSUME TypeOK, NEW h \in Handlers,
           \/ BanAddress(h) \/ RecordBan(h) \/ Unban(h) \/ RemoveBan(h)
           \/ \E a \in Addresses : Lift(h, a)
    PROVE  TypeOK'
<1> DEFINE a == handlers[h].address
<1>t. handlers[h] \in Job
  BY DEF TypeOK, Job
<1>k. ASSUME NEW b \in Addresses, NEW s \in {"banning", "recording", "lifting", "forgetting"}
      PROVE  [at |-> s, address |-> b] \in Job
  BY DEF Job
<1>i. Idle \in Job
  BY DEF Job
<1>1. CASE BanAddress(h)
  <2>1. a \in Addresses
    BY <1>t, <1>1 DEF BanAddress, Job, Idle
  <2>2. /\ Goto(h, [at |-> "recording", address |-> a])
        /\ UNCHANGED <<table, trusted, change, recorded, failures, trap, late>>
        /\ (table /\ blocked' = blocked \cup {a}) \/ blocked' = blocked
    BY <1>1 DEF BanAddress
  <2> HIDE DEF a
  <2>3. handlers' \in [Handlers -> Job]
    BY <1>k, <2>1, <2>2, JobKept
  <2> QED  BY <2>1, <2>2, <2>3, BansKept DEF TypeOK
<1>2. CASE RecordBan(h)
  <2>1. a \in Addresses
    BY <1>t, <1>2 DEF RecordBan, Job, Idle
  <2>2. /\ Goto(h, Idle) /\ recorded' = recorded \cup {a} /\ failures' = [failures EXCEPT ![a] = 0]
        /\ UNCHANGED <<table, trusted, change, blocked, trap, late>>
    BY <1>2 DEF RecordBan
  <2> HIDE DEF a
  <2>3. handlers' \in [Handlers -> Job] /\ failures' \in [Addresses -> 0 .. Threshold]
    <3>1. failures' \in [Addresses -> 0 .. Threshold]
      BY <2>1, <2>2, CountKept, ThresholdIsNat
    <3> QED  BY <1>i, <2>2, <3>1, JobKept
  <2> QED  BY <2>1, <2>2, <2>3, BansKept DEF TypeOK
<1>3. CASE Unban(h)
  <2>1. a \in Addresses
    BY <1>t, <1>3 DEF Unban, Job, Idle
  <2>2. /\ Goto(h, [at |-> "forgetting", address |-> a]) /\ blocked' = blocked \ {a}
        /\ UNCHANGED <<table, trusted, change, recorded, failures, trap, late>>
    BY <1>3 DEF Unban
  <2> HIDE DEF a
  <2>3. handlers' \in [Handlers -> Job]
    BY <1>k, <2>1, <2>2, JobKept
  <2> QED  BY <2>2, <2>3, BansKept DEF TypeOK
<1>4. CASE RemoveBan(h)
  <2>1. /\ Goto(h, Idle) /\ recorded' \subseteq recorded
        /\ UNCHANGED <<table, trusted, change, blocked, failures, trap, late>>
    BY <1>4 DEF RemoveBan
  <2>2. handlers' \in [Handlers -> Job]
    BY <1>i, <2>1, JobKept
  <2> QED  BY <2>1, <2>2, BansKept DEF TypeOK
<1>5. ASSUME NEW b \in Addresses, Lift(h, b) PROVE TypeOK'
  <2>1. /\ Goto(h, [at |-> "lifting", address |-> b])
        /\ UNCHANGED <<table, trusted, change, blocked, recorded, failures, trap, late>>
    BY <1>5 DEF Lift
  <2>2. handlers' \in [Handlers -> Job]
    BY <1>k, <2>1, JobKept
  <2> QED  BY <2>1, <2>2, BansKept DEF TypeOK
<1> QED  BY <1>1, <1>2, <1>3, <1>4, <1>5

\* A change of the firewall, of its table or of what is stored of it.
LEMMA ChangeTyped ==
    ASSUME TypeOK,
           \/ LoadRuleset \/ FailLoad \/ SetFirewallConfig
           \/ \E on, back \in BOOLEAN, who \in SUBSET Addresses : BeginChange(on, who, back)
    PROVE  TypeOK'
<1>t. /\ change \in {NoChange} \cup Change
      /\ change.at # "none" => change \in Change
      /\ At({"banning"}) \subseteq Addresses
  BY DEF TypeOK, Change, NoChange, At
<1>n. NoChange \in {NoChange} \cup Change
  OBVIOUS
<1>1. CASE LoadRuleset
  <2>1. /\ table' = change.on /\ blocked' = {} /\ late' = At({"banning"})
        /\ change' = [change EXCEPT !.at = "storing"] /\ change \in Change
        /\ UNCHANGED <<trusted, recorded, failures, trap, handlers>>
    BY <1>t, <1>1 DEF LoadRuleset, AfterLoad
  <2>2. table' \in BOOLEAN /\ change' \in Change
    BY <2>1 DEF Change
  <2> QED  BY <1>t, <2>1, <2>2 DEF TypeOK, Change
<1>2. CASE FailLoad \/ SetFirewallConfig
  <2>1. /\ change \in Change /\ change' = NoChange
        /\ UNCHANGED <<table, blocked, recorded, failures, trap, handlers>>
        /\ trusted' \in {trusted, change.trusted}
        /\ late' \in {late, late \cup blocked \cup At({"banning"})}
    BY <1>t, <1>2 DEF FailLoad, SetFirewallConfig
  <2>2. trusted' \subseteq Addresses /\ late' \subseteq Addresses
    BY <1>t, <2>1 DEF TypeOK, Change
  <2> QED  BY <2>1, <2>2 DEF TypeOK
<1>3. ASSUME NEW on \in BOOLEAN, NEW back \in BOOLEAN, NEW who \in SUBSET Addresses,
             BeginChange(on, who, back)
      PROVE  TypeOK'
  <2>1. [at |-> "loading", on |-> on, trusted |-> who, back |-> back] \in Change
    BY DEF Change
  <2>2. change' \in Change
           /\ UNCHANGED <<table, trusted, blocked, recorded, failures, trap, handlers, late>>
    BY <1>3, <2>1 DEF BeginChange
  <2> QED  BY <2>2 DEF TypeOK, Change
<1> QED  BY <1>1, <1>2, <1>3

LEMMA BansTyped == ASSUME TypeOK, [Next]_bansVars PROVE TypeOK'
<1>1. ASSUME NEW h \in Handlers, NEW a \in Addresses, Fail(h, a) \/ Decoy(h, a)
      PROVE  TypeOK'
  BY <1>1, DecideTyped
<1>2. ASSUME NEW h \in Handlers,
             \/ BanAddress(h) \/ RecordBan(h) \/ Unban(h) \/ RemoveBan(h)
             \/ \E a \in Addresses : Lift(h, a)
      PROVE  TypeOK'
  BY <1>2, HandlerTyped
<1>3. ASSUME \/ LoadRuleset \/ FailLoad \/ SetFirewallConfig
             \/ \E on, back \in BOOLEAN, who \in SUBSET Addresses : BeginChange(on, who, back)
      PROVE  TypeOK'
  BY <1>3, ChangeTyped
<1>4. CASE Restart
  <2>1. handlers' \in [Handlers -> Job] /\ change' = NoChange
        /\ UNCHANGED <<table, trusted, blocked, recorded, failures, trap, late>>
    BY <1>4 DEF Restart, Job
  <2> QED  BY <2>1 DEF TypeOK, Job
<1>5. CASE SetHoneypot \/ UNCHANGED bansVars
  <2>1. /\ trap' \in BOOLEAN
        /\ UNCHANGED <<table, trusted, change, blocked, recorded, failures, handlers, late>>
    BY <1>5 DEF TypeOK, SetHoneypot, bansVars
  <2> QED  BY <2>1, BansKept DEF TypeOK, Job
<1>6. ASSUME NEW a \in Addresses, ClearIpFailures(a) PROVE TypeOK'
  <2>1. /\ failures' = [failures EXCEPT ![a] = 0]
        /\ UNCHANGED <<table, trusted, change, blocked, recorded, trap, handlers, late>>
    BY <1>6 DEF ClearIpFailures
  <2>2. failures' \in [Addresses -> 0 .. Threshold]
    BY <2>1, CountKept, ThresholdIsNat
  <2> QED  BY <2>1, <2>2, BansKept DEF TypeOK, Job
<1>7. ASSUME NEW a \in Addresses, Expire(a) \/ Prune(a) PROVE TypeOK'
  <2>1. /\ blocked' \subseteq blocked /\ recorded' \subseteq recorded
        /\ UNCHANGED <<table, trusted, change, failures, trap, handlers, late>>
    BY <1>7 DEF Expire, Prune
  <2> QED  BY <2>1, BansKept DEF TypeOK, Job
<1> QED  BY <1>1, <1>2, <1>3, <1>4, <1>5, <1>6, <1>7 DEF Next

-----------------------------------------------------------------------------
(* IdProvider *)

\* No code that is still in the store was presented, and every one was issued.
StoredAreUnseen ==
    \A c \in IdProvider!Ids : codes[c] # IdProvider!Nothing => c <= issued /\ c \notin presented

IdPInv == IdProvider!TypeOK /\ StoredAreUnseen

LEMMA InitUnseen == ASSUME MaxCodes \in Nat, IdProvider!Init PROVE IdPInv
BY DEF IdProvider!Init, IdPInv, IdProvider!TypeOK, StoredAreUnseen, IdProvider!Ids

\* The store only loses entries, and no code is presented.
LEMMA ForgetKeeps ==
    ASSUME IdPInv, IdProvider!TypeOK', UNCHANGED <<issued, presented>>,
           \A c \in IdProvider!Ids : codes[c] = IdProvider!Nothing => codes'[c] = IdProvider!Nothing
    PROVE  IdPInv'
BY DEF IdPInv, StoredAreUnseen

LEMMA AllowKeeps ==
    ASSUME MaxCodes \in Nat, IdPInv, NEW u \in Users, NEW k \in Clients,
           NEW pkce \in BOOLEAN, IdProvider!Allow(u, k, pkce)
    PROVE  IdPInv'
<1> DEFINE code == [user |-> u, client |-> k, pkce |-> pkce, fresh |-> TRUE]
<1>1. code \in IdProvider!Code
  BY DEF IdProvider!Code
<1>2. issued \in Nat /\ issued + 1 \in IdProvider!Ids
  BY DEF IdPInv, IdProvider!TypeOK, IdProvider!Allow, IdProvider!Ids
<1>3. codes' = [codes EXCEPT ![issued + 1] = code] /\ issued' = issued + 1
  BY DEF IdProvider!Allow
<1>4. issued + 1 \notin presented
  BY <1>2 DEF IdPInv, IdProvider!TypeOK
<1> HIDE DEF code
<1>5. codes' \in [IdProvider!Ids -> {IdProvider!Nothing} \cup IdProvider!Code]
  BY <1>1, <1>2, <1>3 DEF IdPInv, IdProvider!TypeOK
<1>6. issued' \in 0 .. MaxCodes /\ presented' \subseteq 1 .. issued'
  BY <1>2, <1>3 DEF IdPInv, IdProvider!TypeOK, IdProvider!Allow, IdProvider!Ids
<1>7. IdProvider!TypeOK'
  BY <1>5, <1>6 DEF IdPInv, IdProvider!TypeOK, IdProvider!Allow
<1>8. StoredAreUnseen'
  BY <1>2, <1>3, <1>4
     DEF IdPInv, StoredAreUnseen, IdProvider!TypeOK, IdProvider!Allow, IdProvider!Ids
<1> QED  BY <1>7, <1>8 DEF IdPInv

\* Only a code of the store is exchanged, and it leaves the store.
LEMMA TokenKeeps ==
    ASSUME IdPInv, NEW c \in IdProvider!Ids, NEW k \in Clients,
           NEW proof \in {"verifier", "secret", "wrong"}, IdProvider!Token(c, k, proof)
    PROVE  /\ IdPInv'
           /\ c \notin presented
           /\ honoured' \subseteq honoured \cup {c}
<1>1. codes[c] \in IdProvider!Code
  BY DEF IdPInv, IdProvider!TypeOK, IdProvider!Token
<1>2. c \in 1 .. issued /\ c \notin presented
  BY DEF IdProvider!Token, IdPInv, StoredAreUnseen, IdProvider!TypeOK, IdProvider!Ids
<1>3. codes' = [codes EXCEPT ![c] = IdProvider!Nothing] /\ presented' = presented \cup {c}
  BY DEF IdProvider!Token, IdProvider!ConsumeCode
<1>4. honoured' \subseteq honoured \cup {c}
  BY DEF IdProvider!Token
<1>5. tokens' \in [IdProvider!Ids -> {IdProvider!Nothing} \cup [user : Users, client : Clients]]
  BY <1>1 DEF IdProvider!Token, IdPInv, IdProvider!TypeOK, IdProvider!Code
<1>6. IdProvider!TypeOK'
  BY <1>2, <1>3, <1>4, <1>5 DEF IdProvider!Token, IdPInv, IdProvider!TypeOK
<1>7. StoredAreUnseen'
  BY <1>3 DEF IdProvider!Token, IdPInv, StoredAreUnseen, IdProvider!TypeOK
<1> QED  BY <1>2, <1>4, <1>6, <1>7 DEF IdPInv

LEMMA ExpireKeeps ==
    ASSUME IdPInv, NEW c \in IdProvider!Ids, IdProvider!Expire(c)
    PROVE  IdPInv'
<1>1. codes[c] \in IdProvider!Code
  BY DEF IdPInv, IdProvider!TypeOK, IdProvider!Expire
<1>2. codes' \in [IdProvider!Ids -> {IdProvider!Nothing} \cup IdProvider!Code]
  BY <1>1 DEF IdPInv, IdProvider!TypeOK, IdProvider!Expire, IdProvider!Code
<1>3. IdProvider!TypeOK' /\ UNCHANGED <<issued, presented>>
  BY <1>2 DEF IdPInv, IdProvider!TypeOK, IdProvider!Expire
<1>4. \A d \in IdProvider!Ids : codes[d] = IdProvider!Nothing => codes'[d] = IdProvider!Nothing
  BY DEF IdPInv, IdProvider!TypeOK, IdProvider!Expire
<1> QED  BY <1>3, <1>4, ForgetKeeps

LEMMA RestKeeps ==
    ASSUME IdPInv,
           \/ IdProvider!Restart
           \/ \E u \in Users : IdProvider!DeleteUser(u)
           \/ \E k \in Clients : IdProvider!CreateClient(k) \/ IdProvider!DeleteClient(k)
           \/ \E c \in IdProvider!Ids : IdProvider!ExpireToken(c)
           \/ UNCHANGED idpVars
    PROVE  IdPInv' /\ UNCHANGED honoured
<1>1. UNCHANGED <<issued, presented, honoured>>
  BY DEF IdProvider!Restart, IdProvider!DeleteUser, IdProvider!CreateClient,
         IdProvider!DeleteClient, IdProvider!ExpireToken, idpVars
<1>2. IdProvider!TypeOK'
  BY DEF IdPInv, IdProvider!TypeOK, IdProvider!Restart, IdProvider!DeleteUser,
         IdProvider!CreateClient, IdProvider!DeleteClient, IdProvider!ExpireToken,
         idpVars
<1>3. \A d \in IdProvider!Ids : codes[d] = IdProvider!Nothing => codes'[d] = IdProvider!Nothing
  BY DEF IdProvider!Restart, IdProvider!DeleteUser, IdProvider!CreateClient,
         IdProvider!DeleteClient, IdProvider!ExpireToken, idpVars
<1> QED  BY <1>1, <1>2, <1>3, ForgetKeeps

\* What a step keeps, and what it honours.
LEMMA StepUnseen ==
    ASSUME MaxCodes \in Nat, IdPInv, [IdProvider!Next]_idpVars
    PROVE  IdPInv' /\ \A c \in IdProvider!Ids : c \in honoured' \ honoured => c \notin presented
<1>1. ASSUME NEW u \in Users, NEW k \in Clients, NEW pkce \in BOOLEAN,
             IdProvider!Allow(u, k, pkce)
      PROVE  IdPInv' /\ UNCHANGED honoured
  BY <1>1, AllowKeeps DEF IdProvider!Allow
<1>2. ASSUME NEW c \in IdProvider!Ids, NEW k \in Clients,
             NEW proof \in {"verifier", "secret", "wrong"}, IdProvider!Token(c, k, proof)
      PROVE  IdPInv' /\ \A d \in IdProvider!Ids : d \in honoured' \ honoured => d \notin presented
  BY <1>2, TokenKeeps
<1>3. ASSUME NEW c \in IdProvider!Ids, IdProvider!Expire(c) PROVE IdPInv' /\ UNCHANGED honoured
  BY <1>3, ExpireKeeps DEF IdProvider!Expire
<1> QED  BY <1>1, <1>2, <1>3, RestKeeps DEF IdProvider!Next

\* oidc/store.ts:4, "single use": of every code there can be, the first that was
\* made of it, right or wrong, is all that is ever made of it.
THEOREM CodesOnlyOnce == PartsSpec => CodesAreSingleUse
<1>1. PartsInit => IdPInv
  BY InitUnseen, PartsAssumption DEF PartsInit
<1>2. IdPInv /\ [PartsNext]_partsVars => IdPInv'
  BY StepUnseen, PartSteps, PartsAssumption
<1>3. IdPInv /\ [PartsNext]_partsVars =>
        [/\ IdProvider!TypeOK'
         /\ \A c \in IdProvider!Ids :
               c \in honoured' \ honoured => c \notin presented]_(IdProvider!idpVars)
  BY <1>2, StepUnseen, PartSteps, PartsAssumption DEF IdPInv
<1> QED  BY <1>1, <1>2, <1>3, PTL
            DEF PartsSpec, CodesAreSingleUse, IdProvider!CodesAreSingleUse

-----------------------------------------------------------------------------
(* Ddns *)

\* A check that is alone since it began read what is still stored, and what it was
\* told the provider took, the provider serves.
Undisturbed ==
    \A c \in alone : /\ Ddns!Others(c) = {}
                     /\ (checks[c] # Ddns!Idle => checks[c].state = state)
                     /\ (checks[c].at = "answered" /\ checks[c].answer = "ok" =>
                           dns[checks[c].cfg.host] = checks[c].ip)

\* While nothing is confused, every check is such a one, and for the host of now.
Certain ==
    confused = {} => \A c \in Ddns!Checkers : checks[c] # Ddns!Idle =>
                        c \in alone /\ checks[c].cfg.host = config.host

DdnsInv == Ddns!TypeOK /\ Undisturbed /\ Certain /\ Ddns!StoredIsServed

LEMMA CheckFields ==
    ASSUME Ddns!TypeOK, NEW c \in Ddns!Checkers
    PROVE  /\ checks[c] # Ddns!Idle
                 => checks[c].cfg \in Ddns!Config /\ checks[c].state \in Ddns!State
           /\ checks[c].at = "idle" <=> checks[c] = Ddns!Idle
           /\ checks[c].at = "asking" => checks[c] \in Ddns!Begun
           /\ checks[c].at = "pushing" => checks[c] \in Ddns!Pushing /\ checks[c].ip \in Publics
           /\ checks[c].at = "answered" =>
                 checks[c] \in Ddns!Answered /\ checks[c].ip \in Publics
                 /\ checks[c].answer \in {"ok", "refused", "lost"}
BY DEF Ddns!TypeOK, Ddns!Idle, Ddns!Begun, Ddns!Pushing, Ddns!Answered

LEMMA DdnsTyped == ASSUME Ddns!TypeOK, [Ddns!Next]_ddnsVars PROVE Ddns!TypeOK'
<1>1. CASE Ddns!Restart
  BY <1>1, PartsAssumption DEF Ddns!TypeOK, Ddns!Restart, Ddns!Count, Ddns!Idle
<1>2. ASSUME NEW a \in Publics, Ddns!Move(a) PROVE Ddns!TypeOK'
  BY <1>2, PartsAssumption DEF Ddns!TypeOK, Ddns!Move, Ddns!Count
<1>3. ASSUME NEW cfg \in Ddns!Config, Ddns!SetConfig(cfg) PROVE Ddns!TypeOK'
  BY <1>3, PartsAssumption DEF Ddns!TypeOK, Ddns!SetConfig, Ddns!Count
<1>4. ASSUME NEW c \in Ddns!Checkers, Ddns!Begin(c) PROVE Ddns!TypeOK'
  <2>1. [at |-> "asking", cfg |-> config, state |-> state] \in Ddns!Begun
    BY DEF Ddns!TypeOK, Ddns!Begun
  <2> QED  BY <1>4, <2>1 DEF Ddns!TypeOK, Ddns!Begin, Ddns!Goto
<1>5. ASSUME NEW c \in Ddns!Checkers, Ddns!Unknown(c) \/ Ddns!Skip(c) \/ Ddns!Record(c)
      PROVE Ddns!TypeOK'
  <2>1. checks[c] # Ddns!Idle /\ checks[c].state \in Ddns!State
    BY <1>5, CheckFields DEF Ddns!Unknown, Ddns!Skip, Ddns!Record, Ddns!Idle
  <2>2. state' \in Ddns!State
    BY <1>5, <2>1, CheckFields
       DEF Ddns!Unknown, Ddns!Skip, Ddns!Record, Ddns!Outcome, Ddns!State, Ddns!Known
  <2>3. checks' = [checks EXCEPT ![c] = Ddns!Idle] /\ confused' \in {confused, {}}
        /\ UNCHANGED <<public, config, dns, alone, changes>>
    BY <1>5 DEF Ddns!Unknown, Ddns!Skip, Ddns!Record, Ddns!Ended, Ddns!Goto
  <2> QED  BY <2>2, <2>3 DEF Ddns!TypeOK
<1>6. ASSUME NEW c \in Ddns!Checkers, Ddns!Ask(c) PROVE Ddns!TypeOK'
  <2>1. [at |-> "pushing", cfg |-> checks[c].cfg, state |-> checks[c].state,
           ip |-> public] \in Ddns!Pushing
    BY <1>6, CheckFields DEF Ddns!TypeOK, Ddns!Pushing, Ddns!Ask, Ddns!Idle
  <2> QED  BY <1>6, <2>1 DEF Ddns!TypeOK, Ddns!Ask, Ddns!Goto
<1>7. ASSUME NEW c \in Ddns!Checkers, NEW said \in {"ok", "refused", "lost"}, Ddns!Push(c, said)
      PROVE Ddns!TypeOK'
  <2> DEFINE k == checks[c]
  <2>1. k \in Ddns!Pushing
    BY <1>7, CheckFields DEF Ddns!Push
  <2>2. [at |-> "answered", cfg |-> k.cfg, state |-> k.state, ip |-> k.ip, answer |-> said]
           \in Ddns!Answered
    BY <2>1 DEF Ddns!Pushing, Ddns!Answered
  <2>3. k.cfg.host \in Hosts /\ k.ip \in Ddns!Known
    BY <2>1 DEF Ddns!Pushing, Ddns!Config, Ddns!Known
  <2> QED  BY <1>7, <2>2, <2>3 DEF Ddns!TypeOK, Ddns!Push, Ddns!Goto
<1>8. CASE UNCHANGED ddnsVars
  BY <1>8 DEF Ddns!TypeOK, ddnsVars
<1> QED  BY <1>1, <1>2, <1>3, <1>4, <1>5, <1>6, <1>7, <1>8 DEF Ddns!Next

LEMMA EndKeeps ==
    ASSUME DdnsInv, Ddns!TypeOK', NEW c \in Ddns!Checkers, checks[c] # Ddns!Idle, Ddns!Ended(c),
           UNCHANGED <<config, dns, alone>>,
           \/ confused' = confused
           \/ c \in alone /\ confused' = {},
           confused' = {} /\ state'.lastStatus = "ok" => dns[config.host] = state'.lastIp
    PROVE  DdnsInv'
<1>1. checks' = [checks EXCEPT ![c] = Ddns!Idle]
         /\ checks \in [Ddns!Checkers -> {Ddns!Idle} \cup Ddns!Begun \cup Ddns!Pushing \cup Ddns!Answered]
  BY DEF Ddns!Ended, Ddns!Goto, DdnsInv, Ddns!TypeOK
<1>2. \A d \in Ddns!Checkers : checks'[d] = IF d = c THEN Ddns!Idle ELSE checks[d]
  BY <1>1
<1>3. alone \subseteq Ddns!Checkers
  BY DEF DdnsInv, Ddns!TypeOK
<1>4. Undisturbed'
  <2> SUFFICES ASSUME NEW d \in alone
               PROVE  /\ Ddns!Others(d)' = {}
                      /\ checks'[d] # Ddns!Idle => checks'[d].state = state'
                      /\ checks'[d].at = "answered" /\ checks'[d].answer = "ok" =>
                           dns'[checks'[d].cfg.host] = checks'[d].ip
    BY DEF Undisturbed
  <2>1. Ddns!Others(d)' = {}
    BY <1>2, <1>3 DEF Ddns!Others, DdnsInv, Undisturbed
  <2>2. d # c => checks[c] = Ddns!Idle
    BY <1>3 DEF Ddns!Others, DdnsInv, Undisturbed
  <2> QED  BY <1>2, <1>3, <2>1, <2>2 DEF Ddns!Idle
<1>5. Certain'
  <2>1. CASE confused' = confused
    BY <1>2, <2>1 DEF Certain, DdnsInv
  <2>2. CASE c \in alone
    <3>1. \A d \in Ddns!Checkers : d # c => checks[d] = Ddns!Idle
      BY <2>2 DEF DdnsInv, Undisturbed, Ddns!Others
    <3> QED  BY <1>2, <3>1 DEF Certain
  <2> QED  BY <2>1, <2>2
<1>6. Ddns!StoredIsServed'
  BY DEF Ddns!StoredIsServed
<1> QED  BY <1>4, <1>5, <1>6 DEF DdnsInv

\* A check goes on, with the settings and the state it read.
Stepped(c, j) ==
    /\ checks' = [checks EXCEPT ![c] = j] /\ j.at # "idle"
    /\ j.cfg = checks[c].cfg /\ j.state = checks[c].state
    /\ (j.at = "answered" /\ j.answer = "ok" => dns'[j.cfg.host] = j.ip)

LEMMA DdnsStep == ASSUME DdnsInv, [Ddns!Next]_ddnsVars PROVE DdnsInv'
<1>0. Ddns!TypeOK'
  BY DdnsTyped DEF DdnsInv
<1>t. /\ checks \in [Ddns!Checkers -> {Ddns!Idle} \cup Ddns!Begun \cup Ddns!Pushing \cup Ddns!Answered]
      /\ alone \subseteq Ddns!Checkers /\ dns \in [Hosts -> Ddns!Known]
  BY DEF DdnsInv, Ddns!TypeOK
<1>1. CASE Ddns!Restart
  <2>1. \A c \in Ddns!Checkers : checks'[c] = Ddns!Idle
    BY <1>1 DEF Ddns!Restart
  <2>2. confused' = {} => confused = {} /\ \A c \in Ddns!Checkers : checks[c].at # "answered"
    BY <1>1 DEF Ddns!Restart
  <2>3. UNCHANGED <<public, config, state, dns, alone>>
    BY <1>1 DEF Ddns!Restart
  <2>4. Undisturbed' /\ Certain'
    BY <2>1, <2>3, <1>t DEF Undisturbed, Certain, Ddns!Others, Ddns!Idle
  <2>5. Ddns!StoredIsServed'
    BY <2>2, <2>3 DEF Ddns!StoredIsServed, DdnsInv
  <2> QED  BY <1>0, <2>4, <2>5 DEF DdnsInv
<1>2. ASSUME NEW a \in Publics, Ddns!Move(a) PROVE DdnsInv'
  BY <1>0, <1>2
     DEF DdnsInv, Ddns!Move, Undisturbed, Certain, Ddns!StoredIsServed, Ddns!Others
<1>3. ASSUME NEW cfg \in Ddns!Config, Ddns!SetConfig(cfg) PROVE DdnsInv'
  BY <1>0, <1>3
     DEF DdnsInv, Ddns!SetConfig, Undisturbed, Certain, Ddns!StoredIsServed,
         Ddns!Others
<1>4. ASSUME NEW c \in Ddns!Checkers, Ddns!Begin(c) PROVE DdnsInv'
  <2> DEFINE j == [at |-> "asking", cfg |-> config, state |-> state]
  <2>1. checks[c] = Ddns!Idle /\ \A d \in Ddns!Checkers : checks'[d] = IF d = c THEN j
           ELSE checks[d]
    BY <1>4, <1>t DEF Ddns!Begin, Ddns!Goto
  <2>2. UNCHANGED <<public, config, state, dns>>
    BY <1>4 DEF Ddns!Begin
  <2>3. /\ j # Ddns!Idle /\ j.at # "answered" /\ j.state = state /\ j.cfg.host = config.host
    BY DEF Ddns!Idle
  <2> HIDE DEF j
  <2>4. CASE Ddns!Others(c) = {}
    <3>1. alone' = {c} /\ confused' = confused
      BY <1>4, <2>4 DEF Ddns!Begin
    <3>2. Ddns!Others(c)' = {}
      BY <2>1, <2>4 DEF Ddns!Others
    <3>3. Undisturbed'
      BY <2>1, <2>2, <2>3, <3>1, <3>2 DEF Undisturbed
    <3>4. Certain'
      BY <2>1, <2>2, <2>3, <2>4, <3>1 DEF Certain, Ddns!Others
    <3>5. Ddns!StoredIsServed'
      BY <2>1, <2>2, <2>3, <3>1 DEF Ddns!StoredIsServed, DdnsInv, Ddns!Idle
    <3> QED  BY <1>0, <3>3, <3>4, <3>5 DEF DdnsInv
  <2>5. CASE Ddns!Others(c) # {}
    <3>1. alone' = {} /\ confused' # {}
      BY <1>4, <2>5 DEF Ddns!Begin
    <3> QED  BY <1>0, <3>1 DEF DdnsInv, Undisturbed, Certain, Ddns!StoredIsServed
  <2> QED  BY <2>4, <2>5
<1>5. ASSUME NEW c \in Ddns!Checkers, Ddns!Unknown(c) \/ Ddns!Skip(c) PROVE DdnsInv'
  <2>1. checks[c].at = "asking"
    BY <1>5 DEF Ddns!Unknown, Ddns!Skip
  <2>2. checks[c] # Ddns!Idle /\ checks[c].state \in Ddns!State
    BY <2>1, CheckFields DEF DdnsInv, Ddns!Idle
  <2>3. Ddns!Ended(c) /\ UNCHANGED <<config, dns, alone, confused>>
    BY <1>5 DEF Ddns!Unknown, Ddns!Skip
  <2>4. confused = {} => c \in alone /\ checks[c].state = state
    BY <2>2 DEF DdnsInv, Certain, Undisturbed
  <2>5. confused = {} => \A d \in Ddns!Checkers : checks[d].at # "answered"
    BY <2>1, <2>4, <1>t DEF DdnsInv, Undisturbed, Ddns!Others, Ddns!Idle
  <2>6. confused' = {} /\ state'.lastStatus = "ok" => dns[config.host] = state'.lastIp
    BY <1>5, <2>2, <2>3, <2>4, <2>5
       DEF Ddns!Unknown, Ddns!Skip, Ddns!State, DdnsInv, Ddns!StoredIsServed
  <2> QED  BY <1>0, <2>2, <2>3, <2>6, EndKeeps
<1>6. ASSUME NEW c \in Ddns!Checkers, Ddns!Record(c) PROVE DdnsInv'
  <2>1. checks[c].at = "answered"
    BY <1>6 DEF Ddns!Record
  <2>2. checks[c] # Ddns!Idle /\ checks[c].state \in Ddns!State
    BY <2>1, CheckFields DEF DdnsInv, Ddns!Idle
  <2>3. Ddns!Ended(c) /\ UNCHANGED <<config, dns, alone>> /\ state' = Ddns!Outcome(checks[c])
    BY <1>6 DEF Ddns!Record
  <2>4. \/ confused' = confused
        \/ c \in alone /\ confused' = {} /\ checks[c].cfg.host = config.host
    BY <1>6 DEF Ddns!Record
  <2>5. confused' = {} => c \in alone /\ checks[c].cfg.host = config.host
    BY <2>2, <2>4 DEF DdnsInv, Certain
  <2>6. state'.lastStatus = "ok" => checks[c].answer = "ok" /\ state'.lastIp = checks[c].ip
    BY <2>2, <2>3 DEF Ddns!Outcome, Ddns!State
  <2>7. confused' = {} /\ state'.lastStatus = "ok" => dns[config.host] = state'.lastIp
    BY <2>1, <2>5, <2>6 DEF DdnsInv, Undisturbed
  <2> QED  BY <1>0, <2>2, <2>3, <2>4, <2>7, EndKeeps
<1>7. ASSUME NEW c \in Ddns!Checkers,
             Ddns!Ask(c) \/ \E said \in {"ok", "refused", "lost"} : Ddns!Push(c, said)
      PROVE  DdnsInv'
  <2>1. PICK j : Stepped(c, j)
    <3>1. ASSUME Ddns!Ask(c) PROVE \E j : Stepped(c, j)
      <4> DEFINE j == [at |-> "pushing", cfg |-> checks[c].cfg, state |-> checks[c].state,
                       ip |-> public]
      <4>1. Stepped(c, j)
        BY <3>1 DEF Ddns!Ask, Ddns!Goto, Stepped
      <4> QED  BY <4>1
    <3>2. ASSUME NEW said \in {"ok", "refused", "lost"}, Ddns!Push(c, said)
          PROVE  \E j : Stepped(c, j)
      <4> DEFINE k == checks[c]
                 j == [at |-> "answered", cfg |-> k.cfg, state |-> k.state,
                       ip |-> k.ip, answer |-> said]
      <4>1. checks' = [checks EXCEPT ![c] = j]
        BY <3>2 DEF Ddns!Push, Ddns!Goto
      <4>2. k.cfg.host \in Hosts
        <5>1. k \in Ddns!Pushing
          BY <3>2, CheckFields DEF Ddns!Push, DdnsInv
        <5> QED  BY <5>1 DEF Ddns!Pushing, Ddns!Config
      <4>3. said = "ok" => dns'[k.cfg.host] = k.ip
        BY <3>2, <4>2, <1>t DEF Ddns!Push
      <4>4. Stepped(c, j)
        BY <4>1, <4>3 DEF Stepped
      <4> QED  BY <4>4
    <3> QED  BY <1>7, <3>1, <3>2
  <2>2. checks[c] # Ddns!Idle /\ checks[c].at # "answered"
    BY <1>7 DEF Ddns!Ask, Ddns!Push, Ddns!Idle
  <2>3. UNCHANGED <<public, config, state, confused, alone>>
    BY <1>7 DEF Ddns!Ask, Ddns!Push
  <2>4. \A d \in Ddns!Checkers : checks'[d] = IF d = c THEN j ELSE checks[d]
    BY <2>1, <1>t DEF Stepped
  <2>5. j # Ddns!Idle
    BY <2>1 DEF Ddns!Idle, Stepped
  <2>6. Undisturbed'
    <3> SUFFICES ASSUME NEW d \in alone
                 PROVE  /\ Ddns!Others(d)' = {}
                        /\ checks'[d] # Ddns!Idle => checks'[d].state = state'
                        /\ checks'[d].at = "answered" /\ checks'[d].answer = "ok" =>
                             dns'[checks'[d].cfg.host] = checks'[d].ip
      BY <2>3 DEF Undisturbed
    <3>1. d = c
      BY <2>2 DEF DdnsInv, Undisturbed, Ddns!Others
    <3>2. Ddns!Others(c)' = {}
      BY <2>4, <3>1 DEF DdnsInv, Undisturbed, Ddns!Others
    <3>3. j.state = state
      BY <2>1, <2>2, <3>1 DEF DdnsInv, Undisturbed, Stepped
    <3> QED  BY <2>1, <2>3, <2>4, <3>1, <3>2, <3>3 DEF Stepped
  <2>7. Certain'
    BY <2>1, <2>2, <2>3, <2>4 DEF DdnsInv, Certain, Stepped
  <2>8. Ddns!StoredIsServed'
    <3>1. CASE j.at = "answered"
      BY <2>4, <3>1 DEF Ddns!StoredIsServed
    <3>2. CASE j.at # "answered"
      <4>1. UNCHANGED dns
        <5>1. checks'[c].at # "answered"
          BY <2>4, <3>2
        <5>2. ASSUME NEW said \in {"ok", "refused", "lost"}, Ddns!Push(c, said) PROVE FALSE
          BY <5>1, <5>2, <1>t DEF Ddns!Push, Ddns!Goto
        <5> QED  BY <1>7, <5>2 DEF Ddns!Ask
      <4> QED  BY <2>2, <2>3, <2>4, <3>2, <4>1 DEF Ddns!StoredIsServed, DdnsInv
    <3> QED  BY <3>1, <3>2
  <2> QED  BY <1>0, <2>6, <2>7, <2>8 DEF DdnsInv
<1>8. CASE UNCHANGED ddnsVars
  BY <1>0, <1>8
     DEF ddnsVars, DdnsInv, Undisturbed, Certain, Ddns!StoredIsServed, Ddns!Others
<1>9. CASE \E c \in Ddns!Checkers :
               \/ Ddns!Begin(c) \/ Ddns!Unknown(c) \/ Ddns!Skip(c) \/ Ddns!Ask(c) \/ Ddns!Record(c)
               \/ \E said \in {"ok", "refused", "lost"} : Ddns!Push(c, said)
  BY <1>4, <1>5, <1>6, <1>7, <1>9
<1>10. CASE Ddns!Next
  BY <1>1, <1>2, <1>3, <1>9, <1>10 DEF Ddns!Next
<1> QED  BY <1>8, <1>10

LEMMA DdnsStarts == ASSUME Ddns!Init PROVE DdnsInv
<1>1. checks = [c \in Ddns!Checkers |-> Ddns!Idle] /\ dns = [h \in Hosts |-> None]
  BY DEF Ddns!Init
<1>2. config \in Ddns!Config /\ state \in Ddns!State /\ state.lastStatus # "ok"
  BY DEF Ddns!Init, Ddns!Config, Ddns!State, Ddns!Known
<1>3. public \in Publics /\ confused = {} /\ alone = {} /\ changes = 0
  BY DEF Ddns!Init
<1>4. Ddns!TypeOK
  BY <1>1, <1>2, <1>3, PartsAssumption DEF Ddns!TypeOK, Ddns!Known
<1> QED  BY <1>1, <1>2, <1>3, <1>4
            DEF DdnsInv, Undisturbed, Certain, Ddns!StoredIsServed

\* ddns.ts: the timer leaves the provider alone while the state is "ok" and has the line's
\* address, so the state has to be right.  It is, whatever the checks, the timer, a save
\* of the settings and a restart do in between, unless checks crossed, a host was
\* renamed, or an answer is unread.
THEOREM StateIsRight == PartsSpec => []StoredIsServed
<1>1. DdnsInv => StoredIsServed
  BY DEF DdnsInv, StoredIsServed
<1>2. PartsInit => DdnsInv
  BY DdnsStarts DEF PartsInit
<1>3. DdnsInv /\ [PartsNext]_partsVars => DdnsInv'
  BY DdnsStep, PartSteps
<1> QED  BY <1>1, <1>2, <1>3, PTL DEF PartsSpec

-----------------------------------------------------------------------------
(* Alerts *)

\* A scan whose mail is on its way.
Mailing == [at : {"mailing"}, previous : Alerts!Reports, about : SUBSET Disks,
   worst : [Disks -> Alerts!Ranks]]

\* Between the state that is stored and the mail: what is about to be told is what is
\* stored of those disks, of the others all was told, and so it would be again if the
\* scan had to put the previous state back.
OnItsWay ==
    scan # Alerts!NoScan =>
        /\ \A d \in scan.about : reports[d].rank = scan.worst[d]
        /\ \A d \in Disks \ (unsure \cup scan.about) : reports[d].rank <= told[d]
        /\ \A d \in Disks \ unsure : scan.worst[d] > 0 => scan.previous[d].rank <= told[d]

AlertsInv == Alerts!TypeOK /\ OnItsWay /\ Alerts!ReportedWasTold

LEMMA ScanFields ==
    ASSUME Alerts!TypeOK
    PROVE  /\ scan = Alerts!NoScan \/ scan \in Mailing
           /\ (scan.at = "mailing" <=> scan # Alerts!NoScan)
           /\ (scan \in Mailing => /\ scan.previous \in Alerts!Reports /\ scan.about \subseteq Disks
                                  /\ scan.worst \in [Disks -> Alerts!Ranks])
BY DEF Alerts!TypeOK, Mailing, Alerts!NoScan

LEMMA StateFields ==
    ASSUME NEW r \in Alerts!Reports, NEW d \in Disks
    PROVE  r[d].rank \in Alerts!Ranks /\ r[d].old \in BOOLEAN
BY DEF Alerts!Reports

LEMMA Aged ==
    ASSUME NEW r \in [rank : Alerts!Ranks, old : BOOLEAN], NEW v
    PROVE  /\ [r EXCEPT !.old = v] = [rank |-> r.rank, old |-> v]
           /\ (v \in BOOLEAN => [r EXCEPT !.old = v] \in [rank : Alerts!Ranks, old : BOOLEAN])
OBVIOUS

LEMMA AlertsStep == ASSUME AlertsInv, [Alerts!Next]_alertsVars PROVE AlertsInv'
<1>t. /\ health \in [Disks -> Alerts!Ranks] /\ mailing \in BOOLEAN
      /\ reports \in Alerts!Reports /\ told \in [Disks -> Alerts!Ranks]
      /\ unsure \subseteq Disks /\ upsets \in 0 .. MaxUpsets
            /\ scan \in {Alerts!NoScan} \cup Mailing
  BY DEF AlertsInv, Alerts!TypeOK, Mailing
<1>n. \A n \in Alerts!Ranks : n \in Nat
  BY DEF Alerts!Ranks
<1>1. CASE Alerts!Age
  <2> DEFINE old(d) == reports[d].rank > 0
  <2>0. reports' = [d \in Disks |-> [reports[d] EXCEPT !.old = old(d)]]
           /\ \A d \in Disks : old(d) \in BOOLEAN
    BY <1>1 DEF Alerts!Age
  <2>a. \A d \in Disks : reports[d] \in [rank : Alerts!Ranks, old : BOOLEAN]
    BY <1>t DEF Alerts!Reports
  <2> HIDE DEF old
  <2>1. \A d \in Disks : reports'[d] = [rank |-> reports[d].rank, old |-> old(d)]
    <3> SUFFICES ASSUME NEW d \in Disks
                 PROVE reports'[d] = [rank |-> reports[d].rank, old |-> old(d)]
      OBVIOUS
    <3>1. reports'[d] = [reports[d] EXCEPT !.old = old(d)]
      BY <2>0
    <3> QED  BY <2>a, <3>1, Aged
  <2>2. reports' \in Alerts!Reports
    <3>1. \A d \in Disks : [reports[d] EXCEPT !.old = old(d)] \in [rank : Alerts!Ranks,
             old : BOOLEAN]
      BY <2>0, <2>a, Aged
    <3> QED  BY <2>0, <3>1 DEF Alerts!Reports
  <2>3. UNCHANGED <<health, mailing, scan, told, unsure, upsets>> /\ scan = Alerts!NoScan
    BY <1>1 DEF Alerts!Age
  <2>4. ASSUME NEW d \in Disks PROVE reports'[d].rank = reports[d].rank
    <3>1. reports'[d] = [rank |-> reports[d].rank, old |-> old(d)]
      BY <2>1
    <3> QED  BY <3>1
  <2>5. Alerts!ReportedWasTold'
    BY <2>3, <2>4 DEF AlertsInv, Alerts!ReportedWasTold
  <2>6. Alerts!TypeOK'
    BY <1>t, <2>2, <2>3 DEF Alerts!TypeOK, Mailing
  <2>7. OnItsWay'
    BY <2>3 DEF OnItsWay, Alerts!NoScan
  <2> QED  BY <2>5, <2>6, <2>7 DEF AlertsInv
<1>2. CASE Alerts!ScanSilently
  <2>1. \A d \in Disks : told'[d] = IF d \in Alerts!Sick THEN told[d] ELSE 0
    BY <1>2 DEF Alerts!ScanSilently
  <2>2. told' \in [Disks -> Alerts!Ranks] /\ unsure' \subseteq Disks
    BY <1>2, <1>t DEF Alerts!ScanSilently, Alerts!Ranks
  <2>3. UNCHANGED <<health, mailing, reports, scan, upsets>> /\ scan = Alerts!NoScan
        /\ unsure' = unsure \cup {d \in Disks \ Alerts!Sick : reports[d].rank > 0}
    BY <1>2 DEF Alerts!ScanSilently
  <2>4. ASSUME NEW d \in Disks \ unsure' PROVE reports[d].rank <= told'[d]
    <3>1. reports[d].rank \in 0 .. 2 /\ (d \in Alerts!Sick \/ ~(reports[d].rank > 0))
      BY <1>t, <2>3, StateFields DEF Alerts!Ranks
    <3> QED  BY <2>1, <2>3, <3>1 DEF AlertsInv, Alerts!ReportedWasTold
  <2> QED  BY <1>t, <2>2, <2>3, <2>4
              DEF AlertsInv, Alerts!TypeOK, OnItsWay, Alerts!ReportedWasTold, Mailing
<1>3. CASE Alerts!Scan
  <2>1. /\ \A d \in Disks : told'[d] = IF d \in Alerts!Sick THEN told[d] ELSE 0
        /\ \A d \in Disks : reports'[d] = IF d \in Alerts!Due
              THEN [rank |-> health[d], old |-> FALSE]
                                        ELSE IF d \in Alerts!Sick THEN reports[d]
                                           ELSE Alerts!Unreported
    BY <1>3 DEF Alerts!Scan, Alerts!Reported
  <2>2. told' \in [Disks -> Alerts!Ranks] /\ unsure' \subseteq Disks
    BY <1>3, <1>t DEF Alerts!Scan, Alerts!Ranks
  <2>3. /\ UNCHANGED <<health, mailing, upsets>> /\ scan = Alerts!NoScan
              /\ unsure' = unsure \cap Alerts!Sick
        /\ scan' = IF Alerts!Due = {} THEN Alerts!NoScan
               ELSE [at |-> "mailing", previous |-> reports, about |-> Alerts!Due, worst |-> health]
    BY <1>3 DEF Alerts!Scan
  <2>4. reports' \in Alerts!Reports
    <3>1. Alerts!Unreported \in [rank : Alerts!Ranks, old : BOOLEAN]
      BY DEF Alerts!Unreported, Alerts!Ranks
    <3>2. \A d \in Disks : [rank |-> health[d], old |-> FALSE] \in [rank : Alerts!Ranks,
             old : BOOLEAN]
      BY <1>t
    <3>3. reports' = Alerts!Reported
      BY <1>3 DEF Alerts!Scan
    <3> QED  BY <1>t, <3>1, <3>2, <3>3 DEF Alerts!Reports, Alerts!Reported
  <2>5. Alerts!Due \subseteq Alerts!Sick /\ Alerts!Sick \subseteq Disks
           /\ \A d \in Disks : d \in Alerts!Sick <=> health[d] > 0
    BY DEF Alerts!Due, Alerts!Sick
  <2>6. scan' \in {Alerts!NoScan} \cup Mailing
    BY <1>t, <2>3, <2>5 DEF Mailing
  <2>7. ASSUME NEW d \in Disks \ unsure' PROVE d \notin Alerts!Due => reports'[d].rank <= told'[d]
    <3>1. CASE d \in Alerts!Sick
      BY <2>1, <2>3, <3>1 DEF AlertsInv, Alerts!ReportedWasTold
    <3>2. CASE d \notin Alerts!Sick
      <4>1. d \notin Alerts!Due => reports'[d] = Alerts!Unreported
        BY <2>1, <3>2
      <4>2. told'[d] = 0
        BY <2>1, <3>2
      <4> QED  BY <4>1, <4>2 DEF Alerts!Unreported
    <3> QED  BY <3>1, <3>2
  <2>8. \A d \in Disks \ unsure' : health[d] > 0 => reports[d].rank <= told'[d]
    BY <2>1, <2>3, <2>5 DEF AlertsInv, Alerts!ReportedWasTold
  <2>9. ASSUME NEW d \in Alerts!Due PROVE reports'[d].rank = health[d]
    <3>1. reports'[d] = [rank |-> health[d], old |-> FALSE]
      BY <2>1, <2>5
    <3> QED  BY <3>1
  <2>10. OnItsWay'
    <3>1. CASE Alerts!Due = {}
      BY <2>3, <3>1 DEF OnItsWay, Alerts!NoScan
    <3>2. CASE Alerts!Due # {}
      <4>1. /\ scan'.previous = reports /\ scan'.about = Alerts!Due /\ scan'.worst = health
        BY <2>3, <3>2
      <4> QED  BY <2>7, <2>8, <2>9, <4>1 DEF OnItsWay
    <3> QED  BY <3>1, <3>2
  <2>11. Alerts!ReportedWasTold'
    BY <2>3, <2>7 DEF Alerts!ReportedWasTold, Alerts!NoScan
  <2> QED  BY <1>t, <2>2, <2>3, <2>4, <2>6, <2>10, <2>11
              DEF AlertsInv, Alerts!TypeOK, Mailing
<1>4. CASE Alerts!MailSent
  <2>1. scan \in Mailing /\ scan # Alerts!NoScan
    BY <1>4, ScanFields DEF Alerts!MailSent, AlertsInv
  <2>2. \A d \in Disks : told'[d] = IF d \in scan.about THEN scan.worst[d] ELSE told[d]
    BY <1>4 DEF Alerts!MailSent
  <2>3. told' \in [Disks -> Alerts!Ranks]
    BY <1>4, <1>t, <2>1 DEF Alerts!MailSent, Mailing
  <2>4. scan' = Alerts!NoScan /\ unsure' = unsure \ scan.about
           /\ UNCHANGED <<health, mailing, reports, upsets>>
    BY <1>4 DEF Alerts!MailSent
  <2>5. ASSUME NEW d \in Disks \ unsure' PROVE reports'[d].rank <= told'[d]
    <3>1. reports[d].rank \in 0 .. 2
      BY <1>t, StateFields DEF Alerts!Ranks
    <3> QED  BY <2>1, <2>2, <2>4, <3>1 DEF AlertsInv, OnItsWay
  <2> QED  BY <1>t, <2>3, <2>4, <2>5
              DEF AlertsInv, Alerts!TypeOK, OnItsWay, Alerts!ReportedWasTold, Mailing
<1>5. CASE Alerts!MailFailed
  <2>1. scan \in Mailing /\ scan # Alerts!NoScan
    BY <1>5, ScanFields DEF Alerts!MailFailed, AlertsInv
  <2>2. /\ scan' = Alerts!NoScan /\ reports' = scan.previous /\ UNCHANGED <<health, mailing, told>>
        /\ unsure' = unsure \cup {d \in Disks : scan.worst[d] = 0 /\ scan.previous[d].rank > 0}
        /\ upsets' \in 0 .. MaxUpsets
    BY <1>5, <1>t, PartsAssumption DEF Alerts!MailFailed, Alerts!PutBack
  <2>3. scan.previous \in Alerts!Reports /\ scan.worst \in [Disks -> Alerts!Ranks]
    BY <2>1 DEF Mailing
  <2>4. ASSUME NEW d \in Disks \ unsure' PROVE reports'[d].rank <= told'[d]
    <3>1. scan.previous[d].rank \in 0 .. 2 /\ scan.worst[d] \in 0 .. 2 /\ told[d] \in 0 .. 2
      BY <1>t, <2>3, StateFields DEF Alerts!Ranks
    <3> QED  BY <2>1, <2>2, <3>1 DEF AlertsInv, OnItsWay
  <2> QED  BY <1>t, <2>2, <2>3, <2>4
              DEF AlertsInv, Alerts!TypeOK, OnItsWay, Alerts!ReportedWasTold, Mailing
<1>6. CASE Alerts!Restart
  <2>1. scan \in Mailing /\ scan # Alerts!NoScan
    BY <1>6, <1>t DEF Alerts!Restart
  <2>2. /\ scan' = Alerts!NoScan /\ UNCHANGED <<health, mailing, reports, told>>
        /\ unsure' = unsure \cup scan.about /\ upsets' \in 0 .. MaxUpsets
    BY <1>6, <1>t, PartsAssumption DEF Alerts!Restart
  <2>3. unsure' \subseteq Disks
    BY <1>t, <2>1, <2>2 DEF Mailing
  <2>4. \A d \in Disks \ unsure' : reports'[d].rank <= told'[d]
    BY <2>1, <2>2 DEF AlertsInv, OnItsWay
  <2> QED  BY <1>t, <2>2, <2>3, <2>4
              DEF AlertsInv, Alerts!TypeOK, OnItsWay, Alerts!ReportedWasTold, Mailing
<1>7. CASE Alerts!SetMailing
  BY <1>7, <1>t
     DEF Alerts!SetMailing, AlertsInv, Alerts!TypeOK, OnItsWay,
         Alerts!ReportedWasTold, Mailing
<1>8. ASSUME NEW d \in Disks, NEW rank \in Alerts!Ranks, Alerts!Change(d, rank) PROVE AlertsInv'
  BY <1>8, <1>t
     DEF Alerts!Change, AlertsInv, Alerts!TypeOK, OnItsWay, Alerts!ReportedWasTold,
         Mailing
<1>9. CASE UNCHANGED alertsVars
  BY <1>9 DEF alertsVars, AlertsInv, Alerts!TypeOK, OnItsWay, Alerts!ReportedWasTold
<1> QED  BY <1>1, <1>2, <1>3, <1>4, <1>5, <1>6, <1>7, <1>8, <1>9 DEF Alerts!Next

LEMMA AlertsStart == ASSUME Alerts!Init PROVE AlertsInv
<1>1. /\ reports = [d \in Disks |-> Alerts!Unreported] /\ health = [d \in Disks |-> 0]
      /\ told = [d \in Disks |-> 0]
  BY DEF Alerts!Init
<1>2. reports \in Alerts!Reports
  BY <1>1 DEF Alerts!Reports, Alerts!Unreported, Alerts!Ranks
<1>3. \A d \in Disks : reports[d].rank <= told[d]
  <2> SUFFICES ASSUME NEW d \in Disks PROVE reports[d].rank <= told[d]
    OBVIOUS
  <2>1. reports[d] = Alerts!Unreported /\ told[d] = 0
    BY <1>1
  <2> QED  BY <2>1 DEF Alerts!Unreported
<1> QED  BY <1>1, <1>2, <1>3, PartsAssumption
            DEF Alerts!Init, AlertsInv, Alerts!TypeOK, OnItsWay,
                Alerts!ReportedWasTold, Alerts!Ranks

\* monitor: a disk counts as reported only if a mail said so since it was last healthy;
\* a state that was stored before a mail failed is put back, so that it is mailed again.
THEOREM ReportedDisks == PartsSpec => []ReportedWasTold
<1>1. PartsInit => TypeOK /\ AlertsInv
  BY BansStart, AlertsStart DEF PartsInit
<1>2. TypeOK /\ AlertsInv /\ [PartsNext]_partsVars => TypeOK' /\ AlertsInv'
  BY BansTyped, AlertsStep, PartSteps
<1>3. TypeOK /\ AlertsInv => ReportedWasTold
  BY DEF AlertsInv, ReportedWasTold
<1> QED  BY <1>1, <1>2, <1>3, PTL DEF PartsSpec

-----------------------------------------------------------------------------
(* Certificates *)

\* The same of the writers of this part.
LEMMA CertAssumption ==
    /\ MaxPairs \in Nat /\ MaxFaults \in Nat /\ Admin \notin Certificates!Issuers
    /\ Certificates!Writers \cap {"issued", "recorded", "admin", "torn"} = {}
BY PartsAssumption DEF Certificates!Writers, Certificates!Issuers

\* The names a certificate can be wished for, and what there is of a job at each stage.
Wished == NameSets \cup {{}}

AcmeState == [names : Wished, status : {"never", "running", "ok", "error"}]

Checking == [at : {"checking"}, new : Certificates!Cert]

Issuing == [at : {"issuing", "first", "second", "reload"}, new : Certificates!Cert,
   previous : Wished]

Installing == [at : {"first", "second", "reload"}, new : Certificates!Cert, how : {"own", "self"}]

CertJobs == {Certificates!Idle} \cup Checking \cup Issuing \cup Installing

\* An issuance is of the issuers, an installation of the administrator.
CertTyped ==
    /\ jobs \in [Certificates!Writers -> CertJobs]
    /\ \A w \in Certificates!Writers : IF w = Admin
          THEN jobs[w] \in {Certificates!Idle} \cup Installing
                          ELSE jobs[w] \in {Certificates!Idle} \cup Checking \cup Issuing

\* The stages an issuance holds the flag in.
InIssuance(w) == w \in Certificates!Issuers
   /\ jobs[w].at \in {"issuing", "first", "second", "reload"}

\* There is one at most, it holds the flag, and nobody else writes the record.
OneIssuance ==
    /\ \A w \in Certificates!Writers : InIssuance(w) => running /\ jobs[w].previous = acme.names
    /\ \A v, w \in Certificates!Writers : InIssuance(v) /\ InIssuance(w) => v = w

\* Between the first file and the second, and between the second and the record.
HalfWritten ==
    \A w \in Certificates!Writers :
        /\ (source = w /\ jobs[w].at = "second" =>
               IF Certificates!KeyFirst(w) THEN key = jobs[w].new.pair ELSE cert = jobs[w].new)
        /\ (source = "issued" /\ w # Admin /\ jobs[w].at = "reload" => cert = jobs[w].new)
        /\ (w # Admin /\ jobs[w].at \in {"second", "reload"} => source # "recorded")

\* A pair that is being installed was made.
Numbered == \A w \in Certificates!Writers : jobs[w] = Certificates!Idle \/ jobs[w].new.pair <= pairs

CertInv == Certificates!TypeOK /\ Numbered /\ CertTyped /\ OneIssuance /\ HalfWritten
   /\ Certificates!CertificateAsRecorded

LEMMA JobFields ==
    ASSUME CertTyped, NEW w \in Certificates!Writers
    PROVE  /\ jobs[w].at \in {"idle", "checking", "issuing", "first", "second", "reload"}
           /\ (jobs[w].at # "idle" => jobs[w].new \in Certificates!Cert)
           /\ (jobs[w].at = "idle" <=> jobs[w] = Certificates!Idle)
           /\ (jobs[w].at = "checking" => jobs[w] \in Checking /\ w # Admin)
           /\ (jobs[w].at \in {"issuing", "first", "second", "reload"} /\ w # Admin =>
                 jobs[w] \in Issuing)
           /\ (jobs[w].at # "idle" /\ w = Admin => jobs[w] \in Installing)
<1>1. CASE w = Admin
  BY <1>1 DEF CertTyped, Certificates!Idle, Installing
<1>2. CASE w # Admin
  BY <1>2 DEF CertTyped, Certificates!Idle, Issuing, Checking
<1> QED  BY <1>1, <1>2

LEMMA CertStarts == ASSUME Certificates!Init PROVE CertInv
<1>1. jobs = [w \in Certificates!Writers |-> Certificates!Idle]
  BY DEF Certificates!Init
<1>2. \A w \in Certificates!Writers : jobs[w] = Certificates!Idle /\ jobs[w].at = "idle"
  BY <1>1 DEF Certificates!Idle
<1>3. Certificates!TypeOK
  <2>1. settings \in [enabled : BOOLEAN, names : NameSets]
    BY DEF Certificates!Init
  <2>2. acme \in [names : NameSets \cup {{}}, status : {"never", "running", "ok", "error"}]
    BY DEF Certificates!Init
  <2>3. cert \in Certificates!Cert /\ key = 0 /\ pairs = 0 /\ cert.pair = 0
    BY DEF Certificates!Init, Certificates!Cert, Certificates!SelfSigned
  <2>4. running \in BOOLEAN /\ due \in BOOLEAN
    BY DEF Certificates!Init
  <2>5. pairs \in 0 .. MaxPairs /\ faults \in 0 .. MaxFaults /\ key \in 0 .. pairs
    BY CertAssumption DEF Certificates!Init
  <2>6. source \in {"issued", "recorded", "admin", "torn"} \cup Certificates!Writers
    BY DEF Certificates!Init
  <2> QED  BY <1>1, <1>2, <2>1, <2>2, <2>3, <2>4, <2>5, <2>6 DEF Certificates!TypeOK
<1>4. CertTyped
  BY <1>1, <1>2 DEF CertTyped, CertJobs
<1>5. OneIssuance /\ HalfWritten
  BY <1>2 DEF OneIssuance, HalfWritten, InIssuance
<1>6. Certificates!CertificateAsRecorded
  BY DEF Certificates!Init, Certificates!CertificateAsRecorded
<1> QED  BY <1>2, <1>3, <1>4, <1>5, <1>6 DEF CertInv, Numbered

\* A step that writes one job: what its invariants then ask of it.
LEMMA OneJob ==
    ASSUME CertInv, NEW w \in Certificates!Writers, NEW j \in CertJobs, Certificates!Goto(w, j),
           IF w = Admin THEN j \in {Certificates!Idle} \cup Installing
                        ELSE j \in {Certificates!Idle} \cup Checking \cup Issuing
    PROVE  /\ CertTyped' /\ DOMAIN jobs' = Certificates!Writers
           /\ \A v \in Certificates!Writers : jobs'[v] = IF v = w THEN j ELSE jobs[v]
           /\ \A v \in Certificates!Writers : jobs'[v] = Certificates!Idle
                 \/ jobs'[v].new \in Certificates!Cert
<1>1. jobs \in [Certificates!Writers -> CertJobs] /\ jobs' = [jobs EXCEPT ![w] = j]
  BY DEF CertInv, CertTyped, Certificates!Goto
<1>2. \A v \in Certificates!Writers : jobs'[v] = IF v = w THEN j ELSE jobs[v]
  BY <1>1
<1>3. CertTyped'
  BY <1>1, <1>2 DEF CertInv, CertTyped
<1>4. ASSUME NEW x \in CertJobs PROVE x = Certificates!Idle \/ x.new \in Certificates!Cert
  BY <1>4 DEF CertJobs, Checking, Issuing, Installing
<1>5. jobs' \in [Certificates!Writers -> CertJobs]
  BY <1>1
<1> QED  BY <1>2, <1>3, <1>4, <1>5

\* Where nothing but a job and the issuance's bookkeeping changes.
LEMMA JobKeeps ==
    ASSUME CertInv, NEW w \in Certificates!Writers, NEW j \in CertJobs, Certificates!Goto(w, j),
           IF w = Admin THEN j \in {Certificates!Idle} \cup Installing
                        ELSE j \in {Certificates!Idle} \cup Checking \cup Issuing,
           UNCHANGED <<cert, key, source>>, pairs' \in 0 .. MaxPairs, pairs <= pairs',
           j.at \notin {"second", "reload"}, j = Certificates!Idle \/ j.new.pair <= pairs',
           settings' \in [enabled : BOOLEAN, names : NameSets], acme' \in AcmeState,
           running' \in BOOLEAN, due' \in BOOLEAN, faults' \in 0 .. MaxFaults,
           acme'.names = acme.names
    PROVE  Certificates!TypeOK' /\ Numbered' /\ CertTyped' /\ HalfWritten'
              /\ Certificates!CertificateAsRecorded'
<1>1. /\ CertTyped' /\ DOMAIN jobs' = Certificates!Writers
      /\ \A v \in Certificates!Writers : jobs'[v] = IF v = w THEN j ELSE jobs[v]
      /\ \A v \in Certificates!Writers : jobs'[v] = Certificates!Idle
            \/ jobs'[v].new \in Certificates!Cert
  BY OneJob
<1>2. Certificates!TypeOK'
  <2>1. key' \in 0 .. pairs' /\ cert'.pair <= pairs' /\ cert' \in Certificates!Cert
    BY CertAssumption DEF CertInv, Certificates!TypeOK, Certificates!Cert
  <2> QED  BY <1>1, <2>1 DEF CertInv, Certificates!TypeOK, AcmeState, Wished
<1>3. HalfWritten'
  BY <1>1 DEF CertInv, HalfWritten, Certificates!KeyFirst
<1>4. Certificates!CertificateAsRecorded'
  BY DEF CertInv, Certificates!CertificateAsRecorded
<1>5. Numbered'
  <2> SUFFICES ASSUME NEW v \in Certificates!Writers, jobs'[v] # Certificates!Idle
               PROVE jobs'[v].new.pair <= pairs'
    BY DEF Numbered
  <2>1. CASE v = w
    BY <1>1, <2>1
  <2>2. CASE v # w
    <3>1. jobs[v].new.pair <= pairs /\ jobs[v].new \in Certificates!Cert
      BY <1>1, <2>2 DEF CertInv, Certificates!TypeOK, Numbered
    <3> QED  BY <1>1, <2>2, <3>1 DEF CertInv, Certificates!TypeOK, Certificates!Cert
  <2> QED  BY <2>1, <2>2
<1> QED  BY <1>1, <1>2, <1>3, <1>4, <1>5

LEMMA CertTypes ==
    ASSUME CertInv
    PROVE  /\ settings \in [enabled : BOOLEAN, names : NameSets]
           /\ acme \in AcmeState /\ running \in BOOLEAN /\ due \in BOOLEAN
           /\ cert \in Certificates!Cert /\ key \in 0 .. pairs /\ cert.pair <= pairs /\ key \in Nat
           /\ pairs \in 0 .. MaxPairs /\ faults \in 0 .. MaxFaults
           /\ source \in {"issued", "recorded", "admin", "torn"} \cup Certificates!Writers
BY CertAssumption DEF CertInv, Certificates!TypeOK, AcmeState, Wished

LEMMA OneMore ==
    ASSUME CertInv,
           \A v \in Certificates!Writers : InIssuance(v)'
              => InIssuance(v) /\ jobs'[v].previous = jobs[v].previous,
           \A v \in Certificates!Writers : InIssuance(v)' => running' /\ acme'.names = acme.names
    PROVE  OneIssuance'
BY DEF CertInv, OneIssuance

LEMMA IssuanceEnds ==
    ASSUME CertInv, NEW w \in Certificates!Issuers, InIssuance(w), NEW j,
           ~(j.at \in {"issuing", "first", "second", "reload"}),
           \A v \in Certificates!Writers : jobs'[v] = IF v = w THEN j ELSE jobs[v]
    PROVE  OneIssuance'
<1>1. \A v \in Certificates!Writers : ~InIssuance(v)'
  BY DEF CertInv, OneIssuance, InIssuance, Certificates!Writers
<1> QED  BY <1>1 DEF OneIssuance

LEMMA StartKeeps ==
    ASSUME CertInv, NEW w \in Certificates!Issuers, NEW names \in Wished,
           Certificates!StartIssuance(w, names)
    PROVE  CertInv'
<1> DEFINE j == [at |-> "issuing", new |-> [pair |-> 0, names |-> names], previous |-> acme.names]
<1>1. /\ ~running /\ running' = TRUE /\ acme' = [acme EXCEPT !.status = "running"]
      /\ Certificates!Goto(w, j) /\ UNCHANGED <<settings, cert, key, due, pairs, source, faults>>
  BY DEF Certificates!StartIssuance, Certificates!NoneRunning
<1>2. acme' \in AcmeState /\ acme'.names = acme.names
  BY <1>1, CertTypes DEF AcmeState
<1>3. j \in Issuing /\ j \in CertJobs
  BY CertTypes
     DEF Issuing, CertJobs, Certificates!Cert, Wished, AcmeState,
         Certificates!SelfSigned
<1>4. w \in Certificates!Writers /\ w # Admin
  BY CertAssumption DEF Certificates!Writers
<1>5. pairs <= pairs
  BY CertTypes
<1>6. Certificates!TypeOK' /\ Numbered' /\ CertTyped' /\ HalfWritten'
         /\ Certificates!CertificateAsRecorded'
  <2>1. j.at \notin {"second", "reload"} /\ j.new.pair <= pairs
    BY CertTypes
  <2> HIDE DEF j
  <2> QED  BY <1>1, <1>2, <1>3, <1>4, <1>5, <2>1, CertTypes, JobKeeps
<1>7. \A v \in Certificates!Writers : jobs'[v] = IF v = w THEN j ELSE jobs[v]
  BY <1>1, <1>3, <1>4, OneJob
<1>8. \A v \in Certificates!Writers : InIssuance(v)' => v = w
  BY <1>1, <1>7 DEF CertInv, OneIssuance, InIssuance
<1>9. OneIssuance'
  BY <1>1, <1>2, <1>7, <1>8 DEF OneIssuance
<1> QED  BY <1>6, <1>9 DEF CertInv

LEMMA FailedKeeps ==
    ASSUME CertInv, NEW w \in Certificates!Issuers, InIssuance(w), Certificates!Failed(w),
           faults' \in 0 .. MaxFaults,
           UNCHANGED <<settings, cert, key, due, pairs, source>>
    PROVE  CertInv'
<1>1. running' = FALSE /\ acme' = [names |-> jobs[w].previous, status |-> "error"]
         /\ Certificates!Goto(w, Certificates!Idle)
  BY DEF Certificates!Failed, Certificates!Done
<1>2. w \in Certificates!Writers /\ w # Admin
  BY CertAssumption DEF Certificates!Writers
<1>3. acme' \in AcmeState /\ acme'.names = acme.names
  BY <1>1, <1>2, CertTypes DEF CertInv, OneIssuance, AcmeState
<1>4. Certificates!Idle \in CertJobs /\ Certificates!Idle.at = "idle" /\ pairs <= pairs
  BY CertTypes DEF CertJobs, Certificates!Idle
<1>5. Certificates!TypeOK' /\ Numbered' /\ CertTyped' /\ HalfWritten'
         /\ Certificates!CertificateAsRecorded'
  BY <1>1, <1>2, <1>3, <1>4, CertTypes, JobKeeps
<1>6. \A v \in Certificates!Writers : jobs'[v] = IF v = w THEN Certificates!Idle ELSE jobs[v]
  BY <1>1, <1>2, <1>4, OneJob
<1>7. OneIssuance'
  BY <1>4, <1>6, IssuanceEnds
<1> QED  BY <1>5, <1>7 DEF CertInv

LEMMA DoneKeeps ==
    ASSUME CertInv, NEW w \in Certificates!Writers, ~InIssuance(w), Certificates!Done(w),
           faults' \in 0 .. MaxFaults,
           UNCHANGED <<settings, acme, running, cert, key, due, pairs, source>>
    PROVE  CertInv'
<1>1. Certificates!Idle \in CertJobs /\ Certificates!Idle.at = "idle" /\ pairs <= pairs
         /\ Certificates!Goto(w, Certificates!Idle)
  BY CertTypes DEF CertJobs, Certificates!Idle, Certificates!Done
<1>2. Certificates!TypeOK' /\ Numbered' /\ CertTyped' /\ HalfWritten'
         /\ Certificates!CertificateAsRecorded'
  BY <1>1, CertTypes, JobKeeps
<1>3. \A v \in Certificates!Writers : jobs'[v] = IF v = w THEN Certificates!Idle ELSE jobs[v]
  BY <1>1, OneJob
<1>4. OneIssuance'
  BY <1>1, <1>3, OneMore DEF CertInv, OneIssuance, InIssuance
<1> QED  BY <1>2, <1>4 DEF CertInv

LEMMA WriteKeeps ==
    ASSUME CertInv, NEW w \in Certificates!Writers, Certificates!WriteFile(w)
    PROVE  CertInv'
<1> DEFINE at == jobs[w].at
           kf == Certificates!KeyFirst(w)
           next == IF at = "first" THEN "second" ELSE "reload"
           j == [jobs[w] EXCEPT !.at = next]
<1>1. at \in {"first", "second"}
  BY DEF Certificates!WriteFile, Certificates!WriteCert, Certificates!WriteKey
<1>2. jobs[w] \in IF w = Admin THEN Installing ELSE Issuing
  BY <1>1, JobFields DEF CertInv
<1>3. /\ (kf = (at = "second") => cert' = jobs[w].new /\ due' = FALSE /\ UNCHANGED key)
      /\ (kf = (at = "first") => key' = jobs[w].new.pair /\ UNCHANGED <<cert, due>>)
      /\ Certificates!Goto(w, j)
  BY <1>1, CertAssumption
     DEF Certificates!WriteFile, Certificates!WriteCert, Certificates!WriteKey,
         Certificates!Step
<1>4. UNCHANGED <<settings, acme, running, pairs, faults>>
  BY DEF Certificates!WriteFile, Certificates!WriteCert, Certificates!WriteKey
<1>5. source' = IF at = "first" THEN w
                ELSE IF source # w THEN "torn" ELSE IF w = Admin THEN "admin" ELSE "issued"
  BY DEF Certificates!WriteFile
<1>6. j \in (IF w = Admin THEN Installing ELSE Issuing) /\ j.at = next /\ j.new = jobs[w].new
  BY <1>1, <1>2 DEF Installing, Issuing
<1>a. pairs \in Nat /\ key \in 0 .. pairs /\ cert \in Certificates!Cert /\ cert.pair <= pairs
         /\ cert.pair \in Nat
  BY CertTypes, CertAssumption DEF Certificates!Cert
<1>b. jobs[w].new \in Certificates!Cert /\ jobs[w].new.pair \in 0 .. pairs
         /\ jobs[w] # Certificates!Idle
  <2>1. jobs[w].new \in Certificates!Cert /\ jobs[w] # Certificates!Idle
    BY <1>1, JobFields DEF CertInv
  <2> QED  BY <1>a, <2>1 DEF CertInv, Numbered, Certificates!Cert
<1>7. next \in {"second", "reload"} /\ kf \in BOOLEAN
  BY DEF Certificates!KeyFirst
<1>8. j \in CertJobs /\ (IF w = Admin THEN j \in {Certificates!Idle} \cup Installing
                     ELSE j \in {Certificates!Idle} \cup Checking \cup Issuing)
  BY <1>6 DEF CertJobs
<1>c. w = Admin => j.how = jobs[w].how
  BY <1>2 DEF Installing
<1>d. w \in Certificates!Issuers => j.previous = jobs[w].previous
  BY <1>2, CertAssumption DEF Issuing
<1>e. /\ (next = "second" <=> at = "first") /\ (next = "reload" <=> at = "second")
  BY <1>1
<1>f. (at = "second" /\ source = w) => IF kf THEN key = jobs[w].new.pair ELSE cert = jobs[w].new
  BY DEF CertInv, HalfWritten
<1>g. kf => w = Admin
  BY DEF Certificates!KeyFirst
<1> HIDE DEF j, kf, at, next
<1>9. /\ CertTyped' /\ DOMAIN jobs' = Certificates!Writers
      /\ \A v \in Certificates!Writers : jobs'[v] = IF v = w THEN j ELSE jobs[v]
      /\ \A v \in Certificates!Writers : jobs'[v] = Certificates!Idle
            \/ jobs'[v].new \in Certificates!Cert
  BY <1>3, <1>8, OneJob
<1>10. cert' \in Certificates!Cert /\ cert'.pair <= pairs /\ key' \in 0 .. pairs /\ due' \in BOOLEAN
  <2>1. pairs' = pairs
    BY <1>4
  <2>2. \/ cert' = jobs[w].new /\ due' = FALSE /\ key' = key
        \/ key' = jobs[w].new.pair /\ cert' = cert /\ due' = due
    BY <1>1, <1>3, <1>7
  <2>3. due \in BOOLEAN
    BY CertTypes
  <2>4. jobs[w].new.pair <= pairs
    BY <1>a, <1>b
  <2>5. CASE cert' = jobs[w].new /\ due' = FALSE /\ key' = key
    BY <1>a, <1>b, <2>4, <2>5
  <2>6. CASE key' = jobs[w].new.pair /\ cert' = cert /\ due' = due
    BY <1>a, <1>b, <2>3, <2>6
  <2> QED  BY <2>2, <2>5, <2>6
<1>11. source' \in {"issued", "recorded", "admin", "torn"} \cup Certificates!Writers
  BY <1>5
<1>12. Certificates!TypeOK'
  BY <1>4, <1>9, <1>10, <1>11 DEF CertInv, Certificates!TypeOK
<1>13. Numbered'
  BY <1>4, <1>6, <1>9, <1>b DEF CertInv, Numbered
<1>14. OneIssuance'
  <2>1. ASSUME NEW v \in Certificates!Writers, InIssuance(v)'
        PROVE  InIssuance(v) /\ jobs'[v].previous = jobs[v].previous
    <3>1. CASE v = w
      BY <1>1, <1>9, <1>d, <2>1, <3>1 DEF InIssuance, at
    <3>2. CASE v # w
      BY <1>9, <2>1, <3>2 DEF InIssuance
    <3> QED  BY <3>1, <3>2
  <2>2. \A v \in Certificates!Writers : InIssuance(v)' => running' /\ acme'.names = acme.names
    BY <1>4, <2>1 DEF CertInv, OneIssuance
  <2> QED  BY <2>1, <2>2, OneMore
<1>15. CASE at = "first"
  <2>1. source' = w
    BY <1>5, <1>15
  <2>2. Certificates!CertificateAsRecorded'
    BY <2>1, CertAssumption DEF Certificates!CertificateAsRecorded
  <2>3. HalfWritten'
    <3> SUFFICES ASSUME NEW v \in Certificates!Writers, source' = v, jobs'[v].at = "second"
                 PROVE  IF Certificates!KeyFirst(v)' THEN key' = jobs'[v].new.pair
                           ELSE cert' = jobs'[v].new
      BY <2>1, CertAssumption DEF HalfWritten
    <3>1. v = w
      BY <2>1
    <3>2. Certificates!KeyFirst(w)' = kf
      BY <1>9, <1>c DEF Certificates!KeyFirst, kf
    <3>3. kf => key' = jobs[w].new.pair
      BY <1>3, <1>7, <1>15
    <3>4. ~kf => cert' = jobs[w].new
      BY <1>3, <1>7, <1>15
    <3> QED  BY <1>6, <1>9, <3>1, <3>2, <3>3, <3>4
  <2> QED  BY <1>9, <1>12, <1>13, <1>14, <2>2, <2>3 DEF CertInv
<1>16. CASE at = "second"
  <2>1. CASE source # w
    <3>1. source' = "torn"
      BY <1>5, <1>16, <2>1
    <3>2. Certificates!CertificateAsRecorded' /\ HalfWritten'
      BY <3>1, CertAssumption DEF Certificates!CertificateAsRecorded, HalfWritten
    <3> QED  BY <1>9, <1>12, <1>13, <1>14, <3>2 DEF CertInv
  <2>2. CASE source = w
    <3>1. source' = IF w = Admin THEN "admin" ELSE "issued"
      BY <1>5, <1>16, <2>2
    <3>2. kf => key' = jobs[w].new.pair /\ cert' = jobs[w].new
      BY <1>3, <1>16, <1>f, <2>2
    <3>3. ~kf => key' = jobs[w].new.pair /\ cert' = jobs[w].new
      BY <1>3, <1>7, <1>16, <1>f, <2>2
    <3>4. key' = cert'.pair /\ cert' = jobs[w].new
      BY <1>7, <3>2, <3>3
    <3>5. Certificates!CertificateAsRecorded'
      BY <3>1, <3>4 DEF Certificates!CertificateAsRecorded
    <3>6. HalfWritten'
      <4> SUFFICES ASSUME NEW v \in Certificates!Writers, v # Admin, source' = "issued",
                          jobs'[v].at = "reload"
                   PROVE  cert' = jobs'[v].new
        BY <3>1, CertAssumption DEF HalfWritten
      <4>1. w \in Certificates!Issuers /\ InIssuance(w) /\ v \in Certificates!Issuers
        BY <1>1, <3>1 DEF InIssuance, Certificates!Writers, at
      <4>2. v = w
        <5>1. v # w => InIssuance(v)
          BY <1>9, <4>1 DEF InIssuance
        <5> QED  BY <4>1, <5>1 DEF CertInv, OneIssuance
      <4> QED  BY <1>6, <1>9, <3>4, <4>2
    <3> QED  BY <1>9, <1>12, <1>13, <1>14, <3>5, <3>6 DEF CertInv
  <2> QED  BY <2>1, <2>2
<1> QED  BY <1>1, <1>15, <1>16

LEMMA FinishKeeps ==
    ASSUME CertInv, NEW w \in Certificates!Writers, Certificates!Finish(w)
    PROVE  CertInv'
<1>1. jobs[w].at = "reload" /\ Certificates!Goto(w, Certificates!Idle)
         /\ UNCHANGED <<settings, cert, key, due, pairs, faults>>
  BY DEF Certificates!Finish, Certificates!Done
<1>2. Certificates!Idle \in CertJobs /\ Certificates!Idle.at = "idle"
  BY DEF CertJobs, Certificates!Idle
<1>3. /\ CertTyped' /\ DOMAIN jobs' = Certificates!Writers
      /\ \A v \in Certificates!Writers : jobs'[v] = IF v = w THEN Certificates!Idle ELSE jobs[v]
      /\ \A v \in Certificates!Writers : jobs'[v] = Certificates!Idle
            \/ jobs'[v].new \in Certificates!Cert
  BY <1>1, <1>2, OneJob
<1>4. Numbered'
  BY <1>1, <1>3 DEF CertInv, Numbered
<1>5. CASE w = Admin
  <2>1. UNCHANGED <<acme, running, source>>
    BY <1>5 DEF Certificates!Finish
  <2>2. Certificates!TypeOK'
    BY <1>1, <1>3, <2>1 DEF CertInv, Certificates!TypeOK
  <2>3. OneIssuance'
    BY <1>2, <1>3, <2>1, OneMore DEF CertInv, OneIssuance, InIssuance
  <2>4. HalfWritten' /\ Certificates!CertificateAsRecorded'
    BY <1>1, <1>2, <1>3, <2>1
       DEF CertInv, HalfWritten, Certificates!CertificateAsRecorded,
           Certificates!KeyFirst
  <2> QED  BY <1>3, <1>4, <2>2, <2>3, <2>4 DEF CertInv
<1>6. CASE w # Admin
  <2>1. /\ running' = FALSE /\ acme' = [names |-> jobs[w].new.names, status |-> "ok"]
        /\ source' = IF source = "issued" THEN "recorded" ELSE source
    BY <1>6 DEF Certificates!Finish, Certificates!RecordIssued
  <2>2. jobs[w] \in Issuing /\ w \in Certificates!Issuers /\ InIssuance(w)
    BY <1>1, <1>6, JobFields DEF CertInv, Certificates!Writers, InIssuance
  <2>3. acme' \in AcmeState
    BY <2>1, <2>2
       DEF AcmeState, Issuing, Certificates!Cert, Wished, Certificates!SelfSigned
  <2>4. source' \in {"issued", "recorded", "admin", "torn"} \cup Certificates!Writers
    BY <2>1, CertTypes
  <2>5. Certificates!TypeOK'
    BY <1>1, <1>3, <2>1, <2>3, <2>4 DEF CertInv, Certificates!TypeOK, AcmeState, Wished
  <2>6. OneIssuance'
    BY <1>2, <1>3, <2>2, IssuanceEnds
  <2>7. \A v \in Certificates!Writers : v # Admin /\ jobs[v].at = "reload" => v = w
    BY <2>2 DEF CertInv, OneIssuance, InIssuance, Certificates!Writers
  <2>8. source' # "issued" /\ (source' = "recorded" => source \in {"issued", "recorded"})
    BY <2>1
  <2>9. HalfWritten'
    <3>0. \A v \in Certificates!Writers : v # Admin => jobs'[v].at \notin {"second", "reload"}
      BY <1>2, <1>3, <2>2 DEF CertInv, OneIssuance, InIssuance, Certificates!Writers
    <3> SUFFICES ASSUME NEW v \in Certificates!Writers, source' = v, jobs'[v].at = "second"
                 PROVE  IF Certificates!KeyFirst(v)' THEN key' = jobs'[v].new.pair
                           ELSE cert' = jobs'[v].new
      BY <2>8, <3>0 DEF HalfWritten
    <3>1. v # w /\ source = v
      BY <1>2, <1>3, <2>1, CertAssumption
    <3> QED  BY <1>1, <1>3, <3>1 DEF CertInv, HalfWritten, Certificates!KeyFirst
  <2>10. Certificates!CertificateAsRecorded'
    <3>1. source' = "recorded" /\ source = "issued" => acme'.names = cert'.names
      BY <1>1, <1>6, <2>1 DEF CertInv, HalfWritten
    <3>2. source # "recorded"
      BY <1>1, <1>6 DEF CertInv, HalfWritten
    <3> QED  BY <1>1, <2>1, <2>8, <3>1, <3>2
                DEF CertInv, Certificates!CertificateAsRecorded
  <2> QED  BY <1>3, <1>4, <2>5, <2>6, <2>9, <2>10 DEF CertInv
<1> QED  BY <1>5, <1>6

LEMMA CertStep == ASSUME CertInv, [Certificates!Next]_certVars PROVE CertInv'
<1>0. /\ settings \in [enabled : BOOLEAN, names : NameSets] /\ acme \in AcmeState
      /\ running \in BOOLEAN /\ due \in BOOLEAN /\ faults \in 0 .. MaxFaults
      /\ pairs \in 0 .. MaxPairs /\ pairs \in Nat /\ pairs <= pairs
  BY CertTypes
<1>w. /\ Daily \in Certificates!Writers /\ Daily # Admin /\ Daily \in Certificates!Issuers
      /\ Asked \in Certificates!Writers /\ Asked # Admin /\ Asked \in Certificates!Issuers
      /\ Admin \in Certificates!Writers /\ Certificates!Issuers \subseteq Certificates!Writers
  BY CertAssumption DEF Certificates!Writers, Certificates!Issuers
<1>f. Certificates!Fault => faults' \in 0 .. MaxFaults
  BY <1>0, CertAssumption DEF Certificates!Fault
<1>1. CASE Certificates!BeginCheck
  <2> DEFINE j == [at |-> "checking", new |-> [pair |-> 0, names |-> settings.names]]
  <2>1. /\ Certificates!Goto(Daily, j) /\ jobs[Daily] = Certificates!Idle
        /\ UNCHANGED <<settings, acme, running, cert, key, due, pairs, source, faults>>
    BY <1>1 DEF Certificates!BeginCheck
  <2>2. j \in Checking /\ j \in CertJobs /\ j.at = "checking" /\ j.new.pair <= pairs
    BY <1>0 DEF Checking, Certificates!Cert, CertJobs
  <2> HIDE DEF j
  <2>3. Certificates!TypeOK' /\ Numbered' /\ CertTyped' /\ HalfWritten'
           /\ Certificates!CertificateAsRecorded'
    BY <1>0, <1>w, <2>1, <2>2, JobKeeps
  <2>4. \A v \in Certificates!Writers : jobs'[v] = IF v = Daily THEN j ELSE jobs[v]
    BY <1>w, <2>1, <2>2, OneJob
  <2>5. OneIssuance'
    BY <2>1, <2>2, <2>4, OneMore DEF CertInv, OneIssuance, InIssuance
  <2> QED  BY <2>3, <2>5 DEF CertInv
<1>2. CASE Certificates!Renew
  <2>1. jobs[Daily] \in Checking
    BY <1>2, <1>w, JobFields DEF CertInv, Certificates!Renew
  <2>2. jobs[Daily].new.names \in Wished
    BY <2>1 DEF Checking, Certificates!Cert, Wished, Certificates!SelfSigned
  <2> QED  BY <1>2, <1>w, <2>2, StartKeeps DEF Certificates!Renew
<1>3. CASE Certificates!Leave
  BY <1>0, <1>3, <1>w, DoneKeeps DEF Certificates!Leave, InIssuance
<1>4. CASE Certificates!Request
  BY <1>0, <1>4, <1>w, StartKeeps DEF Certificates!Request, Wished
<1>5. ASSUME NEW w \in Certificates!Issuers, Certificates!Issued(w) PROVE CertInv'
  <2> DEFINE j == [at |-> "first", new |-> [pair |-> pairs + 1, names |-> jobs[w].new.names],
                  previous |-> jobs[w].previous]
  <2>0. w \in Certificates!Writers /\ w # Admin
    BY <1>w, CertAssumption
  <2>1. /\ Certificates!Goto(w, j) /\ jobs[w].at = "issuing" /\ pairs' = pairs + 1
              /\ pairs < MaxPairs
        /\ UNCHANGED <<settings, acme, running, cert, key, due, source, faults>>
    BY <1>5 DEF Certificates!Issued
  <2>2. jobs[w] \in Issuing
    BY <2>0, <2>1, JobFields DEF CertInv
  <2>4. j \in Issuing /\ j \in CertJobs /\ j.at = "first" /\ j.new.pair <= pairs'
        /\ j.previous = jobs[w].previous
    BY <1>0, <2>1, <2>2 DEF Issuing, Certificates!Cert, CertJobs
  <2>5. pairs' \in 0 .. MaxPairs /\ pairs <= pairs'
    BY <1>0, <2>1, CertAssumption
  <2> HIDE DEF j
  <2>6. Certificates!TypeOK' /\ Numbered' /\ CertTyped' /\ HalfWritten'
           /\ Certificates!CertificateAsRecorded'
    BY <1>0, <2>0, <2>1, <2>4, <2>5, JobKeeps
  <2>7. \A v \in Certificates!Writers : jobs'[v] = IF v = w THEN j ELSE jobs[v]
    BY <2>0, <2>1, <2>4, OneJob
  <2>8. OneIssuance'
    BY <2>1, <2>4, <2>7, OneMore DEF CertInv, OneIssuance, InIssuance
  <2> QED  BY <2>6, <2>8 DEF CertInv
<1>6. ASSUME NEW w \in Certificates!Issuers, Certificates!Refused(w) PROVE CertInv'
  BY <1>0, <1>6, FailedKeeps DEF Certificates!Refused, InIssuance
<1>7. CASE \E names \in NameSets \cup {Certificates!SelfSigned},
              how \in {"own", "self"} : Certificates!Replace(how, names)
  <2>0. PICK names \in NameSets \cup {Certificates!SelfSigned},
                how \in {"own", "self"} : Certificates!Replace(how, names)
    BY <1>7
  <2> DEFINE j == [at |-> "first", new |-> [pair |-> pairs + 1, names |-> names], how |-> how]
  <2>1. /\ Certificates!Goto(Admin, j) /\ jobs[Admin] = Certificates!Idle /\ pairs' = pairs + 1
              /\ pairs < MaxPairs
        /\ UNCHANGED <<settings, acme, running, cert, key, due, source, faults>>
    BY <2>0 DEF Certificates!Replace
  <2>2. j \in Installing /\ j \in CertJobs /\ j.at = "first" /\ j.new.pair <= pairs'
    BY <1>0, <2>1 DEF Installing, Certificates!Cert, CertJobs
  <2>3. pairs' \in 0 .. MaxPairs /\ pairs <= pairs'
    BY <1>0, <2>1, CertAssumption
  <2> HIDE DEF j
  <2>4. Certificates!TypeOK' /\ Numbered' /\ CertTyped' /\ HalfWritten'
           /\ Certificates!CertificateAsRecorded'
    BY <1>0, <1>w, <2>1, <2>2, <2>3, JobKeeps
  <2>5. \A v \in Certificates!Writers : jobs'[v] = IF v = Admin THEN j ELSE jobs[v]
    BY <1>w, <2>1, <2>2, OneJob
  <2>6. OneIssuance'
    <3>1. \A v \in Certificates!Writers : InIssuance(v)' => v # Admin
      BY CertAssumption DEF InIssuance
    <3> QED  BY <2>1, <2>5, <3>1, OneMore DEF CertInv, OneIssuance, InIssuance
  <2> QED  BY <2>4, <2>6 DEF CertInv
<1>8. ASSUME NEW w \in Certificates!Writers, Certificates!WriteFails(w) PROVE CertInv'
  <2>1. CASE w = Admin
    BY <1>8, <1>f, <2>1, DoneKeeps, CertAssumption
       DEF Certificates!WriteFails, InIssuance
  <2>2. CASE w # Admin
    BY <1>8, <1>f, <2>2, FailedKeeps
       DEF Certificates!WriteFails, InIssuance, Certificates!Writers
  <2> QED  BY <2>1, <2>2
<1>9. CASE Certificates!Expire
  BY <1>9
     DEF Certificates!Expire, CertInv, Certificates!TypeOK, Numbered, CertTyped,
         OneIssuance, HalfWritten, Certificates!CertificateAsRecorded,
         Certificates!KeyFirst, InIssuance
<1>10. CASE Certificates!Restart
  <2>1. /\ jobs' = [w \in Certificates!Writers |-> Certificates!Idle] /\ running' = FALSE
        /\ UNCHANGED <<settings, acme, cert, key, due, pairs, source>>
    BY <1>10 DEF Certificates!Restart
  <2>2. \A w \in Certificates!Writers : jobs'[w] = Certificates!Idle /\ jobs'[w].at = "idle"
    BY <2>1 DEF Certificates!Idle
  <2>3. Certificates!TypeOK' /\ Numbered'
    BY <1>10, <1>f, <2>1, <2>2
       DEF Certificates!Restart, CertInv, Certificates!TypeOK, Numbered
  <2>4. CertTyped'
    BY <2>1, <2>2 DEF CertTyped, CertJobs
  <2>5. OneIssuance' /\ HalfWritten'
    BY <2>2 DEF OneIssuance, HalfWritten, InIssuance
  <2> QED  BY <2>1, <2>3, <2>4, <2>5 DEF CertInv, Certificates!CertificateAsRecorded
<1>11. ASSUME NEW enabled \in BOOLEAN, NEW names \in NameSets, Certificates!PutAcme(enabled, names)
       PROVE CertInv'
  BY <1>11
     DEF Certificates!PutAcme, CertInv, Certificates!TypeOK, Numbered, CertTyped,
         OneIssuance, HalfWritten, Certificates!CertificateAsRecorded,
         Certificates!KeyFirst, InIssuance
<1>12. CASE UNCHANGED certVars
  BY <1>12
     DEF certVars, CertInv, Certificates!TypeOK, Numbered, CertTyped, OneIssuance,
         HalfWritten, Certificates!CertificateAsRecorded, Certificates!KeyFirst,
         InIssuance
<1>13. CASE Certificates!Next
  BY <1>1, <1>2, <1>3, <1>4, <1>5, <1>6, <1>7, <1>8, <1>9, <1>10, <1>11, <1>13,
     WriteKeeps, FinishKeeps
     DEF Certificates!Next
<1> QED  BY <1>12, <1>13

\* acme-manager, ssl: however an issuance and an installation interleave and fail, a pair
\* nobody tore is a certificate and its own key, and the names on record are those of
\* the issued certificate in use, which is all the daily check compares.
THEOREM CertificateIsWhole == PartsSpec => []CertificateAsRecorded
<1>1. CertInv => CertificateAsRecorded
  BY DEF CertInv, CertificateAsRecorded
<1>2. PartsInit => CertInv
  BY CertStarts DEF PartsInit
<1>3. CertInv /\ [PartsNext]_partsVars => CertInv'
  BY CertStep, PartSteps
<1> QED  BY <1>1, <1>2, <1>3, PTL DEF PartsSpec

-----------------------------------------------------------------------------
(* Live *)

\* What a socket may still bring: one that is gone has no listener, and a start only
\* waits if the facts were not known when it began.
HasAsked(s) ==
    /\ (served[s] = "none" => starting[s] = 0 /\ unsubscribe[s] = FALSE)
    /\ (link[s] = "connecting" => served[s] # "down")
    /\ (s \in subscribes => served[s] = "up" /\ link[s] # "connecting")
    /\ (starting[s] > 0 => hasty)
    /\ (~known /\ served[s] # "none" => hasty)

\* Those who are mounted hold what is counted.
LiveInv ==
    Live!TypeOK /\ refCount <= mounts /\ (\A s \in Sockets : HasAsked(s))
       /\ Live!ListenersAreConnections

LEMMA LiveTypes ==
    ASSUME LiveInv
    PROVE  /\ refCount \in 0 .. MaxMounts /\ socket \in Sockets \cup {None} /\ connected \in BOOLEAN
           /\ link \in [Sockets -> {"free", "connecting", "open", "closing"}] /\ timers \in Nat
           /\ served \in [Sockets -> {"none", "up", "down"}]
           /\ starting \in [Sockets -> Nat] /\ leaked \in Nat
           /\ unsubscribe \in [Sockets -> BOOLEAN] /\ known \in BOOLEAN /\ streaming \in BOOLEAN
           /\ hasty \in BOOLEAN /\ subscribes \subseteq Sockets
           /\ mounts \in 0 .. MaxMounts /\ drops \in 0 .. MaxDrops /\ refCount <= mounts
BY DEF LiveInv, Live!TypeOK

LEMMA OpenKeeps ==
    ASSUME LiveInv, Live!Open \/ UNCHANGED <<socket, link, served>>,
           refCount' \in 0 .. MaxMounts, mounts' \in 0 .. MaxMounts, refCount' <= mounts',
           timers' \in Nat, UNCHANGED <<connected, Live!loopVars, hasty, subscribes, drops>>
    PROVE  LiveInv'
<1>1. CASE Live!Open
  <2> DEFINE s == Live!Lowest
  <2>1. s \in Live!Free
    <3>1. Live!Free \subseteq Nat /\ Live!Free # {}
      BY <1>1, PartsAssumption DEF Live!Open, Live!Free
    <3>2. \E x \in Live!Free : \A y \in Live!Free : x <= y
      BY <3>1, LeastNatural
    <3> QED  BY <3>2 DEF Live!Lowest
  <2>2. s \in Sockets /\ link[s] = "free" /\ served[s] # "up" /\ starting[s] = 0
    BY <2>1 DEF Live!Free
  <2>3. /\ socket' = s /\ link' = [link EXCEPT ![s] = "connecting"]
        /\ served' = [served EXCEPT ![s] = "none"]
    BY <1>1 DEF Live!Open
  <2> HIDE DEF s
  <2>4. \A t \in Sockets : /\ link'[t] = IF t = s THEN "connecting" ELSE link[t]
                           /\ served'[t] = IF t = s THEN "none" ELSE served[t]
    BY <2>3, LiveTypes
  <2>5. Live!TypeOK'
    BY <2>2, <2>3, LiveTypes DEF Live!TypeOK, Live!loopVars
  <2>6. s \notin subscribes /\ unsubscribe[s] = FALSE
    BY <2>2, LiveTypes DEF LiveInv, HasAsked, Live!ListenersAreConnections
  <2>7. Live!ListenersAreConnections'
    BY <2>4, <2>6 DEF LiveInv, Live!ListenersAreConnections, Live!loopVars
  <2>8. ASSUME NEW t \in Sockets PROVE HasAsked(t)'
    BY <2>2, <2>4, <2>6 DEF LiveInv, HasAsked, Live!loopVars
  <2> QED  BY <2>5, <2>7, <2>8 DEF LiveInv
<1>2. CASE UNCHANGED <<socket, link, served>>
  BY <1>2
     DEF LiveInv, Live!TypeOK, HasAsked, Live!ListenersAreConnections, Live!loopVars
<1> QED  BY <1>1, <1>2

\* A step of the tab that no listener notices: one end of one connection moves on.
LEMMA TabKeeps ==
    ASSUME LiveInv, NEW s \in Sockets, NEW to \in {"free", "open", "closing"},
           link' = link \/ link' = [link EXCEPT ![s] = to],
           refCount' \in 0 .. MaxMounts, refCount' <= mounts, socket' \in Sockets \cup {None},
           connected' \in BOOLEAN, timers' \in Nat, drops' \in 0 .. MaxDrops,
           subscribes' = subscribes
           \/ (link[s] = "connecting" /\ served[s] = "up" /\ subscribes' = subscribes \cup {s}
                 /\ link'[s] = "open"),
           UNCHANGED <<served, Live!loopVars, hasty, mounts>>
    PROVE  LiveInv'
<1>1. \A t \in Sockets : link'[t] = link[t] \/ (t = s /\ link'[t] = to)
  BY LiveTypes
<1>2. Live!TypeOK'
  BY LiveTypes DEF Live!TypeOK, Live!loopVars
<1>3. ASSUME NEW t \in Sockets PROVE HasAsked(t)'
  BY <1>1 DEF LiveInv, HasAsked, Live!loopVars
<1>4. Live!ListenersAreConnections'
  BY DEF LiveInv, Live!ListenersAreConnections, Live!loopVars
<1> QED  BY <1>2, <1>3, <1>4 DEF LiveInv, Live!loopVars

\* The loop's bookkeeping after a listener was added late.
LEMMA HelloKeeps ==
    ASSUME LiveInv, NEW s \in Sockets, Live!HelloSent(s), hasty, served[s] \in {"up", "down"}
    PROVE  /\ Live!ListenersAreConnections' /\ streaming' \in BOOLEAN /\ leaked' \in Nat
           /\ unsubscribe' \in [Sockets -> BOOLEAN]
           /\ \A t \in Sockets \ {s} : unsubscribe'[t] = unsubscribe[t]
<1>1. /\ unsubscribe' = [unsubscribe EXCEPT ![s] = served[s] # "down"] /\ streaming' = TRUE
      /\ leaked' = IF unsubscribe[s] \/ served[s] = "down" THEN leaked + 1 ELSE leaked
      /\ served' = served /\ hasty' = hasty
  BY DEF Live!HelloSent
<1>2. leaked' \in Nat /\ leaked \in Nat /\ (unsubscribe[s] \/ served[s] = "down" => leaked' > 0)
  BY <1>1, LiveTypes
<1>3. /\ unsubscribe' \in [Sockets -> BOOLEAN]
      /\ \A t \in Sockets \ {s} : unsubscribe'[t] = unsubscribe[t]
      /\ unsubscribe'[s] = (served[s] # "down")
  BY <1>1, LiveTypes
<1>4. leaked' > 0 \/ \E t \in Sockets : unsubscribe'[t]
  BY <1>2, <1>3
<1>5. \A t \in Sockets : unsubscribe'[t] => served'[t] = "up"
  BY <1>1, <1>3 DEF LiveInv, Live!ListenersAreConnections
<1> QED  BY <1>1, <1>2, <1>3, <1>4, <1>5 DEF Live!ListenersAreConnections

\* And after a chunk was handled: a listener that cannot be removed is one of
\* several, and the loop stops with the last.
LEMMA HearKeeps ==
    ASSUME LiveInv, NEW s \in Sockets, NEW gone \in BOOLEAN, NEW n \in Nat, Live!Hear(s, gone, n),
           served'[s] = "up" \/ (gone /\ n = 0),
           \A t \in Sockets \ {s} : served'[t] = served[t],
           hasty => hasty', n > 1 => hasty'
    PROVE  /\ Live!ListenersAreConnections' /\ streaming' \in BOOLEAN /\ leaked' \in Nat
           /\ unsubscribe' \in [Sockets -> BOOLEAN] /\ starting' \in [Sockets -> Nat]
           /\ \A t \in Sockets \ {s} : unsubscribe'[t] = unsubscribe[t]
                 /\ starting'[t] = starting[t]
           /\ starting'[s] = starting[s] \/ ~known
           /\ gone /\ n = 0 => starting'[s] = starting[s] /\ unsubscribe'[s] = FALSE
<1> DEFINE wanted == Live!GoesOn(s, gone, n)
           holds == unsubscribe[s] /\ ~gone
           added == IF known THEN wanted ELSE 0
<1>1. /\ starting' = IF known THEN starting ELSE [starting EXCEPT ![s] = @ + wanted]
      /\ unsubscribe' = [unsubscribe EXCEPT ![s] = holds \/ added > 0]
      /\ leaked' = IF added = 0 THEN leaked
                   ELSE IF holds THEN leaked + added ELSE leaked + added - 1
      /\ streaming' = IF added > 0 THEN TRUE
                      ELSE IF unsubscribe[s] /\ gone
                           THEN leaked > 0 \/ \E t \in Sockets : unsubscribe'[t]
                           ELSE streaming
  BY DEF Live!Hear
<1>2. /\ wanted \in Nat /\ wanted <= n /\ (holds => wanted = 0)
      /\ added \in Nat /\ added <= n /\ (holds => added = 0) /\ (n = 0 => added = 0 /\ wanted = 0)
  BY DEF Live!GoesOn
<1>3. leaked \in Nat /\ (~hasty => leaked = 0) /\ (\A t \in Sockets : unsubscribe[t] => served[t] = "up")
      /\ (streaming = (leaked > 0 \/ \E t \in Sockets : unsubscribe[t]))
  BY LiveTypes DEF LiveInv, Live!ListenersAreConnections
<1>4. holds \in BOOLEAN /\ (gone => ~holds)
  BY LiveTypes
<1> HIDE DEF wanted, added, holds
<1>5. leaked' \in Nat /\ (~hasty' => leaked' = 0) /\ (added = 0 => leaked' = leaked)
  BY <1>1, <1>2, <1>3
<1>6. /\ unsubscribe' \in [Sockets -> BOOLEAN]
      /\ \A t \in Sockets \ {s} : unsubscribe'[t] = unsubscribe[t]
      /\ unsubscribe'[s] = (holds \/ added > 0)
  BY <1>1, <1>4, LiveTypes
<1>7. /\ starting' \in [Sockets -> Nat]
      /\ \A t \in Sockets \ {s} : starting'[t] = starting[t]
      /\ starting'[s] = starting[s] \/ ~known
      /\ n = 0 => starting'[s] = starting[s]
  BY <1>1, <1>2, LiveTypes
<1>8. \A t \in Sockets : unsubscribe'[t] => served'[t] = "up"
  BY <1>2, <1>3, <1>4, <1>6
<1>9. streaming' = (leaked' > 0 \/ \E t \in Sockets : unsubscribe'[t])
  <2>1. CASE added > 0
    BY <1>1, <1>6, <2>1
  <2>2. CASE added = 0 /\ unsubscribe[s] /\ gone
    BY <1>1, <1>5, <2>2
  <2>3. CASE added = 0 /\ ~(unsubscribe[s] /\ gone)
    <3>1. unsubscribe'[s] = unsubscribe[s]
      BY <1>6, <2>3, LiveTypes DEF holds
    <3>2. \A t \in Sockets : unsubscribe'[t] = unsubscribe[t]
      BY <1>6, <3>1
    <3>3. streaming' = streaming /\ leaked' = leaked
      BY <1>1, <1>5, <2>3
    <3> QED  BY <1>3, <3>2, <3>3
  <2> QED  BY <1>2, <2>1, <2>2, <2>3
<1>10. streaming' \in BOOLEAN
  BY <1>9
<1>11. Live!ListenersAreConnections'
  BY <1>5, <1>8, <1>9 DEF Live!ListenersAreConnections
<1> QED  BY <1>2, <1>4, <1>5, <1>6, <1>7, <1>10, <1>11

LEMMA LiveStep == ASSUME LiveInv, [Live!Next]_liveVars PROVE LiveInv'
<1>n. 0 \in Nat /\ 1 \in Nat /\ ~(0 > 1) /\ ~(1 > 1) /\ FALSE \in BOOLEAN /\ TRUE \in BOOLEAN
  OBVIOUS
<1>f. Live!Fault => drops' \in 0 .. MaxDrops
  BY LiveTypes, PartsAssumption DEF Live!Fault
<1>1. CASE Live!Connect
  <2>1. /\ refCount' \in 0 .. MaxMounts /\ mounts' \in 0 .. MaxMounts /\ refCount' <= mounts'
    BY <1>1, LiveTypes, PartsAssumption DEF Live!Connect
  <2> QED  BY <1>1, <2>1, LiveTypes, OpenKeeps DEF Live!Connect
<1>2. CASE Live!Reconnect
  <2>1. timers' \in Nat
    BY <1>2, LiveTypes DEF Live!Reconnect
  <2> QED  BY <1>2, <2>1, LiveTypes, OpenKeeps DEF Live!Reconnect
<1>3. CASE Live!Disconnect
  <2>1. refCount' \in 0 .. MaxMounts /\ refCount' <= mounts
    BY <1>3, LiveTypes, PartsAssumption DEF Live!Disconnect
  <2>2. CASE socket \in Sockets
    <3>1. /\ link' = link \/ link' = [link EXCEPT ![socket] = "closing"]
          /\ socket' \in Sockets \cup {None} /\ connected' \in BOOLEAN
          /\ UNCHANGED <<timers, served, Live!loopVars, hasty, subscribes, mounts, drops>>
      BY <1>3, LiveTypes DEF Live!Disconnect
    <3> QED  BY <2>1, <2>2, <3>1, LiveTypes, TabKeeps
  <2>3. CASE socket \notin Sockets
    <3>1. /\ link' = link /\ socket' \in Sockets \cup {None} /\ connected' \in BOOLEAN
          /\ UNCHANGED <<timers, served, Live!loopVars, hasty, subscribes, mounts, drops>>
      BY <1>3, <2>3, LiveTypes DEF Live!Disconnect
    <3> QED  BY <2>1, <3>1, LiveTypes
                DEF LiveInv, Live!TypeOK, HasAsked, Live!ListenersAreConnections,
                    Live!loopVars
  <2> QED  BY <2>2, <2>3
<1>4. ASSUME NEW s \in Sockets, Live!Opened(s) PROVE LiveInv'
  <2>1. link'[s] = "open"
    BY <1>4, LiveTypes DEF Live!Opened
  <2> QED  BY <1>4, <2>1, LiveTypes, TabKeeps DEF Live!Opened
<1>5. ASSUME NEW s \in Sockets, Live!Closed(s) PROVE LiveInv'
  <2>1. timers' \in Nat
    BY <1>5, LiveTypes DEF Live!Closed
  <2> QED  BY <1>5, <2>1, LiveTypes, TabKeeps DEF Live!Closed
<1>6. ASSUME NEW s \in Sockets, Live!Drop(s) PROVE LiveInv'
  BY <1>6, <1>f, LiveTypes, TabKeeps DEF Live!Drop, Live!tabVars
<1>7. ASSUME NEW s \in Sockets, Live!Accept(s) PROVE LiveInv'
  <2>1. /\ link[s] = "connecting" /\ served[s] = "none" /\ served' = [served EXCEPT ![s] = "up"]
        /\ (hasty => hasty') /\ (~known => hasty') /\ hasty' \in BOOLEAN /\ Live!Hear(s, FALSE, 1)
        /\ UNCHANGED <<refCount, socket, connected, timers, link, known, subscribes, mounts, drops>>
    BY <1>7, LiveTypes DEF Live!Accept, Live!tabVars
  <2>2. starting[s] = 0 /\ s \notin subscribes
    BY <2>1, LiveTypes DEF LiveInv, HasAsked
  <2>3. served' \in [Sockets -> {"none", "up", "down"}] /\ served'[s] = "up"
        /\ \A t \in Sockets \ {s} : served'[t] = served[t]
    BY <2>1, LiveTypes
  <2>4. /\ Live!ListenersAreConnections' /\ streaming' \in BOOLEAN /\ leaked' \in Nat
        /\ unsubscribe' \in [Sockets -> BOOLEAN] /\ starting' \in [Sockets -> Nat]
        /\ \A t \in Sockets \ {s} : unsubscribe'[t] = unsubscribe[t] /\ starting'[t] = starting[t]
        /\ starting'[s] = starting[s] \/ ~known
    BY <1>n, <2>1, <2>3, HearKeeps
  <2>5. Live!TypeOK'
    BY <2>1, <2>3, <2>4, LiveTypes DEF Live!TypeOK
  <2>6. HasAsked(s)'
    BY <2>1, <2>2, <2>3, <2>4 DEF HasAsked
  <2>7. \A t \in Sockets \ {s} : HasAsked(t)'
    BY <2>1, <2>3, <2>4 DEF LiveInv, HasAsked
  <2> QED  BY <2>1, <2>4, <2>5, <2>6, <2>7 DEF LiveInv
<1>8. ASSUME NEW s \in Sockets, Live!HelloSent(s) PROVE LiveInv'
  <2>1. /\ starting[s] > 0 /\ starting' = [starting EXCEPT ![s] = @ - 1] /\ known' \in {known, TRUE}
        /\ UNCHANGED <<refCount, socket, connected, timers, link, served, hasty, subscribes, mounts,
              drops>>
    BY <1>8 DEF Live!HelloSent, Live!tabVars
  <2>2. hasty /\ served[s] \in {"up", "down"}
    <3>1. (starting[s] > 0 => hasty) /\ (served[s] = "none" => starting[s] = 0)
      BY DEF LiveInv, HasAsked
    <3>2. served[s] \in {"none", "up", "down"}
      BY LiveTypes
    <3> QED  BY <2>1, <3>1, <3>2
  <2>3. /\ Live!ListenersAreConnections' /\ streaming' \in BOOLEAN /\ leaked' \in Nat
        /\ unsubscribe' \in [Sockets -> BOOLEAN]
        /\ \A t \in Sockets \ {s} : unsubscribe'[t] = unsubscribe[t]
    BY <1>8, <2>2, HelloKeeps
  <2>4. starting' \in [Sockets -> Nat] /\ \A t \in Sockets \ {s} : starting'[t] = starting[t]
    BY <2>1, LiveTypes
  <2>5. Live!TypeOK'
    BY <2>1, <2>3, <2>4, LiveTypes DEF Live!TypeOK
  <2>6. HasAsked(s)'
    BY <2>1, <2>2, <2>4, LiveTypes DEF LiveInv, HasAsked
  <2>7. \A t \in Sockets \ {s} : HasAsked(t)'
    BY <2>1, <2>2, <2>3, <2>4 DEF LiveInv, HasAsked
  <2> QED  BY <2>1, <2>3, <2>5, <2>6, <2>7, LiveTypes DEF LiveInv
<1>9. ASSUME NEW s \in Sockets, Live!Subscribe(s) PROVE LiveInv'
  <2>1. /\ s \in subscribes /\ subscribes' = subscribes \ {s}
        /\ UNCHANGED <<refCount, socket, connected, timers, link, served, known, hasty, mounts,
              drops>>
    BY <1>9 DEF Live!Subscribe, Live!tabVars
  <2>2. served[s] = "up" /\ link[s] # "connecting" /\ Live!Hear(s, FALSE, 1) /\ (~known => hasty)
    BY <1>9, <2>1 DEF LiveInv, HasAsked, Live!Subscribe
  <2>4. /\ Live!ListenersAreConnections' /\ streaming' \in BOOLEAN /\ leaked' \in Nat
        /\ unsubscribe' \in [Sockets -> BOOLEAN] /\ starting' \in [Sockets -> Nat]
        /\ \A t \in Sockets \ {s} : unsubscribe'[t] = unsubscribe[t] /\ starting'[t] = starting[t]
        /\ starting'[s] = starting[s] \/ ~known
    BY <1>n, <2>1, <2>2, HearKeeps
  <2>5. Live!TypeOK'
    BY <2>1, <2>4, LiveTypes DEF Live!TypeOK
  <2>6. HasAsked(s)'
    BY <2>1, <2>2, <2>4 DEF LiveInv, HasAsked
  <2>7. \A t \in Sockets \ {s} : HasAsked(t)'
    BY <2>1, <2>4 DEF LiveInv, HasAsked
  <2> QED  BY <2>1, <2>4, <2>5, <2>6, <2>7, LiveTypes DEF LiveInv
<1>10. ASSUME NEW s \in Sockets, NEW gone \in BOOLEAN, NEW n \in 0 .. Live!Burst,
              Live!Chatter(s, gone, n)
       PROVE  LiveInv'
  <2>1. /\ served[s] = "up" /\ Live!Hear(s, gone, n) /\ drops' \in 0 .. MaxDrops
        /\ hasty' = (hasty \/ n > 1) /\ n \in Nat
        /\ UNCHANGED <<refCount, socket, connected, timers, link, served, known, subscribes, mounts>>
    BY <1>10, <1>f DEF Live!Chatter, Live!tabVars, Live!Burst
  <2>6. (hasty => hasty') /\ (n > 1 => hasty') /\ hasty' \in BOOLEAN
    BY <2>1, LiveTypes
  <2>2. /\ Live!ListenersAreConnections' /\ streaming' \in BOOLEAN /\ leaked' \in Nat
        /\ unsubscribe' \in [Sockets -> BOOLEAN] /\ starting' \in [Sockets -> Nat]
        /\ \A t \in Sockets \ {s} : unsubscribe'[t] = unsubscribe[t] /\ starting'[t] = starting[t]
        /\ starting'[s] = starting[s] \/ ~known
    BY <2>1, <2>6, HearKeeps
  <2>3. Live!TypeOK'
    BY <2>1, <2>2, <2>6, LiveTypes DEF Live!TypeOK
  <2>4. HasAsked(s)'
    BY <2>1, <2>2, <2>6 DEF LiveInv, HasAsked
  <2>5. \A t \in Sockets \ {s} : HasAsked(t)'
    BY <2>1, <2>2, <2>6 DEF LiveInv, HasAsked
  <2> QED  BY <2>1, <2>2, <2>3, <2>4, <2>5, LiveTypes DEF LiveInv
<1>11. ASSUME NEW s \in Sockets, Live!Teardown(s) PROVE LiveInv'
  <2>1. /\ served[s] = "up" /\ link[s] # "connecting" /\ served' = [served EXCEPT ![s] = "down"]
        /\ Live!Hear(s, TRUE, 0) /\ subscribes' = subscribes \ {s}
        /\ UNCHANGED <<refCount, socket, connected, timers, link, known, hasty, mounts, drops>>
    BY <1>11 DEF Live!Teardown, Live!tabVars
  <2>2. served' \in [Sockets -> {"none", "up", "down"}] /\ served'[s] = "down"
        /\ \A t \in Sockets \ {s} : served'[t] = served[t]
    BY <2>1, LiveTypes
  <2>3. /\ Live!ListenersAreConnections' /\ streaming' \in BOOLEAN /\ leaked' \in Nat
        /\ unsubscribe' \in [Sockets -> BOOLEAN] /\ unsubscribe'[s] = FALSE
        /\ starting' \in [Sockets -> Nat] /\ starting'[s] = starting[s]
        /\ \A t \in Sockets \ {s} : unsubscribe'[t] = unsubscribe[t] /\ starting'[t] = starting[t]
    BY <1>n, <2>1, <2>2, HearKeeps
  <2>4. Live!TypeOK'
    BY <2>1, <2>2, <2>3, LiveTypes DEF Live!TypeOK
  <2>5. \A t \in Sockets : HasAsked(t)'
    BY <2>1, <2>2, <2>3 DEF LiveInv, HasAsked
  <2> QED  BY <2>1, <2>3, <2>4, <2>5, LiveTypes DEF LiveInv
<1>12. CASE UNCHANGED liveVars
  BY <1>12 DEF liveVars, LiveInv, Live!TypeOK, HasAsked, Live!ListenersAreConnections
<1>13. CASE Live!Next
  BY <1>1, <1>2, <1>3, <1>4, <1>5, <1>6, <1>7, <1>8, <1>9, <1>10, <1>11, <1>13
     DEF Live!Next
<1> QED  BY <1>12, <1>13

LEMMA LiveStarts == ASSUME Live!Init PROVE LiveInv
<1>0. /\ refCount = 0 /\ mounts = 0 /\ leaked = 0 /\ drops = 0 /\ timers = 0 /\ subscribes = {}
      /\ socket = None /\ connected = FALSE /\ hasty = FALSE /\ streaming = FALSE
            /\ known \in BOOLEAN
      /\ link = [s \in Sockets |-> "free"] /\ served = [s \in Sockets |-> "none"]
      /\ starting = [s \in Sockets |-> 0] /\ unsubscribe = [s \in Sockets |-> FALSE]
  BY DEF Live!Init
<1>1. Live!TypeOK
  <2>1. /\ link \in [Sockets -> {"free", "connecting", "open", "closing"}]
        /\ served \in [Sockets -> {"none", "up", "down"}]
        /\ starting \in [Sockets -> Nat] /\ unsubscribe \in [Sockets -> BOOLEAN]
    BY <1>0
  <2>2. 0 \in Nat /\ 0 \in 0 .. MaxMounts /\ 0 \in 0 .. MaxDrops
    BY PartsAssumption
  <2> QED  BY <1>0, <2>1, <2>2 DEF Live!TypeOK
<1>2. refCount <= mounts /\ (\A s \in Sockets : HasAsked(s)) /\ Live!ListenersAreConnections
  <2>1. \A s \in Sockets : link[s] = "free" /\ served[s] = "none" /\ starting[s] = 0
                           /\ unsubscribe[s] = FALSE
    BY <1>0
  <2>2. ASSUME NEW s \in Sockets PROVE HasAsked(s)
    <3>1. /\ served[s] = "none" /\ link[s] # "connecting" /\ s \notin subscribes
          /\ ~(starting[s] > 0) /\ starting[s] = 0 /\ unsubscribe[s] = FALSE
      BY <1>0, <2>1
    <3> QED  BY <3>1 DEF HasAsked
  <2>3. /\ leaked = 0 /\ ~(leaked > 0) /\ streaming = FALSE /\ refCount <= mounts
        /\ ~\E s \in Sockets : unsubscribe[s]
    BY <1>0, <2>1
  <2>4. Live!ListenersAreConnections
    BY <2>3 DEF Live!ListenersAreConnections
  <2> QED  BY <2>2, <2>3, <2>4
<1> QED  BY <1>1, <1>2 DEF LiveInv

\* ws.ts: the loop runs exactly while it holds listeners, a connection can remove one at
\* most and none after it closed, and none is left that nobody can remove if the facts
\* were known from the first connection on and no chunk held several subscriptions.
THEOREM LoopServesListeners == PartsSpec => []ListenersAreConnections
<1>1. LiveInv => ListenersAreConnections
  BY DEF LiveInv, ListenersAreConnections
<1>2. PartsInit => LiveInv
  BY LiveStarts DEF PartsInit
<1>3. LiveInv /\ [PartsNext]_partsVars => LiveInv'
  BY LiveStep, PartSteps
<1> QED  BY <1>1, <1>2, <1>3, PTL DEF PartsSpec

-----------------------------------------------------------------------------
(* Windows *)

\* On the screen, but perhaps beyond its left edge.
AtHand(r, left) == Windows!OnScreen(r) /\ (left \/ Windows!InSight(r))

\* Whatever the screen is, every window is on it, except those put back to where a
\* larger one had them: those that are not shown will be.
AllOnScreen == ~Windows!OnPhone(view)
   => \A a \in Windows!Open \ strayed : AtHand(win[a].rect, a \in slipped)

WindowsInv == Windows!TypeOK /\ AllOnScreen /\ Windows!FocusIsInFront

LEMMA WindowsNumbers ==
    /\ Phone \in Nat /\ Bar \in Nat /\ Wide \in Nat \ {0} /\ High \in Nat /\ MaxMoves \in Nat
    /\ None \notin Apps /\ Gone \notin Apps /\ None \notin Windows!Window
BY DesktopAssumption

LEMMA ViewIsSize ==
    ASSUME NEW v \in Sizes
    PROVE  v.w \in Nat \ {0} /\ v.h \in Nat /\ (~Windows!OnPhone(v) => v.w >= 2 /\ v.h >= Bar + 2)
BY DesktopAssumption DEF Windows!OnPhone

LEMMA WindowsTypes ==
    ASSUME Windows!TypeOK
    PROVE  /\ view \in Sizes /\ win \in [Apps -> Windows!Window \cup {None}]
                 /\ above \subseteq Windows!Open \X Windows!Open
           /\ \A a, b \in Windows!Open : <<a, b>> \in above <=> a # b /\ <<b, a>> \notin above
           /\ \A a, b, c \in Windows!Open : <<a, b>> \in above /\ <<b, c>> \in above
                 => <<a, c>> \in above
           /\ focused \in Windows!Open \cup {None, Gone} /\ asked \subseteq Windows!Open
                 /\ strayed \subseteq Windows!Open /\ slipped \subseteq Windows!Open
           /\ moves \in 0 .. MaxMoves /\ moves \in Int
           /\ \A a \in Windows!Open : a \in Apps /\ win[a] \in Windows!Window /\ a # None
                 /\ a # Gone
           /\ Windows!Open \subseteq Apps
BY WindowsNumbers DEF Windows!TypeOK, Windows!Open

\* A window raised is in front of every other, and the others stay as they were.
LEMMA Raised ==
    ASSUME Windows!TypeOK, NEW S, Windows!Open \subseteq S, NEW a,
           S \subseteq Windows!Open \cup {a}, a \in S,
           NEW T, T = Windows!Behind(a) \cup {<<a, b>> : b \in S \ {a}}
    PROVE  /\ T \subseteq S \X S
           /\ \A b, c \in S : <<b, c>> \in T <=> b # c /\ <<c, b>> \notin T
           /\ \A b, c, d \in S : <<b, c>> \in T /\ <<c, d>> \in T => <<b, d>> \in T
           /\ \A b \in S \ {a} : <<a, b>> \in T
<1>1. \A b, c : <<b, c>> \in Windows!Behind(a) <=> <<b, c>> \in above /\ b # a /\ c # a
  BY DEF Windows!Behind
<1>2. \A b, c : <<b, c>> \in T <=> <<b, c>> \in Windows!Behind(a) \/ (b = a /\ c \in S /\ c # a)
  OBVIOUS
<1>3. ASSUME NEW b \in S, NEW c \in S
      PROVE  <<b, c>> \in T <=> (b # a /\ c # a /\ <<b, c>> \in above) \/ (b = a /\ c # a)
  <2>1. <<b, c>> \in T <=> <<b, c>> \in Windows!Behind(a) \/ (b = a /\ c # a)
    BY <1>2
  <2>2. <<b, c>> \in Windows!Behind(a) <=> b # a /\ c # a /\ <<b, c>> \in above
    BY <1>1
  <2> QED  BY <2>1, <2>2
<1>4. T \subseteq S \X S
  <2>1. Windows!Behind(a) \subseteq S \X S
    BY WindowsTypes DEF Windows!Behind
  <2> QED  BY <2>1
<1>5. ASSUME NEW b \in S, NEW c \in S
      PROVE  <<b, c>> \in T <=> b # c /\ <<c, b>> \notin T
  <2>1. b # a /\ c # a => (<<b, c>> \in above <=> b # c /\ <<c, b>> \notin above)
    BY WindowsTypes
  <2>2. <<b, c>> \in T <=> (b # a /\ c # a /\ <<b, c>> \in above) \/ (b = a /\ c # a)
    BY <1>3
  <2>3. <<c, b>> \in T <=> (c # a /\ b # a /\ <<c, b>> \in above) \/ (c = a /\ b # a)
    BY <1>3
  <2> QED  BY <2>1, <2>2, <2>3, Zenon
<1>6. \A b, c, d \in S : <<b, c>> \in T /\ <<c, d>> \in T => <<b, d>> \in T
  BY <1>3, <1>5, WindowsTypes
<1>7. \A b \in S \ {a} : <<a, b>> \in T
  OBVIOUS
<1> QED  BY <1>4, <1>5, <1>6, <1>7

LEMMA RaisedBehind ==
    ASSUME Windows!TypeOK, NEW a \in Windows!Open
    PROVE  /\ Windows!Behind(a) \subseteq (Windows!Open \ {a}) \X (Windows!Open \ {a})
           /\ \A b, c \in Windows!Open \ {a} : <<b, c>> \in Windows!Behind(a) <=> b # c
                 /\ <<c, b>> \notin Windows!Behind(a)
           /\ \A b, c, d \in Windows!Open \ {a} :
                 <<b, c>> \in Windows!Behind(a) /\ <<c, d>> \in Windows!Behind(a)
                    => <<b, d>> \in Windows!Behind(a)
<1>1. \A b, c : <<b, c>> \in Windows!Behind(a) <=> <<b, c>> \in above /\ b # a /\ c # a
  BY DEF Windows!Behind
<1>2. Windows!Behind(a) \subseteq (Windows!Open \ {a}) \X (Windows!Open \ {a})
  BY WindowsTypes DEF Windows!Behind
<1> QED  BY <1>1, <1>2, WindowsTypes

\* There is no more than one in front.
LEMMA FrontIsTop ==
    ASSUME NEW ws, NEW a \in ws, Windows!Front(a, ws), \A b, c \in ws : <<b, c>> \in above
              => <<c, b>> \notin above
    PROVE  Windows!TopMost(ws) = a
<1>1. \A b \in ws : Windows!Front(b, ws) => b = a
  BY DEF Windows!Front
<1> QED  BY <1>1 DEF Windows!TopMost

LEMMA TopIsFront ==
    ASSUME NEW ws, Windows!TopMost(ws) \in ws, None \notin ws
    PROVE  Windows!Front(Windows!TopMost(ws), ws)
BY DEF Windows!TopMost

\* The windows that can be in front: shown, and not on their way out.
Fore == {a \in Windows!Lively : Windows!Shown(a)}

LEMMA LivelyAreOpen ==
    /\ Windows!Lively \subseteq Windows!Open /\ Fore \subseteq Windows!Lively
          /\ Fore \subseteq Windows!Open
    /\ Windows!Lively' \subseteq Windows!Open' /\ Fore' \subseteq Windows!Lively'
          /\ Fore' \subseteq Windows!Open'
BY DEF Windows!Lively, Fore

\* A window that was raised, and is shown, is the one in front.
LEMMA RaisedIsFront ==
    ASSUME Windows!TypeOK', NEW a \in Windows!Open', focused' = a,
           \A b \in Windows!Open' \ {a} : <<a, b>> \in above',
           ~win'[a].minimized
    PROVE  Windows!FocusIsInFront'
<1>1. \A b, c \in Windows!Open' : <<b, c>> \in above' => <<c, b>> \notin above'
  BY DEF Windows!TypeOK
<1> SUFFICES ASSUME a \in Windows!Lively' PROVE a = Windows!TopMost(Fore)'
  BY DEF Windows!FocusIsInFront, Fore
<1>2. a \in Fore' /\ \A b \in Fore' \ {a} : <<a, b>> \in above'
  BY LivelyAreOpen DEF Fore, Windows!Shown
<1>3. \A b \in Fore' : Windows!Front(b, Fore)' => b = a
  BY <1>1, <1>2, LivelyAreOpen DEF Windows!Front
<1>4. Windows!Front(a, Fore)'
  BY <1>2 DEF Windows!Front
<1> QED  BY <1>2, <1>3, <1>4 DEF Windows!TopMost

\* What has the focus and is not on its way out is shown.
LEMMA FocusIsShown ==
    ASSUME Windows!TypeOK, Windows!FocusIsInFront, focused \in Windows!Lively
    PROVE  focused \in Fore /\ Windows!Front(focused, Fore)
<1>1. focused = Windows!TopMost(Fore)
  BY DEF Windows!FocusIsInFront, Fore
<1>2. focused # None
  BY LivelyAreOpen, WindowsTypes
<1> QED  BY <1>1, <1>2 DEF Windows!TopMost

LEMMA FrontStays ==
    ASSUME Windows!TypeOK', NEW a \in Fore', focused' = a,
           \A b \in Fore' \ {a} : <<a, b>> \in above'
    PROVE  Windows!FocusIsInFront'
<1>1. \A b, c \in Windows!Open' : <<b, c>> \in above' => <<c, b>> \notin above'
  BY DEF Windows!TypeOK
<1>2. \A b \in Fore' : Windows!Front(b, Fore)' => b = a
  BY <1>1, LivelyAreOpen DEF Windows!Front
<1>3. Windows!Front(a, Fore)'
  BY DEF Windows!Front
<1>4. a = Windows!TopMost(Fore)'
  BY <1>2, <1>3 DEF Windows!TopMost
<1> QED  BY <1>4 DEF Windows!FocusIsInFront, Fore

\* The focus stays where it is, and what it was in front of is there still, or less.
LEMMA FocusStays ==
    ASSUME Windows!TypeOK, Windows!TypeOK', Windows!FocusIsInFront, focused' = focused,
           Fore' \subseteq Fore,
           focused \in Windows!Lively'
              => focused \in Windows!Lively /\ (focused \in Fore => focused \in Fore'),
           \A b, c \in Windows!Open' : <<b, c>> \in above => <<b, c>> \in above'
    PROVE  Windows!FocusIsInFront'
<1> SUFFICES ASSUME focused \in Windows!Lively' PROVE Windows!FocusIsInFront'
  BY DEF Windows!FocusIsInFront
<1>1. focused \in Fore /\ Windows!Front(focused, Fore)
  BY FocusIsShown
<1>2. focused \in Fore' /\ \A b \in Fore' \ {focused} : <<focused, b>> \in above'
  BY <1>1, LivelyAreOpen DEF Windows!Front
<1> QED  BY <1>2, FrontStays

\* The window that goes gives the focus to the one that is then in front.
LEMMA NextIsFront ==
    ASSUME Windows!TypeOK, Windows!TypeOK', Windows!FocusIsInFront, NEW a \in Windows!Open,
           focused' = Windows!NextFocus(a), above' = above,
           Fore' = Fore \ {a}, Windows!Open' = Windows!Open,
              Windows!Lively' \subseteq Windows!Lively
    PROVE  Windows!FocusIsInFront'
<1>1. CASE focused # a
  <2>1. focused' = focused
    BY <1>1 DEF Windows!NextFocus
  <2> QED  BY <1>1, <2>1, FocusStays
<1>2. CASE focused = a
  <2> DEFINE ws == {b \in Windows!Open \ {a} : Windows!Shown(b)}
  <2> SUFFICES ASSUME focused' \in Windows!Lively' PROVE Windows!FocusIsInFront'
    BY DEF Windows!FocusIsInFront
  <2>1. focused' = Windows!TopMost(ws)
    BY <1>2 DEF Windows!NextFocus
  <2>2. None \notin ws /\ focused' # None
    BY WindowsTypes, LivelyAreOpen
  <2>3. focused' \in ws /\ Windows!Front(focused', ws)
    BY <2>1, <2>2 DEF Windows!TopMost
  <2>4. focused' \in Fore'
    BY <2>3 DEF Fore
  <2>5. \A b \in Fore' \ {focused'} : <<focused', b>> \in above'
    BY <2>3, LivelyAreOpen DEF Windows!Front, Fore
  <2> QED  BY <2>4, <2>5, FrontStays
<1> QED  BY <1>1, <1>2

\* Nothing but flags and places changes.
LEMMA OpenIsSame ==
    ASSUME Windows!TypeOK, win' \in [Apps -> Windows!Window \cup {None}],
           \A a \in Apps : win'[a] = None <=> win[a] = None
    PROVE  Windows!Open' = Windows!Open
BY DEF Windows!Open

\* The windows are where they are, or are placed on the screen.
LEMMA ScreenStays ==
    ASSUME AllOnScreen, view' = view, NEW a, \A b \in Windows!Open' \ {a} : b \in Windows!Open
              /\ win'[b].rect = win[b].rect,
           strayed \subseteq strayed' \cup {a}, slipped \subseteq slipped' \cup {a},
           a \in Windows!Open' \ strayed' /\ ~Windows!OnPhone(view)
              => AtHand(win'[a].rect, a \in slipped')
    PROVE  AllOnScreen'
<1> QED  BY DEF AllOnScreen, AtHand, Windows!InSight, Windows!OnScreen, Windows!OnPhone

-----------------------------------------------------------------------------
(* Where a window may be put *)

LEMMA LeastMost ==
    ASSUME NEW a \in Int, NEW b \in Int
    PROVE  /\ Windows!Least(a, b) \in Int /\ Windows!Least(a, b) <= a /\ Windows!Least(a, b) <= b
                 /\ Windows!Least(a, b) \in {a, b}
           /\ Windows!Most(a, b) \in Int /\ Windows!Most(a, b) >= a /\ Windows!Most(a, b) >= b
                 /\ Windows!Most(a, b) \in {a, b}
BY DEF Windows!Least, Windows!Most

LEMMA HalfIsSome ==
    ASSUME NEW n \in Nat, n >= 1
    PROVE  Windows!Half(n) \in Nat \ {0} /\ Windows!Half(n) <= n
BY DEF Windows!Half

LEMMA FilledFits ==
    ASSUME NEW v \in Sizes
    PROVE  /\ Windows!Filled(v) \in Windows!Rect /\ Windows!Sheet(v) \in Windows!Rect
           /\ Windows!Filled(v).y = Bar /\ Windows!Filled(v).x = 0
           /\ Windows!InSight(Windows!Filled(v))
           /\ ~Windows!OnPhone(v) => 0 < v.w /\ Bar < v.h
<1>1. v.w \in Nat \ {0} /\ v.h \in Int /\ Bar \in Int /\ v.h - Bar \in Int
  BY ViewIsSize, WindowsNumbers
<1>2. ~Windows!OnPhone(v) => 0 < v.w /\ Bar < v.h
  BY ViewIsSize, WindowsNumbers
<1>3. Windows!Filled(v) \in Windows!Rect /\ Windows!Sheet(v) \in Windows!Rect
  BY <1>1 DEF Windows!Filled, Windows!Sheet, Windows!Rect
<1>4. Windows!Filled(v).y = Bar /\ Windows!Filled(v).x = 0 /\ Windows!Filled(v).width = v.w
  BY DEF Windows!Filled
<1>5. Windows!InSight(Windows!Filled(v))
  BY <1>1, <1>4 DEF Windows!InSight
<1> QED  BY <1>2, <1>3, <1>4, <1>5

LEMMA SnapFits ==
    ASSUME NEW v \in Sizes, NEW zone \in Windows!Zones
    PROVE  /\ Windows!SnapRect(zone, v) \in Windows!Rect
           /\ ~Windows!OnPhone(v)
                 => /\ Windows!SnapRect(zone, v).x < v.w /\ Bar <= Windows!SnapRect(zone, v).y
                    /\ Windows!SnapRect(zone, v).y < v.h
                    /\ Windows!InSight(Windows!SnapRect(zone, v))
<1>1. CASE Windows!OnPhone(v)
  BY <1>1, FilledFits DEF Windows!SnapRect
<1>2. CASE ~Windows!OnPhone(v)
  <2> DEFINE across == Windows!Half(v.w)
             down == Windows!Half(v.h - Bar)
             r == Windows!SnapRect(zone, v)
  <2>1. v.w \in Nat \ {0} /\ v.h \in Nat /\ Bar \in Nat /\ v.h >= Bar + 2 /\ v.h - Bar \in Nat
    BY <1>2, ViewIsSize, WindowsNumbers
  <2>2. across \in Nat \ {0} /\ across <= v.w /\ down \in Nat \ {0} /\ down <= v.h - Bar
    BY <2>1, HalfIsSome
  <2>3. r = [x |-> r.x, y |-> r.y, width |-> r.width, height |-> r.height]
        /\ r.x \in {0, v.w - across} /\ r.y \in {Bar, v.h - down}
        /\ r.width \in {v.w, across} /\ r.height \in {v.h - Bar, down}
    BY <1>2 DEF Windows!SnapRect
  <2> HIDE DEF across, down, r
  <2>4. r.x \in Nat /\ r.x < v.w /\ r.y \in Int /\ Bar <= r.y /\ r.y < v.h
        /\ r.width \in Nat \ {0} /\ r.height \in Int
    BY <2>1, <2>2, <2>3
  <2>5. r \in Windows!Rect /\ Windows!InSight(r)
    BY <2>3, <2>4 DEF Windows!Rect, Windows!InSight
  <2> QED  BY <2>4, <2>5 DEF r
<1> QED  BY <1>1, <1>2

LEMMA PlacesFit ==
    ASSUME NEW v \in Sizes, NEW r \in Windows!Places(v)
    PROVE  /\ r \in Windows!Rect
           /\ ~Windows!OnPhone(v)
                 => r.x < v.w /\ Bar <= r.y /\ r.y < v.h /\ Windows!InSight(r)
<1>1. CASE Windows!OnPhone(v)
  BY <1>1, FilledFits DEF Windows!Places
<1>2. CASE ~Windows!OnPhone(v)
  <2>1. PICK k \in {0, 1} : r = [x |-> k, y |-> Bar + k, width |-> Windows!Least(Wide, v.w - 1),
                                 height |-> Windows!Least(High, v.h - Bar - 1)]
    BY <1>2 DEF Windows!Places
  <2>2. v.w \in Int /\ v.h \in Int /\ Bar \in Int /\ v.w >= 2 /\ v.h >= Bar + 2
           /\ Wide \in Nat \ {0}
           /\ High \in Int
    BY <1>2, ViewIsSize, WindowsNumbers
  <2>3. Windows!Least(Wide, v.w - 1) \in Nat \ {0} /\ Windows!Least(High, v.h - Bar - 1) \in Int
    BY <2>2 DEF Windows!Least
  <2> QED  BY <2>1, <2>2, <2>3 DEF Windows!Rect, Windows!InSight
<1> QED  BY <1>1, <1>2

LEMMA ClampedFits ==
    ASSUME NEW v \in Sizes, NEW r \in Windows!Rect
    PROVE  /\ Windows!Clamped(r, v) \in Windows!Rect
           /\ ~Windows!OnPhone(v)
                 => Windows!Clamped(r, v).x < v.w /\ Bar <= Windows!Clamped(r, v).y
                    /\ Windows!Clamped(r, v).y < v.h /\ Windows!InSight(Windows!Clamped(r, v))
<1>1. v.w \in Nat \ {0} /\ v.h \in Int /\ Bar \in Int
         /\ (~Windows!OnPhone(v) => v.w >= 2 /\ v.h >= Bar + 2)
  BY ViewIsSize, WindowsNumbers
<1>2. r.x \in Int /\ r.y \in Int /\ r.width \in Nat \ {0} /\ r.height \in Int
  BY DEF Windows!Rect
<1> DEFINE c == Windows!Clamped(r, v)
<1>3. /\ c.width = Windows!Least(r.width, v.w) /\ c.height = Windows!Least(r.height, v.h - Bar)
      /\ c.x = Windows!Most(0, Windows!Least(r.x, v.w - 1))
            /\ c.y = Windows!Most(Bar, Windows!Least(r.y, v.h - 1))
      /\ c = [width |-> c.width, height |-> c.height, x |-> c.x, y |-> c.y]
  BY DEF Windows!Clamped
<1> HIDE DEF c
<1>4. c.width \in Nat \ {0} /\ c.height \in Int /\ c.x \in Int /\ c.y \in Int
  BY <1>1, <1>2, <1>3 DEF Windows!Least, Windows!Most
<1>5. ~Windows!OnPhone(v) => c.x < v.w /\ Bar <= c.y /\ c.y < v.h /\ 0 <= c.x
  BY <1>1, <1>2, <1>3 DEF Windows!Least, Windows!Most
<1>6. c \in Windows!Rect
  BY <1>3, <1>4 DEF Windows!Rect
<1> QED  BY <1>4, <1>5, <1>6 DEF c, Windows!InSight

\* A pull at the edges of a window on the screen leaves it there.
LEMMA StretchedFits ==
    ASSUME NEW v \in Sizes, ~Windows!OnPhone(v), NEW r \in Windows!Rect, NEW p \in Points,
           NEW dir \in Windows!Pulls,
           0 <= p.x, p.x < v.w, p.y < v.h
    PROVE  /\ Windows!Stretched(r, p, dir) \in Windows!Rect
           /\ r.x < v.w /\ Bar <= r.y /\ r.y < v.h =>
                 /\ Windows!Stretched(r, p, dir).x < v.w
                 /\ Bar <= Windows!Stretched(r, p, dir).y /\ Windows!Stretched(r, p, dir).y < v.h
           /\ Windows!InSight(r) => Windows!InSight(Windows!Stretched(r, p, dir))
<1>1. v.w \in Int /\ v.h \in Int /\ Bar \in Int /\ v.h >= Bar + 2 /\ p.x \in Int /\ p.y \in Int
  BY ViewIsSize, WindowsNumbers, DesktopAssumption
<1>2. r.x \in Int /\ r.y \in Int /\ r.width \in Nat \ {0} /\ r.height \in Int
  BY DEF Windows!Rect
<1> DEFINE t == Windows!Stretched(r, p, dir)
<1>3. t = [width |-> t.width, height |-> t.height, x |-> t.x, y |-> t.y]
  BY DEF Windows!Stretched
<1>4. \/ t.width = Windows!Most(1, p.x + 1 - r.x) /\ t.x = r.x
      \/ t.width = Windows!Most(1, r.x + r.width - p.x) /\ t.x = r.x + r.width - t.width
      \/ t.width = r.width /\ t.x = r.x
  BY DEF Windows!Stretched, Windows!Pulls
<1>5. \/ t.height = Windows!Most(1, p.y + 1 - r.y) /\ t.y = r.y
      \/ /\ t.height = Windows!Most(1, r.y + r.height - p.y)
         /\ t.y = Windows!Most(Bar, r.y + r.height - t.height)
      \/ t.height = r.height /\ t.y = r.y
  BY DEF Windows!Stretched, Windows!Pulls
<1> HIDE DEF t
<1>6. t.width \in Nat \ {0} /\ t.x \in Int /\ (r.x < v.w => t.x < v.w)
      /\ (0 < r.x + r.width => 0 < t.x + t.width)
  BY <1>1, <1>2, <1>4 DEF Windows!Most
<1>7. t.height \in Int /\ t.y \in Int /\ (Bar <= r.y /\ r.y < v.h => Bar <= t.y /\ t.y < v.h)
  BY <1>1, <1>2, <1>5 DEF Windows!Most
<1>8. t \in Windows!Rect
  BY <1>3, <1>6, <1>7 DEF Windows!Rect
<1> QED  BY <1>6, <1>7, <1>8 DEF t, Windows!InSight

-----------------------------------------------------------------------------
(* Steps *)

\* One window is written over by a window.
LEMMA OneWritten ==
    ASSUME Windows!TypeOK, NEW a \in Apps, NEW w \in Windows!Window, win' = [win EXCEPT ![a] = w]
    PROVE  /\ win' \in [Apps -> Windows!Window \cup {None}] /\ win'[a] = w
           /\ \A b \in Apps \ {a} : win'[b] = win[b]
           /\ Windows!Open' = Windows!Open \cup {a}
<1>1. win \in [Apps -> Windows!Window \cup {None}]
  BY WindowsTypes
<1>2. win' \in [Apps -> Windows!Window \cup {None}] /\ win'[a] = w
         /\ \A b \in Apps \ {a} : win'[b] = win[b]
  BY <1>1
<1>3. w # None
  BY WindowsNumbers
<1> QED  BY <1>2, <1>3 DEF Windows!Open

LEMMA OpenWritten ==
    ASSUME Windows!TypeOK, NEW a \in Windows!Open, NEW w \in Windows!Window,
           win' = [win EXCEPT ![a] = w]
    PROVE  /\ win' \in [Apps -> Windows!Window \cup {None}] /\ win'[a] = w
           /\ \A b \in Apps \ {a} : win'[b] = win[b]
           /\ Windows!Open' = Windows!Open
<1>1. a \in Apps
  BY WindowsTypes
<1>2. Windows!Open \cup {a} = Windows!Open
  OBVIOUS
<1> QED  BY <1>1, <1>2, OneWritten

LEMMA RaiseIsOrder ==
    ASSUME Windows!TypeOK, NEW a \in Apps, Windows!Open' = Windows!Open \cup {a},
           above' = Windows!Raise(a)
    PROVE  /\ above' \subseteq Windows!Open' \X Windows!Open'
           /\ \A b, c \in Windows!Open' : <<b, c>> \in above' <=> b # c /\ <<c, b>> \notin above'
           /\ \A b, c, d \in Windows!Open' : <<b, c>> \in above' /\ <<c, d>> \in above'
                 => <<b, d>> \in above'
           /\ \A b \in Windows!Open' \ {a} : <<a, b>> \in above'
<1> DEFINE S == Windows!Open \cup {a}
<1>1. above' = Windows!Behind(a) \cup {<<a, b>> : b \in S \ {a}}
  BY DEF Windows!Raise
<1> HIDE DEF S
<1>2. Windows!Open \subseteq S /\ a \in S /\ S \subseteq Windows!Open \cup {a} /\ Windows!Open' = S
  BY DEF S
<1>3. Windows!TypeOK /\ Windows!Open \subseteq S /\ S \subseteq Windows!Open \cup {a} /\ a \in S
  BY <1>2
<1>4. /\ above' \subseteq S \X S
      /\ \A b, c \in S : <<b, c>> \in above' <=> b # c /\ <<c, b>> \notin above'
      /\ \A b, c, d \in S : <<b, c>> \in above' /\ <<c, d>> \in above' => <<b, d>> \in above'
      /\ \A b \in S \ {a} : <<a, b>> \in above'
  BY <1>1, <1>3, Raised
<1> QED  BY <1>2, <1>4

\* A window gets the focus, wherever it was, shown and in front.
LEMMA FocusedKeeps ==
    ASSUME WindowsInv, NEW a \in Windows!Open, Windows!Focused(a),
           UNCHANGED <<view, asked, strayed, slipped, moves>>
    PROVE  WindowsInv'
<1> DEFINE w == [win[a] EXCEPT !.minimized = FALSE]
<1>1. a \in Apps /\ win[a] \in Windows!Window
  BY WindowsTypes DEF WindowsInv
<1>2. w \in Windows!Window /\ w.rect = win[a].rect /\ ~w.minimized
  BY <1>1 DEF Windows!Window
<1>3. win' = [win EXCEPT ![a] = w]
  BY DEF Windows!Focused
<1> HIDE DEF w
<1>4. /\ win' \in [Apps -> Windows!Window \cup {None}] /\ win'[a] = w
      /\ \A b \in Apps \ {a} : win'[b] = win[b]
      /\ Windows!Open' = Windows!Open
  BY <1>1, <1>2, <1>3, OpenWritten DEF WindowsInv
<1>5. /\ above' \subseteq Windows!Open' \X Windows!Open'
      /\ \A b, c \in Windows!Open' : <<b, c>> \in above' <=> b # c /\ <<c, b>> \notin above'
      /\ \A b, c, d \in Windows!Open' : <<b, c>> \in above' /\ <<c, d>> \in above'
            => <<b, d>> \in above'
      /\ \A b \in Windows!Open' \ {a} : <<a, b>> \in above'
  BY <1>1, <1>4, RaiseIsOrder DEF WindowsInv, Windows!Focused
<1>6. focused' = a
  BY DEF Windows!Focused
<1>7. Windows!TypeOK'
  BY <1>4, <1>5, <1>6, WindowsTypes DEF WindowsInv, Windows!TypeOK
<1>8. Windows!FocusIsInFront'
  BY <1>2, <1>4, <1>5, <1>6, <1>7, RaisedIsFront
<1>9. AllOnScreen'
  <2>1. \A b \in Windows!Open : win'[b].rect = win[b].rect
    BY <1>2, <1>4, WindowsTypes DEF WindowsInv
  <2> QED  BY <1>4, <2>1 DEF WindowsInv, AllOnScreen, AtHand, Windows!InSight, Windows!OnScreen, Windows!OnPhone
<1> QED  BY <1>7, <1>8, <1>9 DEF WindowsInv

LEMMA OpenAppKeeps ==
    ASSUME WindowsInv, NEW a \in Apps, Windows!OpenApp(a)
    PROVE  WindowsInv'
<1>1. CASE a \in Windows!Open /\ Windows!Focused(a)
  BY <1>1, FocusedKeeps DEF Windows!OpenApp
<1>2. CASE a \notin Windows!Open
  <2>1. PICK r \in Windows!Places(view) :
            win' = [win EXCEPT ![a] = [rect |-> r, restore |-> None, minimized |-> FALSE,
                                       maximized |-> FALSE, closing |-> FALSE]]
    BY <1>2 DEF Windows!OpenApp
  <2> DEFINE w == [rect |-> r, restore |-> None, minimized |-> FALSE,
                   maximized |-> FALSE, closing |-> FALSE]
  <2>2. view \in Sizes
    BY WindowsTypes DEF WindowsInv
  <2>3. r \in Windows!Rect /\ (~Windows!OnPhone(view) => AtHand(r, a \in slipped))
    BY <2>2, PlacesFit DEF Windows!OnScreen, AtHand
  <2>4. w \in Windows!Window /\ w.rect = r /\ ~w.minimized
    BY <2>3 DEF Windows!Window
  <2>5. win' = [win EXCEPT ![a] = w]
    BY <2>1
  <2> HIDE DEF w
  <2>6. /\ win' \in [Apps -> Windows!Window \cup {None}] /\ win'[a] = w
        /\ \A b \in Apps \ {a} : win'[b] = win[b]
        /\ Windows!Open' = Windows!Open \cup {a}
    BY <2>4, <2>5, OneWritten DEF WindowsInv
  <2>7. UNCHANGED <<view, asked, strayed, slipped, moves>> /\ above' = Windows!Raise(a) /\ focused' = a
    BY <1>2 DEF Windows!OpenApp
  <2>8. /\ above' \subseteq Windows!Open' \X Windows!Open'
        /\ \A b, c \in Windows!Open' : <<b, c>> \in above' <=> b # c /\ <<c, b>> \notin above'
        /\ \A b, c, d \in Windows!Open' : <<b, c>> \in above' /\ <<c, d>> \in above'
              => <<b, d>> \in above'
        /\ \A b \in Windows!Open' \ {a} : <<a, b>> \in above'
    BY <2>6, <2>7, RaiseIsOrder DEF WindowsInv
  <2>9. Windows!TypeOK'
    BY <2>6, <2>7, <2>8, WindowsTypes DEF WindowsInv, Windows!TypeOK
  <2>10. Windows!FocusIsInFront'
    BY <2>4, <2>6, <2>7, <2>8, <2>9, RaisedIsFront
  <2>11. AllOnScreen'
    <3>1. \A b \in Windows!Open' \ {a} : b \in Windows!Open /\ win'[b].rect = win[b].rect
      BY <2>6, WindowsTypes DEF WindowsInv
    <3> QED  BY <2>3, <2>4, <2>6, <2>7, <3>1, ScreenStays DEF WindowsInv
  <2> QED  BY <2>9, <2>10, <2>11 DEF WindowsInv
<1> QED  BY <1>1, <1>2 DEF Windows!OpenApp

LEMMA FocusKeeps ==
    ASSUME WindowsInv, NEW a \in Apps, Windows!Focus(a)
    PROVE  WindowsInv'
BY FocusedKeeps DEF Windows!Focus

LEMMA CycleKeeps ==
    ASSUME WindowsInv, NEW step \in {-1, 1}, Windows!Cycle(step)
    PROVE  WindowsInv'
<1>1. PICK a \in Windows!Open : Windows!Focused(a)
  BY LivelyAreOpen DEF Windows!Cycle
<1>2. UNCHANGED <<view, asked, strayed, slipped, moves>>
  BY DEF Windows!Cycle
<1> QED  BY <1>1, <1>2, FocusedKeeps

\* A flag of one window is set: it is where it was.
LEMMA MinimizeKeeps ==
    ASSUME WindowsInv, NEW a \in Apps, Windows!Minimize(a)
    PROVE  WindowsInv'
<1> DEFINE w == [win[a] EXCEPT !.minimized = TRUE]
<1>1. a \in Windows!Open /\ win[a] \in Windows!Window
  BY WindowsTypes DEF WindowsInv, Windows!Minimize, Windows!Shown
<1>2. w \in Windows!Window /\ w.rect = win[a].rect /\ w.minimized /\ w.closing = win[a].closing
  BY <1>1 DEF Windows!Window
<1>3. win' = [win EXCEPT ![a] = w] /\ focused' = Windows!NextFocus(a)
      /\ UNCHANGED <<view, above, asked, strayed, slipped, moves>>
  BY DEF Windows!Minimize
<1> HIDE DEF w
<1>4. /\ win' \in [Apps -> Windows!Window \cup {None}] /\ win'[a] = w
      /\ \A b \in Apps \ {a} : win'[b] = win[b]
      /\ Windows!Open' = Windows!Open
  BY <1>1, <1>2, <1>3, OpenWritten DEF WindowsInv
<1>5. Windows!NextFocus(a) \in Windows!Open \cup {None, Gone}
  BY WindowsTypes DEF WindowsInv, Windows!NextFocus, Windows!TopMost
<1>6. Windows!TypeOK'
  BY <1>3, <1>4, <1>5, WindowsTypes DEF WindowsInv, Windows!TypeOK
<1>7. Windows!Lively' = Windows!Lively /\ Fore' = Fore \ {a}
  <2>1. Windows!Lively' = Windows!Lively
    BY <1>2, <1>4, WindowsTypes DEF WindowsInv, Windows!Lively
  <2>2. \A b \in Windows!Open : Windows!Shown(b)' <=> b # a /\ Windows!Shown(b)
    BY <1>2, <1>4, WindowsTypes DEF WindowsInv, Windows!Shown
  <2> QED  BY <2>1, <2>2, LivelyAreOpen DEF Fore
<1>8. Windows!FocusIsInFront'
  BY <1>1, <1>3, <1>4, <1>6, <1>7, NextIsFront DEF WindowsInv
<1>9. AllOnScreen'
  <2>1. \A b \in Windows!Open : win'[b].rect = win[b].rect
    BY <1>2, <1>4, WindowsTypes DEF WindowsInv
  <2> QED  BY <1>3, <1>4, <2>1
              DEF WindowsInv, AllOnScreen, AtHand, Windows!InSight, Windows!OnScreen, Windows!OnPhone
<1> QED  BY <1>6, <1>8, <1>9 DEF WindowsInv

LEMMA ClosingKeeps ==
    ASSUME WindowsInv, NEW a \in Windows!Open, Windows!Closing(a)
    PROVE  WindowsInv'
<1> DEFINE w == [win[a] EXCEPT !.closing = TRUE]
<1>1. a \in Windows!Open /\ win[a] \in Windows!Window
  BY WindowsTypes DEF WindowsInv
<1>2. w \in Windows!Window /\ w.rect = win[a].rect /\ w.minimized = win[a].minimized /\ w.closing
  BY <1>1 DEF Windows!Window
<1>3. win' = [win EXCEPT ![a] = w] /\ focused' = Windows!NextFocus(a) /\ asked' = asked \ {a}
      /\ UNCHANGED <<view, above, strayed, slipped, moves>>
  BY DEF Windows!Closing
<1> HIDE DEF w
<1>4. /\ win' \in [Apps -> Windows!Window \cup {None}] /\ win'[a] = w
      /\ \A b \in Apps \ {a} : win'[b] = win[b]
      /\ Windows!Open' = Windows!Open
  BY <1>1, <1>2, <1>3, OpenWritten DEF WindowsInv
<1>5. Windows!NextFocus(a) \in Windows!Open \cup {None, Gone}
  BY WindowsTypes DEF WindowsInv, Windows!NextFocus, Windows!TopMost
<1>6. Windows!TypeOK'
  BY <1>3, <1>4, <1>5, WindowsTypes DEF WindowsInv, Windows!TypeOK
<1>7. Windows!Lively' = Windows!Lively \ {a} /\ Fore' = Fore \ {a}
  <2>1. Windows!Lively' = Windows!Lively \ {a}
    BY <1>2, <1>4, WindowsTypes DEF WindowsInv, Windows!Lively
  <2>2. \A b \in Windows!Open : Windows!Shown(b)' <=> Windows!Shown(b)
    BY <1>2, <1>4, WindowsTypes DEF WindowsInv, Windows!Shown
  <2> QED  BY <2>1, <2>2, LivelyAreOpen DEF Fore
<1>8. Windows!FocusIsInFront'
  BY <1>1, <1>3, <1>4, <1>6, <1>7, NextIsFront DEF WindowsInv
<1>9. AllOnScreen'
  <2>1. \A b \in Windows!Open : win'[b].rect = win[b].rect
    BY <1>2, <1>4, WindowsTypes DEF WindowsInv
  <2> QED  BY <1>3, <1>4, <2>1
              DEF WindowsInv, AllOnScreen, AtHand, Windows!InSight, Windows!OnScreen, Windows!OnPhone
<1> QED  BY <1>6, <1>8, <1>9 DEF WindowsInv

\* A window is gone, with its place among the others.
LEMMA RemovedKeeps ==
    ASSUME WindowsInv, NEW a \in Apps, Windows!Removed(a)
    PROVE  WindowsInv'
<1>1. a \in Windows!Open /\ a \notin Windows!Lively
  BY DEF Windows!Removed
<1>2. win \in [Apps -> Windows!Window \cup {None}] /\ win' = [win EXCEPT ![a] = None]
  BY WindowsTypes DEF WindowsInv, Windows!Removed
<1>3. win' \in [Apps -> Windows!Window \cup {None}] /\ win'[a] = None
         /\ \A b \in Apps \ {a} : win'[b] = win[b]
  BY <1>2
<1>4. Windows!Open' = Windows!Open \ {a}
  BY <1>1, <1>3 DEF Windows!Open
<1>5. above' = Windows!Behind(a) /\ asked' = asked \ {a} /\ strayed' = strayed \ {a}
      /\ slipped' = slipped \ {a}
      /\ focused' = (IF focused = a THEN Gone ELSE focused) /\ UNCHANGED <<view, moves>>
  BY DEF Windows!Removed
<1>6. Windows!TypeOK'
  <2>1. /\ above' \subseteq Windows!Open' \X Windows!Open'
        /\ \A b, c \in Windows!Open' : <<b, c>> \in above' <=> b # c /\ <<c, b>> \notin above'
        /\ \A b, c, d \in Windows!Open' : <<b, c>> \in above' /\ <<c, d>> \in above'
              => <<b, d>> \in above'
    BY <1>1, <1>4, <1>5, RaisedBehind DEF WindowsInv
  <2> QED  BY <1>3, <1>4, <1>5, <2>1, WindowsTypes DEF WindowsInv, Windows!TypeOK
<1>7. Windows!Lively' = Windows!Lively /\ Fore' = Fore
  <2>1. Windows!Lively' = Windows!Lively
    BY <1>1, <1>3, <1>4, WindowsTypes DEF WindowsInv, Windows!Lively
  <2>2. \A b \in Windows!Lively : Windows!Shown(b)' <=> Windows!Shown(b)
    BY <1>1, <1>3, <1>4, LivelyAreOpen, WindowsTypes DEF WindowsInv, Windows!Shown
  <2> QED  BY <2>1, <2>2 DEF Fore
<1>8. Windows!FocusIsInFront'
  <2>1. CASE focused = a
    <3>1. Gone \notin Windows!Lively'
      BY <1>7, LivelyAreOpen, WindowsTypes DEF WindowsInv
    <3> QED  BY <1>5, <2>1, <3>1 DEF Windows!FocusIsInFront
  <2>2. CASE focused # a
    <3>1. \A b, c \in Windows!Open' : <<b, c>> \in above => <<b, c>> \in above'
      BY <1>4, <1>5 DEF Windows!Behind
    <3> QED  BY <1>5, <1>6, <1>7, <2>2, <3>1, FocusStays DEF WindowsInv
  <2> QED  BY <2>1, <2>2
<1>9. AllOnScreen'
  <2>1. \A b \in Windows!Open' \ strayed' : b \in Windows!Open \ strayed
           /\ win'[b].rect = win[b].rect /\ (b \in slipped => b \in slipped')
    BY <1>3, <1>4, <1>5, WindowsTypes DEF WindowsInv
  <2> QED  BY <1>5, <2>1 DEF WindowsInv, AllOnScreen, AtHand, Windows!InSight, Windows!OnScreen, Windows!OnPhone
<1> QED  BY <1>6, <1>8, <1>9 DEF WindowsInv

\* A window is put somewhere: it is shown as it was, and on the screen if need be.
LEMMA PutKeeps ==
    ASSUME WindowsInv, NEW a \in Windows!Open, NEW r \in Windows!Rect,
           NEW back \in Windows!Rect \cup {None}, NEW max \in BOOLEAN,
           Windows!Put(a, r, back, max), view' = view, asked' = asked, moves' \in 0 .. MaxMoves,
           strayed' \subseteq Windows!Open, strayed \subseteq strayed' \cup {a},
           slipped' \subseteq Windows!Open, slipped \subseteq slipped' \cup {a},
           a \in strayed' \/ Windows!OnPhone(view) \/ AtHand(r, a \in slipped'),
           \/ UNCHANGED <<above, focused>>
           \/ above' = Windows!Raise(a) /\ focused' = a /\ Windows!Shown(a)
    PROVE  WindowsInv'
<1> DEFINE w == [rect |-> r, restore |-> back, maximized |-> max,
                 minimized |-> win[a].minimized, closing |-> win[a].closing]
<1>1. a \in Apps /\ win[a] \in Windows!Window
  BY WindowsTypes DEF WindowsInv
<1>2. w \in Windows!Window /\ w.rect = r /\ w.minimized = win[a].minimized
         /\ w.closing = win[a].closing
  BY <1>1 DEF Windows!Window
<1>3. win' = [win EXCEPT ![a] = w]
  BY DEF Windows!Put
<1> HIDE DEF w
<1>4. /\ win' \in [Apps -> Windows!Window \cup {None}] /\ win'[a] = w
      /\ \A b \in Apps \ {a} : win'[b] = win[b]
      /\ Windows!Open' = Windows!Open
  BY <1>2, <1>3, OpenWritten DEF WindowsInv
<1>5. Windows!Lively' = Windows!Lively /\ Fore' = Fore
  <2>1. \A b \in Windows!Open : win'[b].closing = win[b].closing
           /\ win'[b].minimized = win[b].minimized
    BY <1>2, <1>4, WindowsTypes DEF WindowsInv
  <2>2. Windows!Lively' = Windows!Lively
    BY <1>4, <2>1, WindowsTypes DEF WindowsInv, Windows!Lively
  <2>3. \A b \in Windows!Open : Windows!Shown(b)' <=> Windows!Shown(b)
    BY <1>4, <2>1 DEF Windows!Shown
  <2> QED  BY <2>2, <2>3, LivelyAreOpen DEF Fore
<1>6. AllOnScreen'
  <2>1. \A b \in Windows!Open' \ {a} : b \in Windows!Open /\ win'[b].rect = win[b].rect
    BY <1>4, WindowsTypes DEF WindowsInv
  <2>2. a \in Windows!Open' \ strayed' /\ ~Windows!OnPhone(view)
           => AtHand(win'[a].rect, a \in slipped')
    BY <1>2, <1>4
  <2> QED  BY <2>1, <2>2, ScreenStays DEF WindowsInv
<1>7. CASE UNCHANGED <<above, focused>>
  <2>1. Windows!TypeOK'
    BY <1>4, <1>7, WindowsTypes DEF WindowsInv, Windows!TypeOK
  <2>2. Windows!FocusIsInFront'
    BY <1>5, <1>7, <2>1, FocusStays DEF WindowsInv
  <2> QED  BY <1>6, <2>1, <2>2 DEF WindowsInv
<1>8. CASE above' = Windows!Raise(a) /\ focused' = a /\ Windows!Shown(a)
  <2>1. /\ above' \subseteq Windows!Open' \X Windows!Open'
        /\ \A b, c \in Windows!Open' : <<b, c>> \in above' <=> b # c /\ <<c, b>> \notin above'
        /\ \A b, c, d \in Windows!Open' : <<b, c>> \in above' /\ <<c, d>> \in above'
              => <<b, d>> \in above'
        /\ \A b \in Windows!Open' \ {a} : <<a, b>> \in above'
    <3>1. Windows!Open' = Windows!Open \cup {a}
      BY <1>4
    <3> QED  BY <1>1, <1>8, <3>1, RaiseIsOrder DEF WindowsInv
  <2>2. Windows!TypeOK'
    BY <1>4, <1>8, <2>1, WindowsTypes DEF WindowsInv, Windows!TypeOK
  <2>3. ~win'[a].minimized
    BY <1>2, <1>4, <1>8 DEF Windows!Shown
  <2>4. Windows!FocusIsInFront'
    BY <1>4, <1>8, <2>1, <2>2, <2>3, RaisedIsFront
  <2> QED  BY <1>6, <2>2, <2>4 DEF WindowsInv
<1> QED  BY <1>7, <1>8

LEMMA MovesCount ==
    ASSUME Windows!TypeOK, Windows!Moving
    PROVE  moves' \in 0 .. MaxMoves
BY WindowsTypes, WindowsNumbers DEF Windows!Moving

LEMMA WindowHas ==
    ASSUME Windows!TypeOK, NEW a \in Windows!Open
    PROVE  /\ win[a] \in Windows!Window /\ win[a].rect \in Windows!Rect
                 /\ win[a].restore \in Windows!Rect \cup {None}
           /\ win[a].maximized \in BOOLEAN
<1>1. win[a] \in Windows!Window
  BY WindowsTypes
<1> QED  BY <1>1 DEF Windows!Window

\* What a window is restored to is on the screen, or it counts as strayed.
LEMMA ToggleMaximizeKeeps ==
    ASSUME WindowsInv, NEW a \in Apps, Windows!ToggleMaximize(a)
    PROVE  WindowsInv'
<1>1. a \in Windows!Open /\ view \in Sizes /\ moves' \in 0 .. MaxMoves
         /\ strayed \subseteq Windows!Open /\ slipped \subseteq Windows!Open
  BY MovesCount, WindowsTypes DEF WindowsInv, Windows!ToggleMaximize, Windows!Shown
<1>2. win[a].rect \in Windows!Rect /\ win[a].restore \in Windows!Rect \cup {None}
  BY <1>1, WindowHas DEF WindowsInv
<1>3. UNCHANGED <<view, above, focused, asked>> /\ slipped' = slipped \ {a}
  BY DEF Windows!ToggleMaximize
<1>4. CASE /\ win[a].maximized /\ win[a].restore # None
           /\ Windows!Put(a, win[a].restore, None, FALSE)
           /\ strayed' = IF win[a].restore = Windows!Clamped(win[a].restore, view)
                         THEN strayed ELSE strayed \cup {a}
  <2> DEFINE r == win[a].restore
  <2>1. r \in Windows!Rect
    BY <1>2, <1>4
  <2>2. strayed' \subseteq Windows!Open /\ strayed \subseteq strayed' \cup {a}
    BY <1>1, <1>4
  <2>3. a \in strayed' \/ Windows!OnPhone(view) \/ AtHand(r, a \in slipped')
    <3>1. r = Windows!Clamped(r, view) \/ a \in strayed'
      BY <1>4
    <3> HIDE DEF r
    <3> QED  BY <1>1, <2>1, <3>1, ClampedFits DEF Windows!OnScreen, AtHand
  <2>4. Windows!Put(a, r, None, FALSE)
    BY <1>4
  <2> HIDE DEF r
  <2> QED  BY <1>1, <1>3, <2>1, <2>2, <2>3, <2>4, PutKeeps
<1>5. CASE /\ Windows!Put(a, Windows!Filled(view), win[a].rect, TRUE)
           /\ strayed' = strayed \ {a}
  <2>1. Windows!Filled(view) \in Windows!Rect
           /\ (Windows!OnPhone(view) \/ AtHand(Windows!Filled(view), a \in slipped'))
    <3>1. view.w \in Nat /\ view.h \in Nat /\ Bar \in Nat
      BY <1>1, ViewIsSize, WindowsNumbers
    <3> QED  BY <1>1, <3>1, FilledFits DEF Windows!OnScreen, AtHand
  <2>2. strayed' \subseteq Windows!Open /\ strayed \subseteq strayed' \cup {a}
    BY <1>1, <1>5
  <2> QED  BY <1>1, <1>2, <1>3, <1>5, <2>1, <2>2, PutKeeps
<1> QED  BY <1>4, <1>5 DEF Windows!ToggleMaximize

LEMMA SnapKeeps ==
    ASSUME WindowsInv, NEW a \in Apps, NEW zone \in Windows!Zones,
           Windows!Snap(a, zone)
    PROVE  WindowsInv'
<1> DEFINE r == Windows!SnapRect(zone, view)
           back == IF win[a].restore = None THEN win[a].rect ELSE win[a].restore
           max == zone = "maximize"
<1>1. a \in Windows!Open /\ view \in Sizes /\ moves' \in 0 .. MaxMoves
         /\ strayed \subseteq Windows!Open /\ slipped \subseteq Windows!Open
  BY MovesCount, WindowsTypes DEF WindowsInv, Windows!Snap
<1>2. back \in Windows!Rect \cup {None} /\ max \in BOOLEAN
  BY <1>1, WindowHas DEF WindowsInv
<1>3. UNCHANGED <<view, above, focused, asked>> /\ strayed' = strayed \ {a}
         /\ slipped' = slipped \ {a} /\ Windows!Put(a, r, back, max)
  BY DEF Windows!Snap
<1>4. r \in Windows!Rect /\ (Windows!OnPhone(view) \/ AtHand(r, a \in slipped'))
  <2>1. view.w \in Nat /\ view.h \in Nat /\ Bar \in Nat
    BY <1>1, ViewIsSize, WindowsNumbers
  <2>2. r \in Windows!Rect /\ (~Windows!OnPhone(view)
           => r.x < view.w /\ Bar <= r.y /\ r.y < view.h /\ Windows!InSight(r))
    BY <1>1, SnapFits
  <2> HIDE DEF r
  <2> QED  BY <2>1, <2>2 DEF Windows!OnScreen, AtHand
<1> HIDE DEF r, back, max
<1> QED  BY <1>1, <1>2, <1>3, <1>4, PutKeeps

LEMMA PlacedKeeps ==
    ASSUME WindowsInv, NEW a \in Apps, NEW r \in Windows!Rect,
           AtHand(r, a \in slipped') \/ a \in strayed \/ a \in slipped',
           Windows!OnScreen(r) \/ a \in strayed,
           slipped' \subseteq Windows!Open, slipped \subseteq slipped' \cup {a},
           Windows!Placed(a, r)
    PROVE  WindowsInv'
<1>1. a \in Windows!Open /\ Windows!Shown(a) /\ moves' \in 0 .. MaxMoves
         /\ strayed \subseteq Windows!Open
  BY MovesCount, WindowsTypes DEF WindowsInv, Windows!Placed, Windows!Shown
<1>2. /\ UNCHANGED <<view, asked>> /\ Windows!Put(a, r, None, FALSE)
      /\ strayed' = IF Windows!OnScreen(r) /\ Windows!InSight(r) THEN strayed \ {a} ELSE strayed
      /\ above' = Windows!Raise(a) /\ focused' = a
  BY DEF Windows!Placed
<1>3. a \in strayed' \/ AtHand(r, a \in slipped')
  BY <1>2 DEF AtHand
<1>4. strayed' \subseteq Windows!Open /\ strayed \subseteq strayed' \cup {a}
  BY <1>1, <1>2
<1> QED  BY <1>1, <1>2, <1>3, <1>4, PutKeeps

LEMMA DragKeeps ==
    ASSUME WindowsInv, NEW a \in Apps, NEW p \in Points, Windows!Drag(a, p)
    PROVE  WindowsInv'
<1> DEFINE x == Windows!Least(view.w - 1, p.x)
           y == Windows!Most(Bar, Windows!Least(view.h - 1, p.y))
           r == [win[a].rect EXCEPT !.x = x, !.y = y]
<1>1. Windows!Placed(a, r) /\ Windows!Slip(a, r)
  BY DEF Windows!Drag
<1>2. a \in Windows!Open /\ view \in Sizes /\ ~Windows!OnPhone(view)
         /\ slipped \subseteq Windows!Open
  BY <1>1, WindowsTypes DEF WindowsInv, Windows!Placed, Windows!Shown
<1>3. view.w \in Int /\ view.h \in Int /\ Bar \in Int /\ view.h >= Bar + 2 /\ p.x \in Int
         /\ p.y \in Int
  BY <1>2, ViewIsSize, WindowsNumbers, DesktopAssumption
<1>4. x \in Int /\ y \in Int /\ x < view.w /\ Bar <= y /\ y < view.h
  BY <1>3 DEF Windows!Least, Windows!Most
<1>5. win[a].rect \in Windows!Rect
  BY <1>2, WindowHas DEF WindowsInv
<1> HIDE DEF x, y
<1>6. r \in Windows!Rect /\ Windows!OnScreen(r)
  BY <1>4, <1>5 DEF Windows!Rect, Windows!OnScreen
<1> HIDE DEF r
<1>7. /\ slipped' \subseteq Windows!Open /\ slipped \subseteq slipped' \cup {a}
      /\ AtHand(r, a \in slipped')
  BY <1>1, <1>2, <1>6 DEF Windows!Slip, AtHand
<1> QED  BY <1>1, <1>6, <1>7, PlacedKeeps

LEMMA ResizeKeeps ==
    ASSUME WindowsInv, NEW a \in Apps, NEW p \in Points, NEW dir \in Windows!Pulls,
           Windows!Resize(a, p, dir)
    PROVE  WindowsInv'
<1> DEFINE old == win[a].rect
           r == Windows!Stretched(old, p, dir)
<1>1. /\ Windows!Placed(a, r) /\ p.x \in 0 .. view.w - 1 /\ p.y \in 0 .. view.h - 1
      /\ slipped' = IF Windows!InSight(r) THEN slipped \ {a} ELSE slipped
  BY DEF Windows!Resize
<1>2. a \in Windows!Open /\ view \in Sizes /\ ~Windows!OnPhone(view)
         /\ (AtHand(old, a \in slipped) \/ a \in strayed) /\ slipped \subseteq Windows!Open
  BY <1>1, WindowsTypes DEF WindowsInv, AllOnScreen, Windows!Placed, Windows!Shown
<1>3. old \in Windows!Rect
  BY <1>2, WindowHas DEF WindowsInv
<1>4. 0 <= p.x /\ p.x < view.w /\ p.y < view.h
  BY <1>1, <1>2, ViewIsSize
<1> HIDE DEF old
<1>5. r \in Windows!Rect /\ (Windows!OnScreen(r) \/ a \in strayed)
      /\ (a \in strayed \/ a \in slipped \/ Windows!InSight(r))
  BY <1>2, <1>3, <1>4, StretchedFits DEF Windows!OnScreen, AtHand
<1> HIDE DEF r
<1>6. /\ slipped' \subseteq Windows!Open /\ slipped \subseteq slipped' \cup {a}
      /\ AtHand(r, a \in slipped') \/ a \in strayed
  BY <1>1, <1>2, <1>5 DEF AtHand
<1> QED  BY <1>1, <1>5, <1>6, PlacedKeeps

\* A window that is off the screen and takes another size is off it still, and one that
\* leaves it on the left is counted.
LEMMA RequestSizeKeeps ==
    ASSUME WindowsInv, NEW a \in Apps, NEW size \in Sizes, Windows!RequestSize(a, size)
    PROVE  WindowsInv'
<1> DEFINE width == Windows!Least(size.w, view.w)
           height == Windows!Least(size.h, view.h - Bar)
           r == [win[a].rect EXCEPT !.width = width, !.height = height]
<1>1. a \in Windows!Open /\ view \in Sizes /\ moves' \in 0 .. MaxMoves
         /\ strayed \subseteq Windows!Open /\ slipped \subseteq Windows!Open
  BY MovesCount, WindowsTypes DEF WindowsInv, Windows!RequestSize, Windows!Shown
<1>2. /\ UNCHANGED <<view, above, focused, asked, strayed>>
      /\ Windows!Put(a, r, None, FALSE) /\ Windows!Slip(a, r)
  BY DEF Windows!RequestSize
<1>3. win[a].rect \in Windows!Rect
  BY <1>1, WindowHas DEF WindowsInv
<1>4. view.w \in Nat \ {0} /\ view.h \in Int /\ Bar \in Int
         /\ size.w \in Nat \ {0} /\ size.h \in Int
  BY <1>1, ViewIsSize, WindowsNumbers
<1>5. width \in Nat \ {0} /\ height \in Int
  BY <1>4 DEF Windows!Least
<1>6. a \in strayed \/ Windows!OnPhone(view) \/ Windows!OnScreen(win[a].rect)
  BY <1>1 DEF WindowsInv, AllOnScreen, AtHand
<1> HIDE DEF width, height
<1>7. r \in Windows!Rect /\ r.x = win[a].rect.x /\ r.y = win[a].rect.y
  BY <1>3, <1>5 DEF Windows!Rect
<1> HIDE DEF r
<1>8. a \in strayed' \/ Windows!OnPhone(view) \/ AtHand(r, a \in slipped')
  BY <1>2, <1>6, <1>7 DEF Windows!OnScreen, AtHand, Windows!Slip
<1>9. slipped' \subseteq Windows!Open /\ slipped \subseteq slipped' \cup {a}
  BY <1>1, <1>2 DEF Windows!Slip
<1> QED  BY <1>1, <1>2, <1>7, <1>8, <1>9, PutKeeps

LEMMA ReflowedFits ==
    ASSUME NEW v \in Sizes, ~Windows!OnPhone(v), NEW w \in Windows!Window, NEW leaving \in BOOLEAN,
           NEW n \in Windows!Reflowed(w, v, leaving)
    PROVE  /\ n \in Windows!Window /\ n.minimized = w.minimized /\ n.closing = w.closing
           /\ n.rect.x < v.w /\ Bar <= n.rect.y /\ n.rect.y < v.h /\ Windows!InSight(n.rect)
<1>1. w.rect \in Windows!Rect
  BY DEF Windows!Window
<1>2. CASE leaving
  <2>0. n \in {[w EXCEPT !.rect = r, !.maximized = FALSE] : r \in Windows!Places(v)}
    BY <1>2, Zenon DEF Windows!Reflowed
  <2>1. PICK r \in Windows!Places(v) : n = [w EXCEPT !.rect = r, !.maximized = FALSE]
    BY <2>0, Zenon
  <2>2. r \in Windows!Rect /\ r.x < v.w /\ Bar <= r.y /\ r.y < v.h /\ Windows!InSight(r)
    BY PlacesFit
  <2> QED  BY <2>1, <2>2 DEF Windows!Window
<1>3. CASE ~leaving
  <2> DEFINE r == IF w.maximized THEN Windows!Filled(v) ELSE Windows!Clamped(w.rect, v)
  <2>1. n = [w EXCEPT !.rect = r]
    BY <1>3 DEF Windows!Reflowed
  <2>2. Windows!Filled(v) \in Windows!Rect /\ Windows!Filled(v).x < v.w
           /\ Bar <= Windows!Filled(v).y /\ Windows!Filled(v).y < v.h
           /\ Windows!InSight(Windows!Filled(v))
    <3>1. v.w \in Nat /\ v.h \in Nat /\ Bar \in Nat
      BY ViewIsSize, WindowsNumbers
    <3> QED  BY <3>1, FilledFits
  <2>3. Windows!Clamped(w.rect, v) \in Windows!Rect /\ Windows!Clamped(w.rect, v).x < v.w
        /\ Bar <= Windows!Clamped(w.rect, v).y /\ Windows!Clamped(w.rect, v).y < v.h
        /\ Windows!InSight(Windows!Clamped(w.rect, v))
    BY <1>1, ClampedFits
  <2>4. r \in Windows!Rect /\ r.x < v.w /\ Bar <= r.y /\ r.y < v.h /\ Windows!InSight(r)
    BY <2>2, <2>3
  <2> HIDE DEF r
  <2> QED  BY <2>1, <2>4 DEF Windows!Window
<1> QED  BY <1>2, <1>3

\* Every window that is open when the viewport changes is on the screen after it.
LEMMA ResizeViewportKeeps ==
    ASSUME WindowsInv, NEW v \in Sizes, Windows!ResizeViewport(v)
    PROVE  WindowsInv'
<1>1. UNCHANGED <<above, focused, asked>> /\ view' = v /\ moves' \in 0 .. MaxMoves
  BY MovesCount DEF WindowsInv, Windows!ResizeViewport
<1>2. CASE Windows!OnPhone(v)
  <2>1. win' = win /\ strayed' = strayed /\ slipped' = slipped
    BY <1>2 DEF Windows!ResizeViewport
  <2>2. Windows!Open' = Windows!Open /\ Windows!Lively' = Windows!Lively /\ Fore' = Fore
    BY <2>1 DEF Windows!Open, Windows!Lively, Fore, Windows!Shown
  <2>3. Windows!TypeOK'
    BY <1>1, <2>1, <2>2, WindowsTypes DEF WindowsInv, Windows!TypeOK
  <2>4. Windows!FocusIsInFront'
    BY <1>1, <2>2, <2>3, FocusStays DEF WindowsInv
  <2>5. AllOnScreen'
    BY <1>1, <1>2 DEF AllOnScreen, Windows!OnPhone
  <2> QED  BY <2>3, <2>4, <2>5 DEF WindowsInv
<1>3. CASE ~Windows!OnPhone(v)
  <2> DEFINE leaving == Windows!OnPhone(view)
  <2>1. /\ strayed' = {} /\ slipped' = {}
        /\ win' \in [Apps -> UNION {Windows!Reflowed(win[a], v,
              leaving) : a \in Windows!Open} \cup {None}]
        /\ \A a \in Apps : IF a \in Windows!Open
              THEN win'[a] \in Windows!Reflowed(win[a], v, leaving)
                           ELSE win'[a] = None
    BY <1>3 DEF Windows!ResizeViewport
  <2>2. leaving \in BOOLEAN
    BY DEF Windows!OnPhone
  <2> HIDE DEF leaving
  <2>3. \A a \in Windows!Open : win[a] \in Windows!Window /\ a \in Apps
    BY WindowsTypes DEF WindowsInv
  <2>4. ASSUME NEW a \in Windows!Open
        PROVE  /\ win'[a] \in Windows!Window /\ win'[a].minimized = win[a].minimized
               /\ win'[a].closing = win[a].closing
               /\ win'[a].rect.x < v.w /\ Bar <= win'[a].rect.y /\ win'[a].rect.y < v.h
               /\ Windows!InSight(win'[a].rect)
    <3>1. win'[a] \in Windows!Reflowed(win[a], v, leaving)
      BY <2>1, <2>3
    <3> QED  BY <1>3, <2>2, <2>3, <3>1, ReflowedFits
  <2>5. win' \in [Apps -> Windows!Window \cup {None}]
    <3>1. \A a \in Apps : win'[a] \in Windows!Window \cup {None}
      BY <2>1, <2>4
    <3> QED  BY <2>1, <3>1
  <2>6. Windows!Open' = Windows!Open
    BY <2>1, <2>4, WindowsNumbers DEF Windows!Open
  <2>7. Windows!Lively' = Windows!Lively /\ Fore' = Fore
    <3>1. Windows!Lively' = Windows!Lively
      BY <2>4, <2>6 DEF Windows!Lively
    <3>2. \A a \in Windows!Open : Windows!Shown(a)' <=> Windows!Shown(a)
      BY <2>4, <2>6 DEF Windows!Shown
    <3> QED  BY <3>1, <3>2, LivelyAreOpen DEF Fore
  <2>8. Windows!TypeOK'
    BY <1>1, <2>1, <2>5, <2>6, WindowsTypes DEF WindowsInv, Windows!TypeOK
  <2>9. Windows!FocusIsInFront'
    BY <1>1, <2>7, <2>8, FocusStays DEF WindowsInv
  <2>10. AllOnScreen'
    BY <1>1, <2>4, <2>6 DEF AllOnScreen, AtHand, Windows!OnScreen, Windows!InSight
  <2> QED  BY <2>8, <2>9, <2>10 DEF WindowsInv
<1> QED  BY <1>2, <1>3

\* Only what is asked changes.
LEMMA AskedKeeps ==
    ASSUME WindowsInv, UNCHANGED <<view, win, above, focused, strayed, slipped, moves>>,
           asked' \subseteq Windows!Open
    PROVE  WindowsInv'
<1>1. Windows!Open' = Windows!Open /\ Windows!Lively' = Windows!Lively /\ Fore' = Fore
  BY DEF Windows!Open, Windows!Lively, Fore, Windows!Shown
<1>2. Windows!TypeOK'
  BY <1>1, WindowsTypes DEF WindowsInv, Windows!TypeOK
<1>3. Windows!FocusIsInFront'
  BY <1>1, <1>2, FocusStays DEF WindowsInv
<1>4. AllOnScreen'
  BY <1>1 DEF WindowsInv, AllOnScreen, AtHand, Windows!InSight, Windows!OnScreen, Windows!OnPhone
<1> QED  BY <1>2, <1>3, <1>4 DEF WindowsInv

LEMMA CloseKeeps ==
    ASSUME WindowsInv, NEW a \in Apps,
           Windows!PressClose(a) \/ Windows!Allowed(a) \/ Windows!Declined(a) \/ Windows!TimesOut(a)
              \/ Windows!CloseOutright(a)
    PROVE  WindowsInv'
<1>1. asked \subseteq Windows!Open /\ Windows!Lively \subseteq Windows!Open
  BY LivelyAreOpen, WindowsTypes DEF WindowsInv
<1>2. CASE Windows!PressClose(a)
  BY <1>1, <1>2, AskedKeeps DEF Windows!PressClose
<1>3. CASE Windows!Declined(a)
  BY <1>1, <1>3, AskedKeeps DEF Windows!Declined
<1>4. CASE Windows!Allowed(a) \/ Windows!TimesOut(a) \/ Windows!CloseOutright(a)
  BY <1>1, <1>4, ClosingKeeps
     DEF Windows!Allowed, Windows!TimesOut, Windows!CloseOutright
<1> QED  BY <1>2, <1>3, <1>4

LEMMA WindowsStart == ASSUME Windows!Init PROVE WindowsInv
<1>1. Windows!Open = {} /\ win \in [Apps -> Windows!Window \cup {None}]
  BY DEF Windows!Init, Windows!Open
<1>2. Windows!TypeOK
  BY <1>1, WindowsNumbers DEF Windows!Init, Windows!TypeOK
<1>3. AllOnScreen /\ Windows!FocusIsInFront
  BY <1>1, LivelyAreOpen, WindowsNumbers
     DEF Windows!Init, AllOnScreen, Windows!FocusIsInFront
<1> QED  BY <1>2, <1>3 DEF WindowsInv

LEMMA WindowsStep == ASSUME WindowsInv, [Windows!Next]_windowsVars PROVE WindowsInv'
<1>1. CASE Windows!Next
  BY <1>1, OpenAppKeeps, FocusKeeps, MinimizeKeeps, ToggleMaximizeKeeps, SnapKeeps,
     DragKeeps, ResizeKeeps, RequestSizeKeeps, CloseKeeps, RemovedKeeps, CycleKeeps,
     ResizeViewportKeeps
     DEF Windows!Next
<1>2. CASE UNCHANGED windowsVars
  <2>1. asked' \subseteq Windows!Open
    BY <1>2, WindowsTypes DEF WindowsInv, windowsVars
  <2> QED  BY <1>2, <2>1, AskedKeeps DEF windowsVars
<1> QED  BY <1>1, <1>2

LEMMA WindowsInvIsRight == ASSUME WindowsInv
                           PROVE Windows!TypeOK /\ Windows!Reachable /\ Windows!FocusIsInFront
BY DEF WindowsInv, AllOnScreen, AtHand, Windows!Reachable

\* windows.ts, AppFrame.tsx: of every window that is shown and was not put back where a
\* larger screen had it, the title bar is neither above, below nor right of the screen,
\* however it was moved, resized or snapped, and whatever the screen became; nor left
\* of it, unless it was dragged there or its app made it narrower there. The window with
\* the focus is the front one.
THEOREM WindowsStayAtHand == PartsSpec => []WindowsAtHand
<1>1. WindowsInv => WindowsAtHand
  BY WindowsInvIsRight DEF WindowsAtHand
<1>2. PartsInit => WindowsInv
  BY WindowsStart DEF PartsInit
<1>3. WindowsInv /\ [PartsNext]_partsVars => WindowsInv'
  BY WindowsStep, PartSteps
<1> QED  BY <1>1, <1>2, <1>3, PTL DEF PartsSpec

-----------------------------------------------------------------------------
(* Notices *)

LEMMA NoticesNumbers ==
    /\ Cap \in Nat /\ Limit \in Nat /\ MaxNotices \in Nat /\ MaxAsked \in Nat
    /\ MaxMishaps \in Nat /\ None \notin Keys
BY DesktopAssumption

\* The part counts as the library does.
LEMMA NoticesCount ==
    ASSUME NEW S
    PROVE  Notices!Cardinality(S) = Cardinality(S)
BY DEF Notices!Cardinality, Cardinality

\* Rows are told apart by their numbers, which were given out.
Apart ==
    /\ IsFiniteSet(rows) /\ IsFiniteSet(items) /\ IsFiniteSet(answer)
    /\ \A r \in rows : r.id <= made
    /\ \A q, r \in rows : q.id = r.id => q = r

\* A condition that lasts has one unread row.
OneUnread ==
    \A q, r \in rows : q.key \in Keys /\ q.key = r.key /\ ~q.read /\ ~r.read => q = r

\* A request on its way takes the row out.
Going(id) == [op |-> "clear"] \in requests \/ [op |-> "remove", id |-> id] \in requests

OnTheWire(id) == \E i \in 1 .. Len(wire) : wire[i] = id

\* Where a row is that the list does not have yet, or has no longer.
Shown ==
    torn = {} =>
        /\ hydrating = "answered" => \A r \in rows : r.id \in Notices!IdsOf(answer)
        /\ hydrating = "done" =>
              \A r \in rows : r.id \in Notices!IdsOf(items) \/ OnTheWire(r.id) \/ Going(r.id)

NoticesInv == Notices!TypeOK /\ Apart /\ OneUnread /\ Cardinality(rows) <= Cap /\ Shown

LEMMA NoWire == <<>> \in Seq(Notices!Ids)
OBVIOUS

LEMMA NoticesTypes ==
    ASSUME Notices!TypeOK
    PROVE  /\ rows \subseteq Notices!Rows /\ items \subseteq Notices!Items
                 /\ wire \in Seq(Notices!Ids)
           /\ online \in BOOLEAN /\ hydrating \in {"asked", "answered", "done"}
           /\ answer \subseteq Notices!Items /\ requests \subseteq Notices!Requests
           /\ torn \subseteq {"offline", "hydrate", "failed", "crowded"}
           /\ made \in 0 .. MaxNotices /\ made \in Nat /\ sent \in 0 .. MaxAsked
                 /\ mishaps \in 0 .. MaxMishaps
BY NoticesNumbers DEF Notices!TypeOK

\* Of what is told apart by its number, the newest n are at most n.
LEMMA NewestAreFew ==
    ASSUME NEW S, IsFiniteSet(S), NEW n \in Nat, \A r \in S : r.id \in Nat,
           \A q, r \in S : q.id = r.id => q = r
    PROVE  IsFiniteSet(Notices!Newest(S, n)) /\ Cardinality(Notices!Newest(S, n)) <= n
<1> DEFINE T == Notices!Newest(S, n)
<1>1. T \subseteq S /\ IsFiniteSet(T) /\ Cardinality(T) \in Nat
  BY FS_Subset, FS_CardinalityType DEF Notices!Newest
<1>2. CASE T = {}
  BY <1>1, <1>2, FS_EmptySet
<1>3. CASE T # {}
  <2> DEFINE N == {r.id : r \in T}
  <2>1. N \subseteq Nat /\ N # {}
    BY <1>1, <1>3
  <2>2. PICK x \in N : \A y \in N : x <= y
    BY <2>1, LeastNatural
  <2>3. PICK r \in T : x = r.id
    BY <2>2
  <2> DEFINE G == {q \in S : q.id > r.id}
  <2>4. T \ {r} \subseteq G
    <3>1. \A q \in T : q.id >= r.id /\ (q.id = r.id => q = r) /\ q.id \in Nat /\ q \in S
      BY <1>1, <2>2, <2>3
    <3> QED  BY <1>1, <2>3, <3>1
  <2>5. Cardinality(G) < n
    BY <2>3, NoticesCount DEF Notices!Newest
  <2>6. IsFiniteSet(G) /\ Cardinality(G) \in Nat
    <3>1. G \subseteq S
      OBVIOUS
    <3> QED  BY <3>1, FS_Subset, FS_CardinalityType
  <2> HIDE DEF G, T
  <2>7. Cardinality(T \ {r}) <= Cardinality(G) /\ IsFiniteSet(T \ {r})
    BY <2>4, <2>6, FS_Subset
  <2>8. Cardinality(T \ {r}) = Cardinality(T) - 1
    BY <1>1, <2>3, FS_RemoveElement
  <2>9. Cardinality(T) <= n
    BY <1>1, <2>5, <2>6, <2>7, <2>8
  <2> QED  BY <1>1, <2>9 DEF T
<1> QED  BY <1>2, <1>3

\* Those that are no more than n are all among the newest.
LEMMA NewestAreAll ==
    ASSUME NEW S, IsFiniteSet(S), NEW n \in Nat, Cardinality(S) <= n, \A r \in S : r.id \in Nat
    PROVE  Notices!Newest(S, n) = S
<1>1. ASSUME NEW r \in S PROVE Cardinality({q \in S : q.id > r.id}) < n
  <2> DEFINE G == {q \in S : q.id > r.id}
  <2>1. G \subseteq S \ {r}
    OBVIOUS
  <2>2. IsFiniteSet(S \ {r}) /\ Cardinality(S \ {r}) = Cardinality(S) - 1
    BY FS_RemoveElement
  <2> HIDE DEF G
  <2>3. Cardinality(G) <= Cardinality(S \ {r}) /\ IsFiniteSet(G)
    BY <2>1, <2>2, FS_Subset
  <2>4. Cardinality(G) \in Nat /\ Cardinality(S) \in Nat
    BY <2>3, FS_CardinalityType
  <2>5. Cardinality(G) < n
    BY <2>2, <2>3, <2>4
  <2> QED  BY <2>5 DEF G
<1> QED  BY <1>1, NoticesCount DEF Notices!Newest

\* Reading them all changes no number.
LEMMA ReadingAll ==
    ASSUME NEW S, IsFiniteSet(S), NEW T, T = {[r EXCEPT !.read = TRUE] : r \in S}
    PROVE  IsFiniteSet(T) /\ Cardinality(T) <= Cardinality(S)
<1> DEFINE f == [r \in S |-> [r EXCEPT !.read = TRUE]]
<1>1. f \in [S -> T] /\ \A t \in T : \E s \in S : f[s] = t
  OBVIOUS
<1>2. f \in Surjection(S, T)
  BY <1>1 DEF Surjection
<1> HIDE DEF f
<1> QED  BY <1>2, FS_Surjection

\* The numbers of a list that is made of rows, and that it is finite.
LEMMA ListOfRows ==
    ASSUME NEW S, IsFiniteSet(S), S \subseteq Notices!Rows, NEW T,
           T = {[id |-> r.id, read |-> r.read] : r \in S}
    PROVE  IsFiniteSet(T) /\ T \subseteq Notices!Items /\ Notices!IdsOf(T) = Notices!IdsOf(S)
<1> DEFINE f == [r \in S |-> [id |-> r.id, read |-> r.read]]
<1>1. f \in [S -> T] /\ \A t \in T : \E s \in S : f[s] = t
  OBVIOUS
<1>2. f \in Surjection(S, T)
  BY <1>1 DEF Surjection
<1>3. IsFiniteSet(T)
  <2> HIDE DEF f
  <2> QED  BY <1>2, FS_Surjection
<1>4. T \subseteq Notices!Items
  BY DEF Notices!Rows, Notices!Items
<1>5. ASSUME NEW x \in Notices!IdsOf(S) PROVE x \in Notices!IdsOf(T)
  <2>1. PICK r \in S : x = r.id
    BY DEF Notices!IdsOf
  <2>2. [id |-> r.id, read |-> r.read] \in T
    OBVIOUS
  <2> QED  BY <2>1, <2>2 DEF Notices!IdsOf
<1>6. ASSUME NEW x \in Notices!IdsOf(T) PROVE x \in Notices!IdsOf(S)
  <2>1. PICK t \in T : x = t.id
    BY DEF Notices!IdsOf
  <2>2. PICK r \in S : t = [id |-> r.id, read |-> r.read]
    OBVIOUS
  <2> QED  BY <2>1, <2>2 DEF Notices!IdsOf
<1> QED  BY <1>3, <1>4, <1>5, <1>6

\* A step that only takes rows away, and says nothing of the others.
LEMMA RowsShrink ==
    ASSUME Apart, OneUnread, Cardinality(rows) <= Cap, rows' \subseteq rows, made' = made,
           Notices!TypeOK,
           IsFiniteSet(items'), IsFiniteSet(answer')
    PROVE  Apart' /\ OneUnread' /\ Cardinality(rows') <= Cap
<1>1. IsFiniteSet(rows') /\ Cardinality(rows') <= Cardinality(rows)
      /\ Cardinality(rows) \in Nat /\ Cardinality(rows') \in Nat
  BY FS_Subset, FS_CardinalityType DEF Apart
<1>2. Cardinality(rows') <= Cap
  BY <1>1, NoticesNumbers
<1> QED  BY <1>1, <1>2 DEF Apart, OneUnread

\* A notice is stored, and pushed to a desktop that is there.
LEMMA NotifyKeeps ==
    ASSUME NoticesInv, NEW cond \in Keys \cup {None}, Notices!Notify(cond)
    PROVE  NoticesInv'
<1>1. made \in Nat /\ made + 1 \in Notices!Ids /\ made' = made + 1 /\ made' \in 0 .. MaxNotices
  BY NoticesTypes, NoticesNumbers DEF NoticesInv, Notices!Notify, Notices!Ids
<1> DEFINE new == [id |-> made + 1, key |-> cond, read |-> FALSE]
           kept == {r \in rows : cond = None \/ r.key # cond \/ r.read}
<1>2. Notices!Create(cond) = kept \cup {new} /\ kept \subseteq rows /\ new \in Notices!Rows
  BY <1>1 DEF Notices!Create, Notices!Rows
<1>3. rows \subseteq Notices!Rows /\ IsFiniteSet(rows) /\ \A r \in rows : r.id \in Nat
         /\ r.id <= made
  BY NoticesTypes, NoticesNumbers DEF NoticesInv, Apart, Notices!Rows, Notices!Ids
<1>4. IsFiniteSet(Notices!Create(cond)) /\ Notices!Create(cond) \subseteq Notices!Rows
      /\ \A r \in Notices!Create(cond) : r.id \in Nat /\ r.id <= made + 1
  <2>1. IsFiniteSet(kept)
    BY <1>2, <1>3, FS_Subset
  <2>2. IsFiniteSet(kept \cup {new})
    BY <2>1, FS_AddElement
  <2>3. \A r \in kept : r.id \in Nat /\ r.id <= made + 1 /\ r \in Notices!Rows
    BY <1>1, <1>2, <1>3
  <2>4. new.id = made + 1
    OBVIOUS
  <2> HIDE DEF new, kept
  <2> QED  BY <1>1, <1>2, <2>2, <2>3, <2>4
<1>5. \A q, r \in Notices!Create(cond) : q.id = r.id => q = r
  <2>1. \A r \in kept : r.id < new.id /\ r.id \in Nat
    BY <1>1, <1>2, <1>3
  <2>2. \A q, r \in kept : q.id = r.id => q = r
    BY <1>2 DEF NoticesInv, Apart
  <2> HIDE DEF new, kept
  <2> QED  BY <1>1, <1>2, <2>1, <2>2
<1>6. \A q, r \in Notices!Create(cond) : q.key \in Keys /\ q.key = r.key /\ ~q.read /\ ~r.read
         => q = r
  <2>1. \A q, r \in kept : q.key \in Keys /\ q.key = r.key /\ ~q.read /\ ~r.read => q = r
    BY <1>2 DEF NoticesInv, OneUnread
  <2>2. \A r \in kept : ~(new.key \in Keys /\ new.key = r.key /\ ~r.read)
    BY NoticesNumbers
  <2> HIDE DEF new, kept
  <2> QED  BY <1>2, <2>1, <2>2
<1>7. rows' = Notices!Newest(Notices!Create(cond), Cap) /\ rows' \subseteq Notices!Create(cond)
  BY DEF Notices!Notify, Notices!Newest
<1>8. IsFiniteSet(rows') /\ Cardinality(rows') <= Cap
  BY <1>4, <1>5, <1>7, NewestAreFew, NoticesNumbers
<1>9. Notices!TypeOK'
  <2>1. wire' \in Seq(Notices!Ids)
    BY <1>1, NoticesTypes DEF NoticesInv, Notices!Notify
  <2>2. torn' \subseteq {"offline", "hydrate", "failed", "crowded"}
    BY NoticesTypes DEF NoticesInv, Notices!Notify
  <2>3. rows' \subseteq Notices!Rows
    BY <1>4, <1>7
  <2> QED  BY <1>1, <2>1, <2>2, <2>3, NoticesTypes
              DEF NoticesInv, Notices!Notify, Notices!TypeOK
<1>10. Apart' /\ OneUnread'
  <2>1. Apart'
    BY <1>1, <1>4, <1>5, <1>7, <1>8 DEF NoticesInv, Apart, Notices!Notify
  <2>2. OneUnread'
    BY <1>6, <1>7 DEF OneUnread
  <2> QED  BY <2>1, <2>2
<1>11. Shown'
  <2> SUFFICES ASSUME torn' = {}
               PROVE  /\ hydrating' = "answered" => \A r \in rows' : r.id \in Notices!IdsOf(answer')
                      /\ hydrating' = "done" => \A r \in rows' :
                            r.id \in Notices!IdsOf(items') \/ OnTheWire(r.id)' \/ Going(r.id)'
    BY DEF Shown
  <2>1. torn = {} /\ online = TRUE /\ hydrating = "done" /\ wire' = Append(wire, made + 1)
    BY NoticesTypes DEF NoticesInv, Notices!Notify
  <2>2. /\ \A r \in rows : r.id \in Notices!IdsOf(items) \/ OnTheWire(r.id) \/ Going(r.id)
        /\ items' = items /\ requests' = requests /\ hydrating' = "done"
    BY <2>1 DEF NoticesInv, Shown, Notices!Notify
  <2>3. wire \in Seq(Notices!Ids) /\ Len(wire) \in Nat /\ Len(wire') = Len(wire) + 1
        /\ wire'[Len(wire) + 1] = made + 1 /\ \A i \in 1 .. Len(wire) : wire'[i] = wire[i]
    BY <1>1, <2>1, NoticesTypes DEF NoticesInv
  <2>4. ASSUME NEW r \in rows'
        PROVE  r.id \in Notices!IdsOf(items') \/ OnTheWire(r.id)' \/ Going(r.id)'
    <3>1. CASE r \in rows
      <4>1. OnTheWire(r.id) => OnTheWire(r.id)'
        BY <2>3 DEF OnTheWire
      <4>2. Going(r.id) => Going(r.id)'
        BY <2>2 DEF Going
      <4> QED  BY <2>2, <3>1, <4>1, <4>2
    <3>2. CASE r = new
      <4>1. r.id = made + 1 /\ Len(wire) + 1 \in 1 .. Len(wire')
        BY <2>3, <3>2
      <4> QED  BY <2>3, <4>1 DEF OnTheWire
    <3> QED  BY <1>2, <1>7, <3>1, <3>2
  <2> QED  BY <2>2, <2>4
<1> QED  BY <1>8, <1>9, <1>10, <1>11 DEF NoticesInv, Notices!Notify

\* The load: what it answers is every row that is then there.
LEMMA AnswerHydrateKeeps ==
    ASSUME NoticesInv, Notices!AnswerHydrate
    PROVE  NoticesInv'
<1> DEFINE some == Notices!Newest(rows, Limit)
<1>1. rows \subseteq Notices!Rows /\ IsFiniteSet(rows) /\ \A r \in rows : r.id \in Nat
  BY NoticesTypes, NoticesNumbers DEF NoticesInv, Apart, Notices!Rows, Notices!Ids
<1>2. some \subseteq rows /\ IsFiniteSet(some)
  BY <1>1, FS_Subset DEF Notices!Newest
<1>3. answer' = {[id |-> r.id, read |-> r.read] : r \in some}
  BY DEF Notices!AnswerHydrate
<1>4. IsFiniteSet(answer') /\ answer' \subseteq Notices!Items
         /\ Notices!IdsOf(answer') = Notices!IdsOf(some)
  <2> HIDE DEF some
  <2> QED  BY <1>1, <1>2, <1>3, ListOfRows
<1>5. Notices!TypeOK'
  BY <1>4, NoticesTypes DEF NoticesInv, Notices!AnswerHydrate, Notices!TypeOK
<1>6. Apart' /\ OneUnread' /\ Cardinality(rows') <= Cap
  BY <1>4 DEF NoticesInv, Apart, OneUnread, Notices!AnswerHydrate
<1>7. Shown'
  <2> SUFFICES ASSUME torn' = {}
               PROVE  \A r \in rows' : r.id \in Notices!IdsOf(answer')
    BY DEF Shown, Notices!AnswerHydrate
  <2>1. Cardinality(rows) <= Limit
    BY NoticesCount DEF Notices!AnswerHydrate
  <2>2. some = rows
    BY <1>1, <2>1, NewestAreAll, NoticesNumbers
  <2> QED  BY <1>4, <2>2 DEF Notices!IdsOf, Notices!AnswerHydrate
<1> QED  BY <1>5, <1>6, <1>7 DEF NoticesInv

LEMMA HydratedKeeps ==
    ASSUME NoticesInv, Notices!Hydrated
    PROVE  NoticesInv'
<1>1. Notices!TypeOK'
  BY NoticesTypes DEF NoticesInv, Notices!Hydrated, Notices!TypeOK
<1>2. Apart' /\ OneUnread' /\ Cardinality(rows') <= Cap
  BY FS_EmptySet DEF NoticesInv, Apart, OneUnread, Notices!Hydrated
<1>3. Shown'
  BY DEF NoticesInv, Shown, Notices!Hydrated
<1> QED  BY <1>1, <1>2, <1>3 DEF NoticesInv

LEMMA HydrateFailsKeeps ==
    ASSUME NoticesInv, Notices!HydrateFails
    PROVE  NoticesInv'
<1>1. Notices!TypeOK'
  BY NoticesTypes, NoticesNumbers
     DEF NoticesInv, Notices!HydrateFails, Notices!Upset, Notices!TypeOK
<1>2. Apart' /\ OneUnread' /\ Cardinality(rows') <= Cap
  BY FS_EmptySet DEF NoticesInv, Apart, OneUnread, Notices!HydrateFails
<1>3. torn' # {}
  BY DEF Notices!HydrateFails
<1> QED  BY <1>1, <1>2, <1>3 DEF NoticesInv, Shown

\* What is received is in the list, and the list stays whole.
LEMMA ReceiveKeeps ==
    ASSUME NoticesInv, Notices!Receive
    PROVE  NoticesInv'
<1> DEFINE new == [id |-> Head(wire), read |-> FALSE]
           more == items \cup {new}
<1>1. /\ wire \in Seq(Notices!Ids) /\ wire # <<>> /\ Head(wire) \in Notices!Ids
            /\ wire' = Tail(wire)
      /\ Tail(wire) \in Seq(Notices!Ids) /\ new \in Notices!Items
  BY NoticesTypes DEF NoticesInv, Notices!Receive, Notices!Items
<1>2. IsFiniteSet(items) /\ items \subseteq Notices!Items
  BY NoticesTypes DEF NoticesInv, Apart
<1>3. IsFiniteSet(more) /\ more \subseteq Notices!Items /\ \A r \in more : r.id \in Nat
  <2>1. IsFiniteSet(more)
    <3> HIDE DEF new
    <3> QED  BY <1>2, FS_AddElement
  <2>2. more \subseteq Notices!Items
    BY <1>1, <1>2
  <2> QED  BY <2>1, <2>2, NoticesNumbers DEF Notices!Items, Notices!Ids
<1>4. Notices!Newest(more, Cap) \subseteq more
  BY DEF Notices!Newest
<1>5. IsFiniteSet(items') /\ items' \subseteq Notices!Items
  <2>1. items' = items \/ items' = Notices!Newest(more, Cap)
    BY DEF Notices!Receive
  <2> QED  BY <1>2, <1>3, <1>4, <2>1, FS_Subset
<1>6. Notices!TypeOK'
  BY <1>1, <1>5, NoticesTypes DEF NoticesInv, Notices!Receive, Notices!TypeOK
<1>7. Apart' /\ OneUnread' /\ Cardinality(rows') <= Cap
  BY <1>5 DEF NoticesInv, Apart, OneUnread, Notices!Receive
<1>8. Shown'
  <2> SUFFICES ASSUME torn' = {}
               PROVE  /\ hydrating' = "answered" => \A r \in rows' : r.id \in Notices!IdsOf(answer')
                      /\ hydrating' = "done" => \A r \in rows' :
                            r.id \in Notices!IdsOf(items') \/ OnTheWire(r.id)' \/ Going(r.id)'
    BY DEF Shown
  <2>1. torn = {} /\ (Head(wire) \in Notices!IdsOf(items) \/ Cardinality(more) <= Cap)
    BY NoticesCount DEF Notices!Receive
  <2>2. Notices!IdsOf(items) \subseteq Notices!IdsOf(items') /\ Head(wire) \in Notices!IdsOf(items')
    <3>1. CASE Head(wire) \in Notices!IdsOf(items)
      BY <3>1 DEF Notices!Receive
    <3>2. CASE Head(wire) \notin Notices!IdsOf(items)
      <4>1. items' = Notices!Newest(more, Cap) /\ Cardinality(more) <= Cap
        BY <2>1, <3>2 DEF Notices!Receive
      <4>2. items' = more
        BY <1>3, <4>1, NewestAreAll, NoticesNumbers
      <4>3. new \in more /\ items \subseteq more /\ new.id = Head(wire)
        OBVIOUS
      <4> HIDE DEF new, more
      <4> QED  BY <4>2, <4>3 DEF Notices!IdsOf
    <3> QED  BY <3>1, <3>2
  <2>3. /\ hydrating = "answered" => \A r \in rows : r.id \in Notices!IdsOf(answer)
        /\ hydrating = "done" => \A r \in rows :
              r.id \in Notices!IdsOf(items) \/ OnTheWire(r.id) \/ Going(r.id)
    BY <2>1 DEF NoticesInv, Shown
  <2>4. \A id : OnTheWire(id) => id = Head(wire) \/ OnTheWire(id)'
    <3> SUFFICES ASSUME NEW id, NEW i \in 1 .. Len(wire), wire[i] = id
                 PROVE  id = Head(wire) \/ OnTheWire(id)'
      BY DEF OnTheWire
    <3>1. CASE i = 1
      BY <1>1, <3>1
    <3>2. CASE i # 1
      <4>1. i - 1 \in 1 .. Len(Tail(wire)) /\ Tail(wire)[i - 1] = wire[i]
        BY <1>1, <3>2
      <4> QED  BY <1>1, <4>1 DEF OnTheWire
    <3> QED  BY <3>1, <3>2
  <2>5. \A id : Going(id) => Going(id)'
    BY DEF Going, Notices!Receive
  <2>6. rows' = rows /\ hydrating' = hydrating /\ answer' = answer
    BY DEF Notices!Receive
  <2> QED  BY <2>2, <2>3, <2>4, <2>5, <2>6
<1> QED  BY <1>6, <1>7, <1>8 DEF NoticesInv

\* What the tab does to its list: what leaves it is being taken out of the table.
LEMMA ListKeeps ==
    ASSUME NoticesInv, NEW request \in Notices!Requests, Notices!Ask(request),
           items' \subseteq Notices!Items, IsFiniteSet(items'),
           UNCHANGED <<rows, wire, online, hydrating, answer, torn, made, mishaps>>,
           \A id \in Notices!IdsOf(items) : id \in Notices!IdsOf(items') \/ Going(id)'
    PROVE  NoticesInv'
<1>1. Notices!TypeOK'
  BY NoticesTypes, NoticesNumbers DEF NoticesInv, Notices!Ask, Notices!TypeOK
<1>2. Apart' /\ OneUnread' /\ Cardinality(rows') <= Cap
  BY DEF NoticesInv, Apart, OneUnread
<1>3. \A id : (OnTheWire(id) => OnTheWire(id)') /\ (Going(id) => Going(id)')
  BY DEF OnTheWire, Going, Notices!Ask
<1>4. Shown'
  BY <1>3 DEF NoticesInv, Shown
<1> QED  BY <1>1, <1>2, <1>4 DEF NoticesInv

LEMMA MarkAllReadKeeps ==
    ASSUME NoticesInv, Notices!MarkAllRead
    PROVE  NoticesInv'
<1>1. items \subseteq Notices!Items /\ IsFiniteSet(items)
  BY NoticesTypes DEF NoticesInv, Apart
<1>2. items' = {[i EXCEPT !.read = TRUE] : i \in items}
  BY DEF Notices!MarkAllRead
<1>3. items' \subseteq Notices!Items
  BY <1>1, <1>2 DEF Notices!Items
<1>4. IsFiniteSet(items')
  BY <1>1, <1>2, ReadingAll
<1>5. ASSUME NEW id \in Notices!IdsOf(items) PROVE id \in Notices!IdsOf(items')
  <2>1. PICK i \in items : id = i.id
    BY DEF Notices!IdsOf
  <2>2. [i EXCEPT !.read = TRUE] \in items' /\ [i EXCEPT !.read = TRUE].id = id
    BY <1>1, <1>2, <2>1 DEF Notices!Items
  <2> QED  BY <2>2 DEF Notices!IdsOf
<1>6. [op |-> "read"] \in Notices!Requests
  BY DEF Notices!Requests
<1> QED  BY <1>3, <1>4, <1>5, <1>6, ListKeeps DEF Notices!MarkAllRead

LEMMA RemoveItemKeeps ==
    ASSUME NoticesInv, NEW i \in items, Notices!RemoveItem(i)
    PROVE  NoticesInv'
<1>1. items \subseteq Notices!Items /\ IsFiniteSet(items) /\ items' = items \ {i}
  BY NoticesTypes DEF NoticesInv, Apart, Notices!RemoveItem
<1>2. items' \subseteq Notices!Items /\ IsFiniteSet(items')
  BY <1>1, FS_Subset
<1>3. [op |-> "remove", id |-> i.id] \in Notices!Requests
  BY <1>1 DEF Notices!Requests, Notices!Items
<1>4. \A id \in Notices!IdsOf(items) : id \in Notices!IdsOf(items') \/ Going(id)'
  <2>1. Going(i.id)'
    BY DEF Going, Notices!RemoveItem, Notices!Ask
  <2>2. \A id \in Notices!IdsOf(items) : id \in Notices!IdsOf(items') \/ id = i.id
    BY <1>1 DEF Notices!IdsOf
  <2> QED  BY <2>1, <2>2
<1> QED  BY <1>2, <1>3, <1>4, ListKeeps DEF Notices!RemoveItem

LEMMA ClearingKeeps ==
    ASSUME NoticesInv, Notices!Clear
    PROVE  NoticesInv'
<1>1. items' = {} /\ [op |-> "clear"] \in Notices!Requests
  BY DEF Notices!Clear, Notices!Requests
<1>2. items' \subseteq Notices!Items /\ IsFiniteSet(items')
  BY <1>1, FS_EmptySet
<1>3. \A id : Going(id)'
  BY DEF Going, Notices!Clear, Notices!Ask
<1> QED  BY <1>1, <1>2, <1>3, ListKeeps DEF Notices!Clear

\* The routes.  A row that is to go goes with the request, and no other loses its place.
LEMMA ArrivedKeeps ==
    ASSUME NoticesInv, NEW request \in requests, Notices!Arrived(request)
    PROVE  NoticesInv'
<1>1. rows \subseteq Notices!Rows /\ IsFiniteSet(rows) /\ request \in Notices!Requests
         /\ requests' = requests \ {request}
  BY NoticesTypes DEF NoticesInv, Apart, Notices!Arrived
<1>2. /\ UNCHANGED <<items, wire, online, hydrating, answer, torn, made, sent, mishaps>>
      /\ requests' \subseteq Notices!Requests
  BY <1>1, NoticesTypes DEF NoticesInv, Notices!Arrived
<1>3. request.op \in {"read", "remove", "clear"}
  BY <1>1 DEF Notices!Requests
<1>4. \A id : OnTheWire(id) => OnTheWire(id)'
  BY <1>2 DEF OnTheWire
<1>5. CASE request.op = "read"
  <2>1. rows' = {[r EXCEPT !.read = TRUE] : r \in rows}
    BY <1>5 DEF Notices!Arrived
  <2>2. rows' \subseteq Notices!Rows
    BY <1>1, <2>1 DEF Notices!Rows
  <2>3. IsFiniteSet(rows') /\ Cardinality(rows') <= Cardinality(rows)
    BY <1>1, <2>1, ReadingAll
  <2>4. Cardinality(rows') <= Cap
    <3>1. Cardinality(rows') \in Nat /\ Cardinality(rows) \in Nat
      BY <1>1, <2>3, FS_CardinalityType
    <3> QED  BY <2>3, <3>1, NoticesNumbers DEF NoticesInv
  <2>5. \A q \in rows' : \E r \in rows : q = [r EXCEPT !.read = TRUE] /\ q.id = r.id /\ q.read
    BY <1>1, <2>1 DEF Notices!Rows
  <2>6. Notices!TypeOK'
    BY <1>2, <2>2, NoticesTypes DEF NoticesInv, Notices!TypeOK
  <2>7. Apart'
    <3>1. \A r \in rows' : r.id <= made'
      BY <1>2, <2>5 DEF NoticesInv, Apart
    <3>2. ASSUME NEW q \in rows', NEW r \in rows', q.id = r.id PROVE q = r
      <4>1. PICK a \in rows : q = [a EXCEPT !.read = TRUE] /\ q.id = a.id
        BY <2>5
      <4>2. PICK b \in rows : r = [b EXCEPT !.read = TRUE] /\ r.id = b.id
        BY <2>5
      <4>3. a = b
        BY <3>2, <4>1, <4>2 DEF NoticesInv, Apart
      <4> QED  BY <4>1, <4>2, <4>3
    <3> QED  BY <1>2, <2>3, <3>1, <3>2 DEF NoticesInv, Apart
  <2>8. OneUnread'
    BY <2>5 DEF OneUnread
  <2>9. Shown'
    <3>1. \A id : Going(id) => Going(id)'
      BY <1>1, <1>5 DEF Going
    <3>2. \A q \in rows' : \E r \in rows : q.id = r.id
      BY <2>5
    <3> QED  BY <1>2, <1>4, <3>1, <3>2 DEF NoticesInv, Shown
  <2> QED  BY <2>4, <2>6, <2>7, <2>8, <2>9 DEF NoticesInv
<1>6. CASE request.op = "remove" \/ request.op = "clear"
  <2>1. rows' \subseteq rows
    BY <1>6 DEF Notices!Arrived
  <2>2. Notices!TypeOK'
    BY <1>1, <1>2, <2>1, NoticesTypes DEF NoticesInv, Notices!TypeOK
  <2>3. Apart' /\ OneUnread' /\ Cardinality(rows') <= Cap
    BY <1>2, <2>1, RowsShrink DEF NoticesInv, Apart
  <2>4. ASSUME NEW r \in rows', Going(r.id) PROVE Going(r.id)'
    <3>1. CASE request.op = "remove"
      <4>1. r.id # request.id
        BY <3>1 DEF Notices!Arrived
      <4>2. request # [op |-> "clear"] /\ request # [op |-> "remove", id |-> r.id]
        BY <3>1, <4>1
      <4> QED  BY <1>1, <2>4, <4>2 DEF Going
    <3>2. CASE request.op = "clear"
      BY <3>2 DEF Notices!Arrived
    <3> QED  BY <1>6, <3>1, <3>2
  <2>5. Shown'
    BY <1>2, <1>4, <2>1, <2>4 DEF NoticesInv, Shown
  <2> QED  BY <2>2, <2>3, <2>5 DEF NoticesInv
<1> QED  BY <1>3, <1>5, <1>6

LEMMA FailureKeeps ==
    ASSUME NoticesInv, NEW request \in requests, Notices!Failed(request)
    PROVE  NoticesInv'
<1>1. Notices!TypeOK'
  BY NoticesTypes, NoticesNumbers
     DEF NoticesInv, Notices!Failed, Notices!Upset, Notices!TypeOK
<1>2. Apart' /\ OneUnread' /\ Cardinality(rows') <= Cap
  BY DEF NoticesInv, Apart, OneUnread, Notices!Failed
<1>3. torn' # {}
  BY DEF Notices!Failed
<1> QED  BY <1>1, <1>2, <1>3 DEF NoticesInv, Shown

LEMMA OnlineKeeps ==
    ASSUME NoticesInv, Notices!Online
    PROVE  NoticesInv'
<1>1. Notices!TypeOK'
  BY NoticesTypes DEF NoticesInv, Notices!Online, Notices!TypeOK
<1>2. Apart' /\ OneUnread' /\ Cardinality(rows') <= Cap
  BY DEF NoticesInv, Apart, OneUnread, Notices!Online
<1>3. Shown'
  BY DEF NoticesInv, Shown, OnTheWire, Going, Notices!Online
<1> QED  BY <1>1, <1>2, <1>3 DEF NoticesInv

LEMMA OfflineKeeps ==
    ASSUME NoticesInv, Notices!Offline
    PROVE  NoticesInv'
<1>1. Notices!TypeOK'
  <2>1. wire' \in Seq(Notices!Ids) /\ online' \in BOOLEAN
    BY NoWire DEF Notices!Offline
  <2>2. mishaps' \in 0 .. MaxMishaps
    BY NoticesTypes, NoticesNumbers DEF NoticesInv, Notices!Offline, Notices!Upset
  <2> QED  BY <2>1, <2>2, NoticesTypes DEF NoticesInv, Notices!Offline, Notices!TypeOK
<1>2. Apart' /\ OneUnread' /\ Cardinality(rows') <= Cap
  BY DEF NoticesInv, Apart, OneUnread, Notices!Offline
<1>3. Shown'
  <2>1. CASE wire = <<>>
    BY <2>1 DEF NoticesInv, Shown, OnTheWire, Going, Notices!Offline
  <2>2. CASE wire # <<>>
    BY <2>2 DEF Shown, Notices!Offline
  <2> QED  BY <2>1, <2>2
<1> QED  BY <1>1, <1>2, <1>3 DEF NoticesInv

LEMMA ReloadKeeps ==
    ASSUME NoticesInv, Notices!Reload
    PROVE  NoticesInv'
<1>1. Notices!TypeOK'
  <2>1. wire' \in Seq(Notices!Ids) /\ online' \in BOOLEAN
    BY NoWire DEF Notices!Reload
  <2>2. mishaps' \in 0 .. MaxMishaps
    BY NoticesTypes, NoticesNumbers DEF NoticesInv, Notices!Reload, Notices!Upset
  <2> QED  BY <2>1, <2>2, NoticesTypes DEF NoticesInv, Notices!Reload, Notices!TypeOK
<1>2. Apart' /\ OneUnread' /\ Cardinality(rows') <= Cap
  BY FS_EmptySet DEF NoticesInv, Apart, OneUnread, Notices!Reload
<1>3. Shown'
  BY DEF Shown, Notices!Reload
<1> QED  BY <1>1, <1>2, <1>3 DEF NoticesInv

\* What is unread of one condition is at most one row.
LEMMA NoticesInvIsRight ==
    ASSUME NoticesInv
    PROVE  Notices!TypeOK /\ Notices!ListHasRows /\ Notices!OneRowPerCondition
<1>1. Notices!ListHasRows
  <2> SUFFICES ASSUME Notices!Settled, torn = {}, NEW r \in rows
               PROVE  r.id \in Notices!IdsOf(items)
    BY DEF Notices!ListHasRows, Notices!IdsOf
  <2>1. hydrating = "done" /\ wire = <<>> /\ requests = {}
    BY DEF Notices!Settled
  <2>2. ~OnTheWire(r.id) /\ ~Going(r.id)
    BY <2>1 DEF OnTheWire, Going
  <2> QED  BY <2>1, <2>2 DEF NoticesInv, Shown
<1>2. ASSUME NEW cond \in Keys
      PROVE  Cardinality({r \in rows : r.key = cond /\ ~r.read}) <= 1
  <2> DEFINE some == {r \in rows : r.key = cond /\ ~r.read}
  <2>1. \A q, r \in some : q = r
    BY DEF NoticesInv, OneUnread
  <2>2. CASE some = {}
    BY <2>2, FS_EmptySet
  <2>3. CASE some # {}
    <3>1. PICK r \in some : TRUE
      BY <2>3
    <3>2. some = {r}
      BY <2>1, <3>1
    <3> HIDE DEF some
    <3>3. Cardinality(some) = 1
      BY <3>2, FS_Singleton
    <3> QED  BY <3>3 DEF some
  <2> QED  BY <2>2, <2>3
<1> QED  BY <1>1, <1>2, NoticesCount DEF NoticesInv, Notices!OneRowPerCondition

LEMMA NoticesStart == ASSUME Notices!Init PROVE NoticesInv
<1>1. Notices!TypeOK
  <2>1. wire \in Seq(Notices!Ids)
    BY NoWire DEF Notices!Init
  <2>2. 0 \in 0 .. MaxNotices /\ 0 \in 0 .. MaxAsked /\ 0 \in 0 .. MaxMishaps
    BY NoticesNumbers
  <2> QED  BY <2>1, <2>2 DEF Notices!Init, Notices!TypeOK
<1>2. Apart /\ OneUnread /\ Cardinality(rows) <= Cap
  BY FS_EmptySet, NoticesNumbers DEF Notices!Init, Apart, OneUnread
<1> QED  BY <1>1, <1>2 DEF Notices!Init, NoticesInv, Shown

LEMMA NoticesStep == ASSUME NoticesInv, [Notices!Next]_noticesVars PROVE NoticesInv'
<1>1. CASE Notices!Next
  BY <1>1, AnswerHydrateKeeps, HydratedKeeps, HydrateFailsKeeps, ReceiveKeeps,
     MarkAllReadKeeps, ClearingKeeps, OnlineKeeps, OfflineKeeps, ReloadKeeps,
     NotifyKeeps, RemoveItemKeeps, ArrivedKeeps, FailureKeeps
     DEF Notices!Next
<1>2. CASE UNCHANGED noticesVars
  BY <1>2
     DEF noticesVars, NoticesInv, Notices!TypeOK, Apart, OneUnread, Shown, OnTheWire,
         Going
<1> QED  BY <1>1, <1>2

\* notifications/index.ts, notifications.ts: the centre shows every row of the database,
\* but for those that are on the wire or on their way out, and a condition that lasts
\* has one unread row; unless one was raised while it loaded or was offline, a request
\* failed, or there were too many to be sent at once.
THEOREM ListFollowsRows == PartsSpec => []NoticesInOrder
<1>1. NoticesInv => NoticesInOrder
  BY NoticesInvIsRight DEF NoticesInOrder
<1>2. PartsInit => NoticesInv
  BY NoticesStart DEF PartsInit
<1>3. NoticesInv /\ [PartsNext]_partsVars => NoticesInv'
  BY NoticesStep, PartSteps
<1> QED  BY <1>1, <1>2, <1>3, PTL DEF PartsSpec

-----------------------------------------------------------------------------
(* Files *)

\* The bounds alone, without what is said of the folders.
LEMMA FilesNumbers ==
    MaxContents \in Nat /\ MaxTrashed \in Nat /\ MaxCrashes \in Nat /\ MaxNames \in Nat
BY StorageAssumption

\* The request, and what it may be at.
doing == work[Writer]

Writing == [at : {"write"}, to : Files!Places]

Moving == [at : {"move", "copy"}, from : Files!Places, to : Files!Places]

Binning == [at : {"trash", "unlink", "record"}, place : Files!Places, id : Files!Ids]

Restoring == [at : {"restore"}, id : Files!Ids, to : Files!Places]

Leaving == [at : {"clean", "unrecord"}, id : Files!Ids]

Emptying == [at : {"empty"}, left : SUBSET Files!Ids]

\* The place it goes to is still free, and what it copied or binned is there twice
\* until the first is unlinked.
AtWork ==
    /\ work = [r \in {Writer} |-> doing]
    /\ doing \in {Files!Idle} \cup Writing \cup Moving \cup Binning \cup Restoring \cup Leaving \cup Emptying
    /\ doing.at = "write" => tree[doing.to] = Files!Part
    /\ doing.at \in {"move", "copy", "restore"} => tree[doing.to] = 0
    /\ doing.at = "move" => doing.from # doing.to
    /\ doing.at = "trash" => bin[doing.id] = 0 /\ doing.id <= trashed
    /\ doing.at = "unlink" => tree[doing.place] = bin[doing.id]
    /\ doing.at = "clean" => \E p \in Files!Places : tree[p] = bin[doing.id]

\* Whatever is in a place or in the bin was written, and an entry of the bin was made.
Written ==
    /\ \A p \in Files!Places : tree[p] \in Files!Part .. written
    /\ \A id \in Files!Ids : bin[id] \in Files!Part .. written /\ (trashed < id => bin[id] = 0)

FilesInv == Files!TypeOK /\ Written /\ AtWork /\ Files!NothingLost

LEMMA FilesTypes ==
    ASSUME FilesInv
    PROVE  /\ tree \in [Files!Places -> Files!Contents] /\ bin \in [Files!Ids -> Files!Contents]
           /\ binRows \in [Files!Ids -> Files!Places \cup {Files!NoPlace}]
           /\ written \in 0 .. MaxContents /\ trashed \in 0 .. MaxTrashed
           /\ written \in Nat /\ trashed \in Nat
           /\ destroyed \subseteq 1 .. written /\ replaced \subseteq 1 .. written
           /\ crashes \in 0 .. MaxCrashes
           /\ tree \in [Files!Places -> Files!Part .. written] /\ bin \in [Files!Ids -> Files!Part .. written]
BY FilesNumbers DEF FilesInv, Files!TypeOK, Written

LEMMA WorkFields ==
    ASSUME FilesInv
    PROVE  /\ doing.at = "idle" <=> doing = Files!Idle
           /\ doing.at = "write" => doing \in Writing
           /\ doing.at \in {"move", "copy"} => doing \in Moving
           /\ doing.at \in {"trash", "unlink", "record"} => doing \in Binning
           /\ doing.at = "restore" => doing \in Restoring
           /\ doing.at \in {"clean", "unrecord"} => doing \in Leaving
           /\ doing.at = "empty" => doing \in Emptying
BY DEF FilesInv, AtWork, Files!Idle, Writing, Moving, Binning, Restoring, Leaving, Emptying

LEMMA DoSets ==
    ASSUME FilesInv, NEW x
    PROVE  Files!Do(Writer, x) => work' = [r \in {Writer} |-> x] /\ doing' = x
BY FilesNumbers DEF Files!Do, FilesInv, AtWork, doing

\* A step that keeps every content, or has it listed as destroyed.
LEMMA ContentsKept ==
    ASSUME FilesInv, Files!TypeOK', AtWork', trashed <= trashed', trashed' \in Nat,
           written' = written,
           tree' \in [Files!Places -> Files!Part .. written], bin' \in [Files!Ids -> Files!Part .. written],
           destroyed \subseteq destroyed', replaced' = replaced,
           \A p \in Files!Places : tree[p] \in {0, Files!Part} \/ tree[p] \in destroyed' \/ (\E q \in Files!Places : tree'[q] = tree[p])
                             \/ \E id \in Files!Ids : bin'[id] = tree[p],
           \A id \in Files!Ids : bin[id] \in {0, Files!Part} \/ bin[id] \in destroyed' \/ (\E q \in Files!Places : tree'[q] = bin[id])
                             \/ \E i \in Files!Ids : bin'[i] = bin[id],
           \A id \in Files!Ids : trashed' < id => bin'[id] = 0
    PROVE  FilesInv'
<1>1. Written'
  BY DEF Written
<1>2. Files!NothingLost'
  <2> SUFFICES ASSUME NEW c \in 1 .. written, c \notin destroyed' \cup replaced'
               PROVE  (\E p \in Files!Places : tree'[p] = c) \/ (\E id \in Files!Ids : bin'[id] = c)
    BY DEF Files!NothingLost
  <2>1. c \notin {0, Files!Part} /\ c \notin destroyed \cup replaced
    BY FilesTypes DEF Files!Part
  <2>2. (\E p \in Files!Places : tree[p] = c) \/ (\E id \in Files!Ids : bin[id] = c)
    BY <2>1 DEF FilesInv, Files!NothingLost
  <2> QED  BY <2>1, <2>2
<1> QED  BY <1>1, <1>2 DEF FilesInv

LEMMA FirstFreeIsFree ==
    ASSUME NEW folder, Files!Free(folder) # {}
    PROVE  Files!FirstFree(folder) \in Files!Free(folder)
<1> DEFINE T == {p[2] : p \in Files!Free(folder)}
<1>1. T \subseteq Nat /\ T # {}
  BY DEF Files!Free, Files!Places
<1>2. PICK n \in T : \A m \in T : n <= m
  BY <1>1, LeastNatural
<1>3. \E p \in Files!Free(folder) : \A q \in Files!Free(folder) : p[2] <= q[2]
  BY <1>2
<1> QED  BY <1>3 DEF Files!FirstFree

\* A step that leaves the trees alone.
LEMMA ContentsStay ==
    ASSUME FilesInv, UNCHANGED <<tree, bin, written, destroyed, replaced>>, crashes' \in 0 .. MaxCrashes,
           trashed' \in 0 .. MaxTrashed, trashed <= trashed',
           binRows' \in [Files!Ids -> Files!Places \cup {Files!NoPlace}], AtWork'
    PROVE  FilesInv'
<1>1. Files!TypeOK'
  BY FilesTypes DEF Files!TypeOK
<1>2. \A id \in Files!Ids : trashed' < id => bin'[id] = 0
  BY FilesTypes, FilesNumbers DEF FilesInv, Written, Files!Ids
<1> QED  BY <1>1, <1>2, FilesTypes, FilesNumbers, ContentsKept

LEMMA IdleWorks == ASSUME FilesInv, Files!Do(Writer, Files!Idle) PROVE AtWork'
<1>1. work' = [r \in {Writer} |-> Files!Idle] /\ doing' = Files!Idle
  BY DoSets
<1> QED  BY <1>1 DEF AtWork, Files!Idle

\* What was not a whole file, or none, becomes neither or the other.
LEMMA PartGoes ==
    ASSUME FilesInv, NEW p \in Files!Places, NEW c \in {0, Files!Part},
           tree[p] \in {0, Files!Part}, tree' = [tree EXCEPT ![p] = c], AtWork',
           UNCHANGED <<bin, binRows, written, trashed, destroyed, replaced, crashes>>
    PROVE  FilesInv'
<1>1. \A q \in Files!Places : tree'[q] = IF q = p THEN c ELSE tree[q]
  BY FilesTypes
<1>2. tree' \in [Files!Places -> Files!Part .. written] /\ tree' \in [Files!Places -> Files!Contents]
  BY FilesTypes, FilesNumbers DEF Files!Part, Files!Contents
<1>3. Files!TypeOK' /\ Written'
  BY <1>2, FilesTypes DEF Files!TypeOK, Written, FilesInv
<1>4. Files!NothingLost'
  <2> SUFFICES ASSUME NEW d \in 1 .. written, d \notin destroyed \cup replaced
               PROVE  (\E q \in Files!Places : tree'[q] = d) \/ (\E id \in Files!Ids : bin[id] = d)
    BY DEF Files!NothingLost
  <2>1. (\E q \in Files!Places : tree[q] = d) \/ (\E id \in Files!Ids : bin[id] = d)
    BY DEF FilesInv, Files!NothingLost
  <2>2. d # tree[p]
    BY FilesTypes DEF Files!Part
  <2> QED  BY <1>1, <2>1, <2>2
<1> QED  BY <1>3, <1>4 DEF FilesInv

LEMMA FilesStep == ASSUME FilesInv, [Files!Next]_filesVars PROVE FilesInv'
<1>doing. Writer \in {Writer} /\ \A r \in {Writer} : r = Writer
  BY FilesNumbers
<1>0. /\ trashed <= trashed /\ MaxTrashed \in Nat
  BY FilesTypes, FilesNumbers
<1>1. CASE Files!Crash
  <2>1. work' = [r \in {Writer} |-> Files!Idle] /\ doing' = Files!Idle
    BY <1>1, <1>doing DEF Files!Crash, doing
  <2>2. AtWork'
    BY <2>1 DEF AtWork, Files!Idle
  <2>3. crashes' \in 0 .. MaxCrashes
    BY <1>1, FilesTypes, FilesNumbers DEF Files!Crash
  <2> QED  BY <1>0, <1>1, <2>2, <2>3, FilesTypes, ContentsStay DEF Files!Crash
<1>2. ASSUME NEW p \in Files!Places, Files!BeginWrite(Writer, p) PROVE FilesInv'
  <2> DEFINE x == [at |-> "write", to |-> p]
  <2>1. /\ tree' = [tree EXCEPT ![p] = Files!Part]
        /\ replaced' = replaced \cup ({tree[p]} \ {0, Files!Part})
        /\ Files!Do(Writer, x)
        /\ UNCHANGED <<bin, binRows, written, trashed, destroyed, crashes>>
    BY <1>2 DEF Files!BeginWrite, Files!Put
  <2>2. \A q \in Files!Places : tree'[q] = IF q = p THEN Files!Part ELSE tree[q]
    BY <2>1, FilesTypes
  <2>3. tree' \in [Files!Places -> Files!Part .. written] /\ tree' \in [Files!Places -> Files!Contents]
    BY <2>1, FilesTypes, FilesNumbers DEF Files!Part, Files!Contents
  <2>4. replaced' \subseteq 1 .. written
    BY <2>1, FilesTypes DEF Files!Part
  <2>5. Files!TypeOK'
    BY <2>1, <2>3, <2>4, FilesTypes DEF Files!TypeOK
  <2>6. Written'
    BY <2>1, <2>3, FilesTypes DEF Written, FilesInv
  <2>7. AtWork'
    <3>1. work' = [r \in {Writer} |-> x] /\ doing' = x
      BY <2>1, DoSets
    <3> QED  BY <2>2, <3>1 DEF AtWork, Writing
  <2>8. Files!NothingLost'
    <3> SUFFICES ASSUME NEW c \in 1 .. written, c \notin destroyed \cup replaced'
                 PROVE  (\E q \in Files!Places : tree'[q] = c)
                           \/ (\E id \in Files!Ids : bin'[id] = c)
      BY <2>1 DEF Files!NothingLost
    <3>1. c \notin destroyed \cup replaced /\ c # tree[p]
      BY <2>1, FilesTypes DEF Files!Part
    <3>2. (\E q \in Files!Places : tree[q] = c) \/ (\E id \in Files!Ids : bin[id] = c)
      BY <3>1 DEF FilesInv, Files!NothingLost
    <3> QED  BY <2>1, <2>2, <3>1, <3>2
  <2> QED  BY <2>5, <2>6, <2>7, <2>8 DEF FilesInv
<1>a. ASSUME Files!EndWrite(Writer) PROVE FilesInv'
  <2> DEFINE p == doing.to
  <2>1. /\ doing \in Writing /\ p \in Files!Places /\ tree[p] = Files!Part
        /\ written < MaxContents /\ written' = written + 1
        /\ tree' = [tree EXCEPT ![p] = written + 1]
        /\ Files!Do(Writer, Files!Idle)
        /\ UNCHANGED <<bin, binRows, trashed, destroyed, replaced, crashes>>
    BY <1>a, WorkFields DEF Files!EndWrite, Files!Put, Files!Done, doing, FilesInv, AtWork, Writing
  <2>2. \A q \in Files!Places : tree'[q] = IF q = p THEN written + 1 ELSE tree[q]
    BY <2>1, FilesTypes
  <2>3. written' \in 0 .. MaxContents /\ written' \in Nat
    BY <2>1, FilesTypes, FilesNumbers
  <2>4. tree' \in [Files!Places -> Files!Part .. written'] /\ tree' \in [Files!Places -> Files!Contents]
    BY <2>1, <2>3, FilesTypes, FilesNumbers DEF Files!Part, Files!Contents
  <2>5. Files!TypeOK'
    BY <2>1, <2>3, <2>4, FilesTypes DEF Files!TypeOK
  <2>6. Written'
    BY <2>1, <2>4, FilesTypes DEF Written, FilesInv
  <2>7. Files!NothingLost'
    <3> SUFFICES ASSUME NEW c \in 1 .. written + 1, c \notin destroyed \cup replaced
                 PROVE  (\E q \in Files!Places : tree'[q] = c)
                           \/ (\E id \in Files!Ids : bin'[id] = c)
      BY <2>1 DEF Files!NothingLost
    <3>1. CASE c = written + 1
      BY <2>1, <2>2, <3>1
    <3>2. CASE c # written + 1
      <4>1. c \in 1 .. written /\ c # Files!Part
        BY <3>2, FilesTypes DEF Files!Part
      <4>2. (\E q \in Files!Places : tree[q] = c) \/ (\E id \in Files!Ids : bin[id] = c)
        BY <4>1 DEF FilesInv, Files!NothingLost
      <4> QED  BY <2>1, <2>2, <4>1, <4>2
    <3> QED  BY <3>1, <3>2
  <2> QED  BY <2>1, <2>5, <2>6, <2>7, IdleWorks DEF FilesInv
<1>b. ASSUME Files!RefuseUpload(Writer) PROVE FilesInv'
  <2>1. /\ doing \in Writing /\ doing.to \in Files!Places /\ tree[doing.to] = Files!Part
        /\ tree' = [tree EXCEPT ![doing.to] = 0]
        /\ Files!Do(Writer, Files!Idle)
        /\ UNCHANGED <<bin, binRows, written, trashed, destroyed, replaced, crashes>>
    BY <1>b, WorkFields DEF Files!RefuseUpload, Files!Put, Files!Done, doing, FilesInv, AtWork, Writing
  <2> QED  BY <2>1, PartGoes, IdleWorks
<1>c. ASSUME Files!CutShort(Writer) PROVE FilesInv'
  <2>1. AtWork' /\ UNCHANGED <<binRows, written, trashed, destroyed, replaced, crashes>>
    BY <1>c, IdleWorks DEF Files!CutShort, Files!Done
  <2>2. CASE UNCHANGED <<tree, bin>>
    BY <1>0, <2>1, <2>2, FilesTypes, ContentsStay
  <2>3. CASE doing.at \in {"copy", "restore"} /\ Files!Put(doing.to, Files!Part) /\ UNCHANGED bin
    <3>1. doing.to \in Files!Places /\ tree[doing.to] = 0
      BY <2>3, WorkFields DEF Moving, Restoring, FilesInv, AtWork
    <3> QED  BY <2>1, <2>3, <3>1, PartGoes DEF Files!Put
  <2>4. CASE doing.at = "trash" /\ Files!Fill(doing.id, Files!Part) /\ UNCHANGED tree
    <3>1. doing.id \in Files!Ids /\ bin[doing.id] = 0 /\ doing.id <= trashed
      BY <2>4, WorkFields DEF Binning, FilesInv, AtWork
    <3>2. bin' = [bin EXCEPT ![doing.id] = Files!Part] /\ UNCHANGED tree
      BY <2>4 DEF Files!Fill
    <3>3. \A id \in Files!Ids : bin'[id] = IF id = doing.id THEN Files!Part ELSE bin[id]
      BY <3>2, FilesTypes
    <3>4. bin' \in [Files!Ids -> Files!Part .. written] /\ bin' \in [Files!Ids -> Files!Contents]
      <4>1. Files!Part \in Files!Part .. written /\ Files!Part \in Files!Contents
        BY FilesTypes, FilesNumbers DEF Files!Part, Files!Contents
      <4> QED  BY <3>2, <4>1, FilesTypes
    <3>5. Files!TypeOK'
      BY <2>1, <3>2, <3>4, FilesTypes DEF Files!TypeOK
    <3>6. \A id \in Files!Ids : trashed' < id => bin'[id] = 0
      BY <2>1, <3>1, <3>3, FilesTypes DEF FilesInv, Written, Files!Ids
    <3>7. \A id \in Files!Ids : bin[id] = 0 \/ \E i \in Files!Ids : bin'[i] = bin[id]
      BY <3>1, <3>3
    <3> QED  BY <2>1, <3>2, <3>4, <3>5, <3>6, <3>7, FilesTypes, ContentsKept
  <2> QED  BY <1>c, <2>2, <2>3, <2>4 DEF Files!CutShort, doing
<1>3. ASSUME NEW p \in Files!Places, NEW dest \in Files!Places, Files!PlanMove(Writer, p, dest)
      PROVE FilesInv'
  <2> DEFINE x == [at |-> "move", from |-> p, to |-> dest]
  <2>1. /\ Files!Do(Writer, x) /\ tree[p] # 0 /\ tree[dest] = 0
        /\ UNCHANGED <<tree, bin, binRows, written, trashed, destroyed, replaced, crashes>>
    BY <1>3 DEF Files!PlanMove, Files!Exists
  <2>2. work' = [r \in {Writer} |-> x] /\ doing' = x
    BY <2>1, DoSets
  <2>3. AtWork'
    BY <2>1, <2>2 DEF AtWork, Moving
  <2> QED  BY <1>0, <2>1, <2>3, FilesTypes, ContentsStay
<1>4. ASSUME Files!Move(Writer) PROVE FilesInv'
  <2>1. doing \in Moving /\ tree[doing.to] = 0 /\ doing.from # doing.to
           /\ Files!Do(Writer, Files!Idle)
        /\ UNCHANGED <<bin, binRows, written, trashed, destroyed, replaced, crashes>>
    BY <1>4, WorkFields DEF Files!Move, doing, Files!Done, FilesInv, AtWork
  <2>2. doing.from \in Files!Places /\ doing.to \in Files!Places
    BY <2>1 DEF Moving
  <2>3. CASE tree' = tree
    BY <1>0, <2>1, <2>3, FilesTypes, ContentsStay, IdleWorks
  <2>4. CASE tree' = [tree EXCEPT ![doing.to] = tree[doing.from], ![doing.from] = 0]
    <3>1. \A p \in Files!Places : tree'[p] = IF p = doing.from THEN 0
                                        ELSE IF p = doing.to THEN tree[doing.from] ELSE tree[p]
      BY <2>1, <2>2, <2>4, FilesTypes
    <3>2. tree' \in [Files!Places -> Files!Part .. written] /\ tree' \in [Files!Places -> Files!Contents]
      BY <2>1, <2>2, <2>4, FilesTypes
    <3>3. Files!TypeOK'
      BY <2>1, <3>2, FilesTypes DEF Files!TypeOK
    <3>4. tree'[doing.to] = tree[doing.from]
      BY <2>1, <2>2, <3>1
    <3>5. \A p \in Files!Places : tree[p] = 0 \/ \E q \in Files!Places : tree'[q] = tree[p]
      BY <2>1, <2>2, <3>1, <3>4
    <3> QED  BY <1>0, <2>1, <3>2, <3>3, <3>5, FilesTypes, ContentsKept, IdleWorks
                DEF FilesInv, Written
  <2> QED  BY <1>4, <2>3, <2>4 DEF Files!Move, doing
<1>5. ASSUME NEW p \in Files!Places, NEW folder \in Near \cup Far, Files!PlanCopy(Writer, p, folder)
      PROVE FilesInv'
  <2> DEFINE x == [at |-> "copy", from |-> p, to |-> Files!FirstFree(folder)]
  <2>1. /\ Files!Do(Writer, x) /\ Files!Free(folder) # {}
        /\ UNCHANGED <<tree, bin, binRows, written, trashed, destroyed, replaced, crashes>>
    BY <1>5 DEF Files!PlanCopy
  <2>2. Files!FirstFree(folder) \in Files!Places /\ tree[Files!FirstFree(folder)] = 0
    BY <2>1, FirstFreeIsFree DEF Files!Free, Files!Exists
  <2>3. work' = [r \in {Writer} |-> x] /\ doing' = x
    BY <2>1, DoSets
  <2>4. AtWork'
    BY <2>1, <2>2, <2>3 DEF AtWork, Moving
  <2> QED  BY <1>0, <2>1, <2>4, FilesTypes, ContentsStay
<1>6. ASSUME Files!Copy(Writer) PROVE FilesInv'
  <2>1. doing \in Moving /\ tree[doing.to] = 0 /\ Files!Do(Writer, Files!Idle)
        /\ UNCHANGED <<bin, binRows, written, trashed, destroyed, replaced, crashes>>
    BY <1>6, WorkFields DEF Files!Copy, doing, Files!Done, FilesInv, AtWork
  <2>2. doing.from \in Files!Places /\ doing.to \in Files!Places
    BY <2>1 DEF Moving
  <2>3. CASE tree' = tree
    BY <1>0, <2>1, <2>3, FilesTypes, ContentsStay, IdleWorks
  <2>4. CASE tree' = [tree EXCEPT ![doing.to] = tree[doing.from]]
    <3>1. \A p \in Files!Places : tree'[p] = IF p = doing.to THEN tree[doing.from] ELSE tree[p]
      BY <2>4, FilesTypes
    <3>2. tree' \in [Files!Places -> Files!Part .. written] /\ tree' \in [Files!Places -> Files!Contents]
      BY <2>2, <2>4, FilesTypes
    <3>3. Files!TypeOK'
      BY <2>1, <3>2, FilesTypes DEF Files!TypeOK
    <3>5. \A p \in Files!Places : tree[p] = 0 \/ \E q \in Files!Places : tree'[q] = tree[p]
      BY <2>1, <3>1
    <3> QED  BY <1>0, <2>1, <3>2, <3>3, <3>5, FilesTypes, ContentsKept, IdleWorks
                DEF FilesInv, Written
  <2> QED  BY <1>6, <2>3, <2>4 DEF Files!Copy, doing, Files!Put
<1>7. ASSUME NEW p \in Files!Places, Files!DeleteForGood(Writer, p) PROVE FilesInv'
  <2>1. /\ work[Writer] = Files!Idle /\ destroyed' = destroyed \cup ({tree[p]} \ {0, Files!Part})
        /\ tree' = [tree EXCEPT ![p] = 0]
        /\ UNCHANGED <<bin, binRows, work, written, trashed, replaced, crashes>>
    BY <1>7 DEF Files!DeleteForGood, Files!Put, Files!Destroy
  <2>2. \A q \in Files!Places : tree'[q] = IF q = p THEN 0 ELSE tree[q]
    BY <2>1, FilesTypes
  <2>3. tree' \in [Files!Places -> Files!Part .. written] /\ tree' \in [Files!Places -> Files!Contents]
    BY <2>1, FilesTypes, FilesNumbers DEF Files!Part, Files!Contents
  <2>4. destroyed' \subseteq 1 .. written
    BY <2>1, FilesTypes DEF Files!Part
  <2>5. Files!TypeOK'
    BY <2>1, <2>3, <2>4, FilesTypes DEF Files!TypeOK
  <2>6. AtWork'
    BY <2>1 DEF AtWork, doing, FilesInv, Files!Idle
  <2>7. \A q \in Files!Places : tree[q] \in {0, Files!Part} \/ tree[q] \in destroyed'
           \/ \E u \in Files!Places : tree'[u] = tree[q]
    BY <2>1, <2>2
  <2> QED  BY <1>0, <2>1, <2>3, <2>5, <2>6, <2>7, FilesTypes, ContentsKept
              DEF FilesInv, Written
<1>8. ASSUME NEW p \in Files!Places, Files!BeginTrash(Writer, p) PROVE FilesInv'
  <2> DEFINE x == [at |-> "trash", place |-> p, id |-> trashed + 1]
  <2>1. /\ Files!Do(Writer, x) /\ trashed < MaxTrashed /\ trashed' = trashed + 1
        /\ UNCHANGED <<tree, bin, binRows, written, destroyed, replaced, crashes>>
    BY <1>8 DEF Files!BeginTrash
  <2>2. trashed' \in 0 .. MaxTrashed /\ trashed <= trashed' /\ trashed + 1 \in Files!Ids
           /\ trashed < trashed + 1
        /\ trashed + 1 <= trashed'
    BY <1>0, <2>1, FilesTypes DEF Files!Ids
  <2>3. bin[trashed + 1] = 0
    BY <2>2 DEF FilesInv, Written
  <2>4. work' = [r \in {Writer} |-> x] /\ doing' = x
    BY <2>1, DoSets
  <2>5. AtWork'
    BY <2>1, <2>2, <2>3, <2>4 DEF AtWork, Binning
  <2> QED  BY <2>1, <2>2, <2>5, FilesTypes, ContentsStay
<1>9. ASSUME Files!MoveIn(Writer) PROVE FilesInv'
  <2>1. doing \in Binning /\ doing.at = "trash" /\ bin[doing.id] = 0 /\ doing.id <= trashed
        /\ UNCHANGED <<binRows, written, trashed, destroyed, replaced, crashes>>
    BY <1>9, WorkFields DEF Files!MoveIn, doing, FilesInv, AtWork
  <2>2. doing.place \in Files!Places /\ doing.id \in Files!Ids /\ doing.id \in Nat
    BY <2>1 DEF Binning, Files!Ids
  <2>3. CASE Files!Done(Writer) /\ UNCHANGED <<tree, bin>>
    BY <1>0, <2>1, <2>3, FilesTypes, ContentsStay, IdleWorks DEF Files!Done
  <2>4. CASE /\ bin' = [bin EXCEPT ![doing.id] = tree[doing.place]]
             /\ \/ tree' = [tree EXCEPT ![doing.place] = 0]
                      /\ Files!Do(Writer, [doing EXCEPT !.at = "record"])
                \/ tree' = tree /\ Files!Do(Writer, [doing EXCEPT !.at = "unlink"])
    <3>1. \A id \in Files!Ids : bin'[id] = IF id = doing.id THEN tree[doing.place] ELSE bin[id]
      BY <2>4, FilesTypes
    <3>2. \A p \in Files!Places : tree'[p] = tree[p] \/ (p = doing.place /\ tree'[p] = 0)
      BY <2>4, FilesTypes
    <3>3. bin' \in [Files!Ids -> Files!Part .. written] /\ bin' \in [Files!Ids -> Files!Contents]
      BY <2>2, <2>4, FilesTypes
    <3>4. tree' \in [Files!Places -> Files!Part .. written] /\ tree' \in [Files!Places -> Files!Contents]
      BY <2>2, <2>4, FilesTypes, FilesNumbers DEF Files!Part, Files!Contents
    <3>5. Files!TypeOK'
      BY <2>1, <3>3, <3>4, FilesTypes DEF Files!TypeOK
    <3>6. AtWork'
      <4>1. CASE tree' = [tree EXCEPT ![doing.place] = 0]
                    /\ Files!Do(Writer, [doing EXCEPT !.at = "record"])
        <5>1. work' = [r \in {Writer} |-> [doing EXCEPT !.at = "record"]]
                 /\ doing' = [doing EXCEPT !.at = "record"]
          BY <4>1, DoSets
        <5>2. doing' \in Binning /\ doing'.at = "record"
          BY <2>1, <5>1 DEF Binning
        <5> QED  BY <5>1, <5>2 DEF AtWork
      <4>2. CASE tree' = tree /\ Files!Do(Writer, [doing EXCEPT !.at = "unlink"])
        <5>1. work' = [r \in {Writer} |-> [doing EXCEPT !.at = "unlink"]]
                 /\ doing' = [doing EXCEPT !.at = "unlink"]
          BY <4>2, DoSets
        <5>2. doing' \in Binning /\ doing'.at = "unlink" /\ doing'.id = doing.id
                 /\ doing'.place = doing.place
          BY <2>1, <5>1 DEF Binning
        <5> QED  BY <2>2, <3>1, <4>2, <5>1, <5>2 DEF AtWork
      <4> QED  BY <2>4, <4>1, <4>2
    <3>7. \A p \in Files!Places : tree[p] = 0 \/ (\E q \in Files!Places : tree'[q] = tree[p])
             \/ \E id \in Files!Ids : bin'[id] = tree[p]
      BY <2>2, <3>1, <3>2
    <3>8. \A id \in Files!Ids : bin[id] = 0 \/ \E k \in Files!Ids : bin'[k] = bin[id]
      BY <2>1, <3>1
    <3>9. \A id \in Files!Ids : trashed < id => bin'[id] = 0
      <4> SUFFICES ASSUME NEW id \in Files!Ids, trashed < id PROVE bin'[id] = 0
        OBVIOUS
      <4>1. id # doing.id /\ bin[id] = 0
        BY <2>1, <2>2, FilesTypes DEF FilesInv, Written, Files!Ids
      <4> QED  BY <3>1, <4>1
    <3> QED  BY <1>0, <2>1, <3>3, <3>4, <3>5, <3>6, <3>7, <3>8, <3>9, FilesTypes,
                ContentsKept
  <2> QED  BY <1>9, <2>3, <2>4
              DEF Files!MoveIn, Files!CopyIn, Files!Fill, Files!Put, doing
<1>10. ASSUME Files!Unlink(Writer) PROVE FilesInv'
  <2>1. doing \in Binning /\ doing.at = "unlink" /\ tree[doing.place] = bin[doing.id]
        /\ tree' = [tree EXCEPT ![doing.place] = 0]
              /\ Files!Do(Writer, [doing EXCEPT !.at = "record"])
        /\ UNCHANGED <<bin, binRows, written, trashed, destroyed, replaced, crashes>>
    BY <1>10, WorkFields DEF Files!Unlink, Files!Put, doing, FilesInv, AtWork
  <2>2. doing.place \in Files!Places /\ doing.id \in Files!Ids
    BY <2>1 DEF Binning
  <2>3. \A p \in Files!Places : tree'[p] = IF p = doing.place THEN 0 ELSE tree[p]
    BY <2>1, FilesTypes
  <2>4. tree' \in [Files!Places -> Files!Part .. written] /\ tree' \in [Files!Places -> Files!Contents]
    BY <2>1, <2>2, FilesTypes, FilesNumbers DEF Files!Part, Files!Contents
  <2>5. Files!TypeOK'
    BY <2>1, <2>4, FilesTypes DEF Files!TypeOK
  <2>6. work' = [r \in {Writer} |-> [doing EXCEPT !.at = "record"]]
           /\ doing' = [doing EXCEPT !.at = "record"]
    BY <2>1, DoSets
  <2>7. doing' \in Binning /\ doing'.at = "record"
    BY <2>1, <2>6 DEF Binning
  <2>8. AtWork'
    BY <2>6, <2>7 DEF AtWork
  <2>9. \A p \in Files!Places : tree[p] = 0 \/ (\E q \in Files!Places : tree'[q] = tree[p])
           \/ \E id \in Files!Ids : bin'[id] = tree[p]
    BY <2>1, <2>2, <2>3
  <2> QED  BY <1>0, <2>1, <2>4, <2>5, <2>8, <2>9, FilesTypes, ContentsKept
              DEF FilesInv, Written
<1>11. ASSUME Files!AddTrashItem(Writer) PROVE FilesInv'
  <2>1. doing \in Binning /\ binRows' = [binRows EXCEPT ![doing.id] = doing.place]
           /\ Files!Do(Writer, Files!Idle)
        /\ UNCHANGED <<tree, bin, written, trashed, destroyed, replaced, crashes>>
    BY <1>11, WorkFields DEF Files!AddTrashItem, doing, Files!Done
  <2>2. binRows' \in [Files!Ids -> Files!Places \cup {Files!NoPlace}]
    BY <2>1, FilesTypes DEF Binning
  <2> QED  BY <1>0, <2>1, <2>2, FilesTypes, ContentsStay, IdleWorks
<1>12. ASSUME NEW id \in Files!Ids, Files!BeginRestore(Writer, id) PROVE FilesInv'
  <2>1. /\ work[Writer] = Files!Idle /\ binRows[id] # Files!NoPlace
        /\ UNCHANGED <<tree, bin, written, trashed, destroyed, replaced, crashes>>
    BY <1>12 DEF Files!BeginRestore, Files!Listed
  <2>2. CASE Files!Forget(id) /\ UNCHANGED work
    <3>1. binRows' \in [Files!Ids -> Files!Places \cup {Files!NoPlace}]
      BY <2>2, FilesTypes DEF Files!Forget
    <3>2. AtWork'
      BY <2>1, <2>2 DEF AtWork, doing, FilesInv, Files!Idle
    <3> QED  BY <1>0, <2>1, <3>1, <3>2, FilesTypes, ContentsStay
  <2>3. CASE /\ Files!Exists(binRows[id]) => Files!Free(binRows[id][1]) # {}
             /\ Files!Do(Writer, [at |-> "restore", id |-> id, to |-> Files!Destination(id)])
                   /\ UNCHANGED binRows
    <3> DEFINE x == [at |-> "restore", id |-> id, to |-> Files!Destination(id)]
    <3>1. binRows[id] \in Files!Places
      BY <2>1, FilesTypes
    <3>2. Files!Destination(id) \in Files!Places /\ tree[Files!Destination(id)] = 0
      <4>1. CASE Files!Exists(binRows[id])
        BY <2>3, <4>1, FirstFreeIsFree DEF Files!Destination, Files!Free, Files!Exists
      <4>2. CASE ~Files!Exists(binRows[id])
        BY <3>1, <4>2 DEF Files!Destination, Files!Exists
      <4> QED  BY <4>1, <4>2
    <3>3. work' = [r \in {Writer} |-> x] /\ doing' = x
      BY <2>3, DoSets
    <3>4. AtWork'
      BY <2>1, <3>2, <3>3 DEF AtWork, Restoring
    <3> QED  BY <1>0, <2>1, <2>3, <3>4, FilesTypes, ContentsStay
  <2> QED  BY <1>12, <2>2, <2>3 DEF Files!BeginRestore
<1>13. ASSUME Files!MoveOut(Writer) PROVE FilesInv'
  <2>1. doing \in Restoring /\ tree[doing.to] = 0
           /\ UNCHANGED <<binRows, written, trashed, destroyed, replaced, crashes>>
    BY <1>13, WorkFields DEF Files!MoveOut, doing, FilesInv, AtWork
  <2>2. doing.to \in Files!Places /\ doing.id \in Files!Ids
    BY <2>1 DEF Restoring
  <2>3. CASE Files!Done(Writer) /\ UNCHANGED <<tree, bin>>
    BY <1>0, <2>1, <2>3, FilesTypes, ContentsStay, IdleWorks DEF Files!Done
  <2>4. CASE /\ tree' = [tree EXCEPT ![doing.to] = bin[doing.id]]
             /\ \/ bin' = [bin EXCEPT ![doing.id] = 0]
                      /\ Files!Do(Writer, [at |-> "unrecord", id |-> doing.id])
                \/ bin' = bin /\ Files!Do(Writer, [at |-> "clean", id |-> doing.id])
    <3>1. \A p \in Files!Places : tree'[p] = IF p = doing.to THEN bin[doing.id] ELSE tree[p]
      BY <2>4, FilesTypes
    <3>2. \A id \in Files!Ids : bin'[id] = bin[id] \/ (id = doing.id /\ bin'[id] = 0)
      BY <2>4, FilesTypes
    <3>3. bin' \in [Files!Ids -> Files!Part .. written] /\ bin' \in [Files!Ids -> Files!Contents]
      BY <2>2, <2>4, FilesTypes, FilesNumbers DEF Files!Part, Files!Contents
    <3>4. tree' \in [Files!Places -> Files!Part .. written] /\ tree' \in [Files!Places -> Files!Contents]
      BY <2>2, <2>4, FilesTypes
    <3>5. Files!TypeOK'
      BY <2>1, <3>3, <3>4, FilesTypes DEF Files!TypeOK
    <3>6. AtWork'
      <4>1. CASE bin' = [bin EXCEPT ![doing.id] = 0]
                    /\ Files!Do(Writer, [at |-> "unrecord", id |-> doing.id])
        <5>1. work' = [r \in {Writer} |-> [at |-> "unrecord", id |-> doing.id]]
                 /\ doing' = [at |-> "unrecord", id |-> doing.id]
          BY <4>1, DoSets
        <5> QED  BY <2>2, <5>1 DEF AtWork, Leaving
      <4>2. CASE bin' = bin /\ Files!Do(Writer, [at |-> "clean", id |-> doing.id])
        <5>1. work' = [r \in {Writer} |-> [at |-> "clean", id |-> doing.id]]
                 /\ doing' = [at |-> "clean", id |-> doing.id]
          BY <4>2, DoSets
        <5>2. \E p \in Files!Places : tree'[p] = bin'[doing.id]
          BY <2>2, <3>1, <4>2
        <5>3. doing'.id = doing.id
          BY <5>1
        <5> QED  BY <2>2, <5>1, <5>2, <5>3 DEF AtWork, Leaving
      <4> QED  BY <2>4, <4>1, <4>2
    <3>7. \A p \in Files!Places : tree[p] = 0 \/ \E q \in Files!Places : tree'[q] = tree[p]
      BY <2>1, <3>1
    <3>8. \A id \in Files!Ids : bin[id] = 0 \/ (\E q \in Files!Places : tree'[q] = bin[id])
             \/ \E k \in Files!Ids : bin'[k] = bin[id]
      BY <2>2, <3>1, <3>2
    <3>9. \A id \in Files!Ids : trashed' < id => bin'[id] = 0
      BY <2>1, <3>2 DEF FilesInv, Written
    <3> QED  BY <1>0, <2>1, <3>3, <3>4, <3>5, <3>6, <3>7, <3>8, <3>9, FilesTypes,
                ContentsKept
  <2> QED  BY <1>13, <2>3, <2>4 DEF Files!MoveOut, Files!Fill, Files!Put, doing
<1>14. ASSUME Files!CleanOut(Writer) PROVE FilesInv'
  <2>1. doing \in Leaving /\ (\E p \in Files!Places : tree[p] = bin[doing.id])
           /\ bin' = [bin EXCEPT ![doing.id] = 0]
        /\ Files!Do(Writer, [at |-> "unrecord", id |-> doing.id])
        /\ UNCHANGED <<tree, binRows, written, trashed, destroyed, replaced, crashes>>
    BY <1>14, WorkFields DEF Files!CleanOut, doing, Files!Fill, FilesInv, AtWork
  <2>2. doing.id \in Files!Ids
    BY <2>1 DEF Leaving
  <2>3. \A id \in Files!Ids : bin'[id] = IF id = doing.id THEN 0 ELSE bin[id]
    BY <2>1, FilesTypes
  <2>4. bin' \in [Files!Ids -> Files!Part .. written] /\ bin' \in [Files!Ids -> Files!Contents]
    BY <2>1, <2>2, FilesTypes, FilesNumbers DEF Files!Part, Files!Contents
  <2>5. Files!TypeOK'
    BY <2>1, <2>4, FilesTypes DEF Files!TypeOK
  <2>6. work' = [r \in {Writer} |-> [at |-> "unrecord", id |-> doing.id]]
           /\ doing' = [at |-> "unrecord", id |-> doing.id]
    BY <2>1, DoSets
  <2>7. AtWork'
    BY <2>2, <2>6 DEF AtWork, Leaving
  <2>8. \A id \in Files!Ids : bin[id] = 0 \/ (\E q \in Files!Places : tree'[q] = bin[id])
           \/ \E k \in Files!Ids : bin'[k] = bin[id]
    BY <2>1, <2>3
  <2> QED  BY <1>0, <2>1, <2>3, <2>4, <2>5, <2>7, <2>8, FilesTypes, ContentsKept
              DEF FilesInv, Written
<1>15. ASSUME Files!RemoveTrashItem(Writer) PROVE FilesInv'
  <2>1. Files!Forget(doing.id) /\ Files!Do(Writer, Files!Idle)
           /\ UNCHANGED <<tree, bin, written, trashed, destroyed, replaced, crashes>>
    BY <1>15 DEF Files!RemoveTrashItem, doing, Files!Done
  <2>2. binRows' \in [Files!Ids -> Files!Places \cup {Files!NoPlace}]
    BY <2>1, FilesTypes DEF Files!Forget
  <2> QED  BY <1>0, <2>1, <2>2, FilesTypes, ContentsStay, IdleWorks
<1>16. ASSUME NEW id \in Files!Ids, NEW x, Files!Fill(id, 0), Files!Destroy({bin[id]}),
              Files!Do(Writer, x),
              (x \in Leaving /\ x.at = "unrecord") \/ x \in Emptying,
              UNCHANGED <<tree, binRows, written, trashed, replaced, crashes>>
       PROVE  FilesInv'
  <2>1. bin' = [bin EXCEPT ![id] = 0] /\ destroyed' = destroyed \cup ({bin[id]} \ {0, Files!Part})
    BY <1>16 DEF Files!Fill, Files!Destroy
  <2>2. \A k \in Files!Ids : bin'[k] = IF k = id THEN 0 ELSE bin[k]
    BY <2>1, FilesTypes
  <2>3. bin' \in [Files!Ids -> Files!Part .. written] /\ bin' \in [Files!Ids -> Files!Contents]
    BY <2>1, FilesTypes, FilesNumbers DEF Files!Part, Files!Contents
  <2>4. destroyed' \subseteq 1 .. written
    BY <2>1, FilesTypes DEF Files!Part
  <2>5. Files!TypeOK'
    BY <1>16, <2>3, <2>4, FilesTypes DEF Files!TypeOK
  <2>6. work' = [r \in {Writer} |-> x] /\ doing' = x
    BY <1>16, DoSets
  <2>7. AtWork'
    BY <1>16, <2>6 DEF AtWork, Leaving, Emptying
  <2>8. \A k \in Files!Ids : bin[k] \in {0, Files!Part} \/ bin[k] \in destroyed'
           \/ \E i \in Files!Ids : bin'[i] = bin[k]
    BY <2>1, <2>2
  <2> QED  BY <1>0, <1>16, <2>1, <2>2, <2>3, <2>5, <2>7, <2>8, FilesTypes,
              ContentsKept
              DEF FilesInv, Written
<1>17. ASSUME NEW id \in Files!Ids, Files!Purge(Writer, id) PROVE FilesInv'
  <2> DEFINE x == [at |-> "unrecord", id |-> id]
  <2>1. x \in Leaving /\ x.at = "unrecord"
    BY DEF Leaving
  <2> HIDE DEF x
  <2> QED  BY <1>16, <1>17, <2>1 DEF Files!Purge, x
<1>18. ASSUME Files!BeginEmpty(Writer) PROVE FilesInv'
  <2> DEFINE x == [at |-> "empty", left |-> {id \in Files!Ids : Files!Listed(id)}]
  <2>1. Files!Do(Writer, x)
           /\ UNCHANGED <<tree, bin, binRows, written, trashed, destroyed, replaced, crashes>>
    BY <1>18 DEF Files!BeginEmpty
  <2>2. work' = [r \in {Writer} |-> x] /\ doing' = x
    BY <2>1, DoSets
  <2>3. x \in Emptying /\ x.at = "empty"
    BY DEF Emptying
  <2>4. AtWork'
    BY <2>2, <2>3 DEF AtWork
  <2> QED  BY <1>0, <2>1, <2>4, FilesTypes, ContentsStay
<1>19. ASSUME Files!EmptyOne(Writer) PROVE FilesInv'
  <2>1. doing \in Emptying /\ UNCHANGED <<tree, binRows, written, trashed, replaced, crashes>>
    BY <1>19, WorkFields DEF Files!EmptyOne, doing
  <2>2. PICK id \in doing.left : /\ Files!Fill(id, 0) /\ Files!Destroy({bin[id]})
                              /\ Files!Do(Writer, [doing EXCEPT !.left = @ \ {id}])
    BY <1>19 DEF Files!EmptyOne, doing
  <2> DEFINE x == [doing EXCEPT !.left = @ \ {id}]
  <2>3. id \in Files!Ids /\ x \in Emptying
    <3>1. doing.left \in SUBSET Files!Ids /\ doing.left \ {id} \in SUBSET Files!Ids
      BY <2>1 DEF Emptying
    <3>2. \A y \in SUBSET Files!Ids : [doing EXCEPT !.left = y] \in Emptying
      BY <2>1 DEF Emptying
    <3> QED  BY <3>1, <3>2
  <2> HIDE DEF x
  <2> QED  BY <1>16, <2>1, <2>2, <2>3 DEF x
<1>20. ASSUME Files!ClearTrash(Writer) PROVE FilesInv'
  <2>1. binRows' = [id \in Files!Ids |-> Files!NoPlace] /\ Files!Do(Writer, Files!Idle)
        /\ UNCHANGED <<tree, bin, written, trashed, destroyed, replaced, crashes>>
    BY <1>20 DEF Files!ClearTrash, Files!Done
  <2>2. binRows' \in [Files!Ids -> Files!Places \cup {Files!NoPlace}]
    BY <2>1
  <2> QED  BY <1>0, <2>1, <2>2, FilesTypes, ContentsStay, IdleWorks
<1>21. CASE UNCHANGED filesVars
  BY <1>21
     DEF filesVars, FilesInv, Files!TypeOK, Written, AtWork, doing, Files!NothingLost
<1>22. CASE Files!Next
  BY <1>doing, <1>1, <1>2, <1>a, <1>b, <1>c, <1>3, <1>4, <1>5, <1>6, <1>7, <1>8, <1>9, <1>10, <1>11,
     <1>12, <1>13, <1>14, <1>15, <1>17, <1>18, <1>19, <1>20, <1>22
     DEF Files!Next
<1> QED  BY <1>21, <1>22

LEMMA FilesStart == ASSUME Files!Init PROVE FilesInv
<1>1. /\ tree = [p \in Files!Places |-> 0] /\ bin = [id \in Files!Ids |-> 0]
            /\ binRows = [id \in Files!Ids |-> Files!NoPlace]
      /\ work = [r \in {Writer} |-> Files!Idle]
      /\ written = 0 /\ trashed = 0 /\ destroyed = {} /\ replaced = {} /\ crashes = 0
  BY DEF Files!Init
<1>2. doing = Files!Idle
  BY <1>1, FilesNumbers DEF doing
<1>3. Files!TypeOK
  BY <1>1, FilesNumbers DEF Files!TypeOK, Files!Contents, Files!Part
<1>4. Written
  BY <1>1, FilesNumbers DEF Written, Files!Part
<1>5. AtWork
  BY <1>1, <1>2 DEF AtWork, Files!Idle
<1>6. Files!NothingLost
  BY <1>1 DEF Files!NothingLost
<1> QED  BY <1>3, <1>4, <1>5, <1>6 DEF FilesInv

\* files, recycle bin: of moving, copying, binning, restoring and emptying, cut short
\* in any system call or after it, no content is lost that nobody asked to be rid of;
\* a write may lose what it replaces, and that alone.
THEOREM FilesAreKept == StorageSpec => []NothingLost
<1>1. FilesInv => NothingLost
  BY DEF FilesInv, NothingLost
<1>2. StorageInit => FilesInv
  BY FilesStart DEF StorageInit
<1>3. FilesInv /\ [StorageNext]_storageVars => FilesInv'
  BY FilesStep, StorageSteps
<1> QED  BY <1>1, <1>2, <1>3, PTL DEF StorageSpec

-----------------------------------------------------------------------------
(* Quotas *)

\* The bounds alone, without what is said of the folders.
LEMMA QuotasNumbers ==
    /\ IsFiniteSet(CapNames) /\ Caps \subseteq Nat /\ 0 \in Caps
    /\ First \in Nat /\ MaxRows \in Nat /\ MaxFailures \in Nat
BY StorageAssumption

\* What the filesystem is told of a cap, to the KiB.
Capped(kib, bytes) == kib * 1024 <= bytes /\ bytes < (kib + 1) * 1024

LEMMA KibCaps ==
    ASSUME NEW bytes \in Caps
    PROVE  Quotas!Kib(bytes) \in Nat /\ Capped(Quotas!Kib(bytes), bytes)
BY QuotasNumbers DEF Quotas!Kib, Capped

\* A share, and a save of a cap under way.
Share == [row : 0 .. MaxRows, project : Quotas!Projects \cup {0}, cap : Caps]

Save == [at : {"asking", "tagging", "limiting"}, name : CapNames, row : 1 .. MaxRows,
         cap : Caps, project : Quotas!Projects \cup {0}, alone : BOOLEAN]

\* The shares that have no project yet.
Unnumbered == {n \in CapNames : capped[n].row # 0 /\ capped[n].project = 0}

\* Rows are numbered as they are made, and a share without one is none.
Rows ==
    /\ \A n \in CapNames : capped[n].row <= created
          /\ (capped[n].row = 0 => capped[n] = Quotas!NoShare)
    /\ \A h \in Savers : saves[h] # Quotas!Idle => saves[h].row <= created

\* Every share that has no number yet took a row and gave out no number: so far can
\* the numbers have gone, and there is one left for each.
Counted ==
    /\ Cardinality(Unnumbered) <= created
    /\ \A n \in CapNames : capped[n].project <= First + created - Cardinality(Unnumbered)

\* No two shares have the same.
OwnProjects ==
    \A m, n \in CapNames : m # n /\ capped[m].project = capped[n].project => capped[m].project = 0

\* What a save that its share outlived has seen and done is so still, and its cap is
\* the stored one as long as no other save of the share began.
Agree(h) ==
    /\ saves[h].at \in {"tagging", "limiting"} =>
           saves[h].project = capped[saves[h].name].project /\ saves[h].project # 0
    /\ saves[h].alone => saves[h].cap = capped[saves[h].name].cap
    /\ saves[h].alone /\ saves[h].at = "limiting" => tag[saves[h].name] = saves[h].project

SavesAgree == \A h \in Savers : saves[h] # Quotas!Idle /\ ~Quotas!Stray(h) => Agree(h)

\* A save that is alone shares its name with none.
AloneIsAlone ==
    \A g, h \in Savers :
        saves[g] # Quotas!Idle /\ saves[h] # Quotas!Idle /\ saves[h].alone
           /\ saves[g].name = saves[h].name => g = h

\* The cap of a share is known to be enforced only while it is not being saved.
SureIsStill == \A n \in sure, h \in Savers : ~Quotas!Saving(h, n)

QuotasInv ==
    Quotas!TypeOK /\ Rows /\ Counted /\ OwnProjects /\ SavesAgree /\ AloneIsAlone /\ SureIsStill
    /\ Quotas!CapIsEnforced

LEMMA QuotasTypes ==
    ASSUME Quotas!TypeOK
    PROVE  /\ capped \in [CapNames -> Share] /\ active \in BOOLEAN
           /\ tag \in [CapNames -> Quotas!Projects \cup {0}] /\ limit \in [Quotas!Projects -> Nat]
           /\ saves \in [Savers -> {Quotas!Idle} \cup Save]
           /\ sure \subseteq CapNames /\ created \in 0 .. MaxRows /\ created \in Nat
                 /\ failed \in 0 .. MaxFailures
           /\ \A n \in CapNames : capped[n] \in Share /\ capped[n].row \in Nat /\ capped[n].project \in Quotas!Projects \cup {0}
                               /\ capped[n].cap \in Caps
           /\ \A h \in Savers : saves[h] # Quotas!Idle =>
                 /\ saves[h] \in Save /\ saves[h].name \in CapNames /\ saves[h].row \in 1 .. MaxRows
                 /\ saves[h].cap \in Caps /\ saves[h].project \in Quotas!Projects \cup {0}
                       /\ saves[h].alone \in BOOLEAN
                 /\ saves[h].at \in {"asking", "tagging", "limiting"}
           /\ \A h \in Savers : saves[h] = Quotas!Idle <=> saves[h].at \notin {"asking", "tagging",
                 "limiting"}
<1>1. /\ capped \in [CapNames -> Share] /\ active \in BOOLEAN
      /\ tag \in [CapNames -> Quotas!Projects \cup {0}] /\ limit \in [Quotas!Projects -> Nat]
      /\ saves \in [Savers -> {Quotas!Idle} \cup Save]
      /\ sure \subseteq CapNames /\ created \in 0 .. MaxRows /\ failed \in 0 .. MaxFailures
  BY DEF Quotas!TypeOK, Share, Save
<1>2. created \in Nat
  BY <1>1, QuotasNumbers
<1>3. \A n \in CapNames : capped[n] \in Share /\ capped[n].row \in Nat /\ capped[n].project \in Quotas!Projects \cup {0}
                               /\ capped[n].cap \in Caps
  BY <1>1, QuotasNumbers DEF Share
<1>4. \A h \in Savers : saves[h] # Quotas!Idle =>
                 /\ saves[h] \in Save /\ saves[h].name \in CapNames /\ saves[h].row \in 1 .. MaxRows
                 /\ saves[h].cap \in Caps /\ saves[h].project \in Quotas!Projects \cup {0}
                       /\ saves[h].alone \in BOOLEAN
                 /\ saves[h].at \in {"asking", "tagging", "limiting"}
  BY <1>1 DEF Save
<1>5. \A h \in Savers : saves[h] = Quotas!Idle <=> saves[h].at \notin {"asking", "tagging",
         "limiting"}
  BY <1>4 DEF Quotas!Idle
<1> QED  BY <1>1, <1>2, <1>3, <1>4, <1>5

LEMMA NextIsNext ==
    ASSUME QuotasInv
    PROVE  /\ Quotas!NextProject \in Quotas!Projects /\ Quotas!NextProject \in Nat
           /\ \A n \in CapNames : capped[n].project < Quotas!NextProject
           /\ Quotas!NextProject <= First + created - Cardinality(Unnumbered) + 1
<1>1. /\ created \in Nat /\ created <= MaxRows
      /\ \A n \in CapNames : capped[n].project \in Nat /\ capped[n].project <= First + created
  <2>1. Cardinality(Unnumbered) \in Nat
    <3>1. Unnumbered \subseteq CapNames
      BY DEF Unnumbered
    <3> QED  BY <3>1, QuotasNumbers, FS_Subset, FS_CardinalityType
  <2>2. \A n \in CapNames : capped[n].project \in Quotas!Projects \cup {0}
           /\ created \in 0 .. MaxRows
    BY QuotasTypes DEF QuotasInv
  <2> QED  BY <2>1, <2>2, QuotasNumbers, QuotasTypes
              DEF QuotasInv, Counted, Quotas!Projects
<1>2. Quotas!Given \subseteq Nat /\ Quotas!Given # {}
         /\ \A p \in Quotas!Given : p <= First + created
  BY <1>1, QuotasNumbers DEF Quotas!Given
<1>3. First + created \in Nat
  BY <1>1, QuotasNumbers
<1>4. Quotas!Greatest(Quotas!Given) \in Quotas!Given
         /\ \A q \in Quotas!Given : q <= Quotas!Greatest(Quotas!Given)
  <2>1. \E x \in Quotas!Given : \A y \in Quotas!Given : y <= x
    BY <1>2, <1>3, GreatestNatural
  <2> QED  BY <2>1 DEF Quotas!Greatest
<1>5. First \in Quotas!Given /\ \A n \in CapNames : capped[n].project \in Quotas!Given
  BY DEF Quotas!Given
<1>6. Quotas!Greatest(Quotas!Given) = First
         \/ \E n \in CapNames : Quotas!Greatest(Quotas!Given) = capped[n].project
  BY <1>4 DEF Quotas!Given
<1>7. Cardinality(Unnumbered) \in Nat /\ Cardinality(Unnumbered) <= created
  <2>1. Unnumbered \subseteq CapNames
    BY DEF Unnumbered
  <2> QED  BY <2>1, QuotasNumbers, FS_Subset, FS_CardinalityType DEF QuotasInv, Counted
<1>8. Quotas!Greatest(Quotas!Given) <= First + created - Cardinality(Unnumbered)
  BY <1>1, <1>6, <1>7, QuotasNumbers DEF QuotasInv, Counted
<1>9. Quotas!Greatest(Quotas!Given) \in Nat /\ First <= Quotas!Greatest(Quotas!Given)
  BY <1>2, <1>4, <1>5
<1> QED  BY <1>1, <1>3, <1>4, <1>5, <1>7, <1>8, <1>9, QuotasNumbers
            DEF Quotas!NextProject, Quotas!Projects

\* A step of one save that ends it.
LEMMA SaveEnds ==
    ASSUME QuotasInv, NEW h \in Savers, Quotas!Goto(h, Quotas!Idle), failed' \in 0 .. MaxFailures,
           UNCHANGED <<capped, active, tag, limit, sure, created>>
    PROVE  QuotasInv'
<1>1. \A g \in Savers : saves'[g] = IF g = h THEN Quotas!Idle ELSE saves[g]
  BY QuotasTypes DEF Quotas!Goto, QuotasInv
<1>2. Quotas!TypeOK'
  BY DEF QuotasInv, Quotas!TypeOK, Quotas!Goto
<1>3. Rows' /\ Counted' /\ OwnProjects' /\ Quotas!CapIsEnforced'
  BY <1>1 DEF QuotasInv, Rows, Counted, Unnumbered, OwnProjects, Quotas!CapIsEnforced
<1>4. SavesAgree' /\ AloneIsAlone' /\ SureIsStill'
  BY <1>1
     DEF QuotasInv, SavesAgree, AloneIsAlone, SureIsStill, Quotas!Saving,
         Quotas!Stray, Agree
<1> QED  BY <1>2, <1>3, <1>4 DEF QuotasInv

LEMMA QuotasStep == ASSUME QuotasInv, [Quotas!Next]_quotaVars PROVE QuotasInv'
<1>t. /\ capped \in [CapNames -> Share] /\ active \in BOOLEAN
      /\ tag \in [CapNames -> Quotas!Projects \cup {0}] /\ limit \in [Quotas!Projects -> Nat]
      /\ saves \in [Savers -> {Quotas!Idle} \cup Save]
      /\ sure \subseteq CapNames /\ created \in 0 .. MaxRows /\ created \in Nat
            /\ failed \in 0 .. MaxFailures
      /\ \A n \in CapNames : capped[n] \in Share /\ capped[n].row \in Nat /\ capped[n].project \in Quotas!Projects \cup {0}
                               /\ capped[n].cap \in Caps
      /\ \A h \in Savers : saves[h] # Quotas!Idle =>
                 /\ saves[h] \in Save /\ saves[h].name \in CapNames /\ saves[h].row \in 1 .. MaxRows
                 /\ saves[h].cap \in Caps /\ saves[h].project \in Quotas!Projects \cup {0}
                       /\ saves[h].alone \in BOOLEAN
                 /\ saves[h].at \in {"asking", "tagging", "limiting"}
      /\ \A h \in Savers : saves[h] = Quotas!Idle <=> saves[h].at \notin {"asking", "tagging",
            "limiting"}
  BY QuotasTypes DEF QuotasInv
<1>f. Quotas!Fault => failed' \in 0 .. MaxFailures
  BY <1>t, QuotasNumbers DEF Quotas!Fault
<1>p. 0 \notin Quotas!Projects /\ (\A p \in Quotas!Projects : p \in Nat)
  BY QuotasNumbers DEF Quotas!Projects
<1>c. Cardinality(Unnumbered) \in Nat /\ IsFiniteSet(Unnumbered)
  <2>1. Unnumbered \subseteq CapNames
    BY DEF Unnumbered
  <2> QED  BY <2>1, QuotasNumbers, FS_Subset, FS_CardinalityType
<1>1. CASE Quotas!EnableQuotas
  BY <1>1
     DEF Quotas!EnableQuotas, QuotasInv, Quotas!TypeOK, Rows, Counted, Unnumbered,
         OwnProjects, SavesAgree, AloneIsAlone, SureIsStill, Quotas!CapIsEnforced,
         Quotas!Stray, Agree, Quotas!Saving
<1>2. ASSUME NEW n \in CapNames, Quotas!CreateShare(n) PROVE QuotasInv'
  <2> DEFINE new == [row |-> created + 1, project |-> 0, cap |-> 0]
  <2>1. /\ capped[n] = Quotas!NoShare /\ created < MaxRows /\ created' = created + 1
        /\ capped' = [capped EXCEPT ![n] = new]
        /\ UNCHANGED <<active, tag, limit, saves, sure, failed>>
    BY <1>2 DEF Quotas!CreateShare
  <2>2. new \in Share /\ new.row = created + 1 /\ new.project = 0
    BY <1>t, <2>1, QuotasNumbers DEF Share
  <2> HIDE DEF new
  <2>3. \A m \in CapNames : capped'[m] = IF m = n THEN new ELSE capped[m]
    BY <1>t, <2>1
  <2>4. capped[n].row = 0 /\ capped[n].project = 0
    BY <2>1 DEF Quotas!NoShare
  <2>5. created' \in 0 .. MaxRows /\ created' \in Nat
    BY <1>t, <2>1, QuotasNumbers
  <2>6. Quotas!TypeOK'
    <3>1. capped' \in [CapNames -> Share]
      BY <1>t, <2>1, <2>2
    <3> QED  BY <2>1, <2>5, <3>1 DEF QuotasInv, Quotas!TypeOK, Share
  <2>7. Rows'
    BY <1>t, <2>1, <2>2, <2>3 DEF QuotasInv, Rows
  <2>8. Unnumbered' = Unnumbered \cup {n} /\ n \notin Unnumbered
    BY <1>t, <2>2, <2>3, <2>4 DEF Unnumbered
  <2>9. Cardinality(Unnumbered') = Cardinality(Unnumbered) + 1
    BY <1>c, <2>8, FS_AddElement
  <2>10. Counted'
    <3>1. \A m \in CapNames : capped'[m].project = capped[m].project
      BY <2>2, <2>3, <2>4
    <3>2. First + created' - Cardinality(Unnumbered') = First + created - Cardinality(Unnumbered)
      BY <1>c, <1>t, <2>1, <2>9, QuotasNumbers
    <3>3. Cardinality(Unnumbered') <= created'
      BY <1>c, <1>t, <2>1, <2>9 DEF QuotasInv, Counted
    <3> QED  BY <3>1, <3>2, <3>3 DEF QuotasInv, Counted
  <2>11. OwnProjects'
    BY <2>2, <2>3, <2>4 DEF QuotasInv, OwnProjects
  <2>12. ASSUME NEW h \in Savers, saves[h] # Quotas!Idle, ~Quotas!Stray(h)'
         PROVE saves[h].name # n /\ ~Quotas!Stray(h)
    <3>1. saves[h].row <= created /\ saves[h].row \in Nat
      BY <1>t, <2>12, QuotasNumbers DEF QuotasInv, Rows
    <3>2. saves[h].row # created + 1
      BY <1>t, <3>1
    <3> QED  BY <1>t, <2>1, <2>2, <2>3, <2>12, <3>2 DEF Quotas!Stray
  <2>13. SavesAgree'
    BY <1>t, <2>1, <2>3, <2>12 DEF QuotasInv, SavesAgree, Agree
  <2>14. AloneIsAlone' /\ SureIsStill'
    BY <2>1 DEF QuotasInv, AloneIsAlone, SureIsStill, Quotas!Saving
  <2>15. Quotas!CapIsEnforced'
    <3>1. n \notin sure
      BY <2>4 DEF QuotasInv, Quotas!CapIsEnforced
    <3> QED  BY <1>t, <2>1, <2>3, <3>1 DEF QuotasInv, Quotas!CapIsEnforced
  <2> QED  BY <2>6, <2>7, <2>10, <2>11, <2>13, <2>14, <2>15 DEF QuotasInv
<1>3. ASSUME NEW n \in CapNames, Quotas!DeleteShare(n) PROVE QuotasInv'
  <2>1. /\ capped' = [capped EXCEPT ![n] = Quotas!NoShare] /\ sure' = sure \ {n}
        /\ saves' = saves \/ saves' = Quotas!Crossed(Savers)
        /\ UNCHANGED <<active, tag, limit, created, failed>>
    BY <1>3 DEF Quotas!DeleteShare
  <2>2. Quotas!NoShare \in Share /\ Quotas!NoShare.row = 0 /\ Quotas!NoShare.project = 0
    BY QuotasNumbers DEF Quotas!NoShare, Share
  <2>3. \A m \in CapNames : capped'[m] = IF m = n THEN Quotas!NoShare ELSE capped[m]
    BY <1>t, <2>1
  <2>4. ASSUME NEW h \in Savers
        PROVE  saves'[h] = saves[h]
                  \/ (saves[h] # Quotas!Idle /\ saves'[h] = [saves[h] EXCEPT !.alone = FALSE])
    <3>1. Quotas!Crossed(Savers)[h] = IF saves[h] # Quotas!Idle
             THEN [saves[h] EXCEPT !.alone = FALSE] ELSE saves[h]
      BY DEF Quotas!Crossed
    <3>2. CASE saves' = saves
      BY <3>2
    <3>3. CASE saves' = Quotas!Crossed(Savers)
      <4>1. CASE saves[h] = Quotas!Idle
        BY <3>1, <3>3, <4>1
      <4>2. CASE saves[h] # Quotas!Idle
        BY <3>1, <3>3, <4>2
      <4> QED  BY <4>1, <4>2
    <3> QED  BY <2>1, <3>2, <3>3
  <2>5. \A h \in Savers : /\ (saves'[h] = Quotas!Idle <=> saves[h] = Quotas!Idle)
                            /\ saves'[h] \in {Quotas!Idle} \cup Save
                            /\ (saves[h] # Quotas!Idle => /\ saves'[h].name = saves[h].name /\ saves'[h].row = saves[h].row
                                  /\ saves'[h].at = saves[h].at /\ saves'[h].cap = saves[h].cap
                                  /\ saves'[h].project = saves[h].project
                                  /\ (saves'[h].alone => saves[h].alone))
    <3> SUFFICES ASSUME NEW h \in Savers
                 PROVE  /\ (saves'[h] = Quotas!Idle <=> saves[h] = Quotas!Idle)
                        /\ saves'[h] \in {Quotas!Idle} \cup Save
                        /\ (saves[h] # Quotas!Idle =>
                              /\ saves'[h].name = saves[h].name /\ saves'[h].row = saves[h].row
                              /\ saves'[h].at = saves[h].at /\ saves'[h].cap = saves[h].cap
                              /\ saves'[h].project = saves[h].project
                              /\ (saves'[h].alone => saves[h].alone))
      OBVIOUS
    <3>1. CASE saves'[h] = saves[h]
      BY <1>t, <3>1
    <3>2. CASE saves[h] # Quotas!Idle /\ saves'[h] = [saves[h] EXCEPT !.alone = FALSE]
      <4>1. saves[h] \in Save
        BY <1>t, <3>2
      <4>2. /\ saves'[h].name = saves[h].name /\ saves'[h].row = saves[h].row
            /\ saves'[h].at = saves[h].at /\ saves'[h].cap = saves[h].cap
            /\ saves'[h].project = saves[h].project /\ ~saves'[h].alone /\ saves'[h] \in Save
        BY <3>2, <4>1 DEF Save
      <4>3. saves'[h] # Quotas!Idle
        BY <1>t, <3>2, <4>2 DEF Quotas!Idle
      <4> QED  BY <3>2, <4>2, <4>3
    <3> QED  BY <2>4, <3>1, <3>2
  <2>6. saves' \in [Savers -> {Quotas!Idle} \cup Save]
    <3>1. \A h \in Savers : Quotas!Crossed(Savers)[h] \in {Quotas!Idle} \cup Save
      BY <1>t DEF Quotas!Crossed, Save
    <3>2. Quotas!Crossed(Savers) \in [Savers -> {Quotas!Idle} \cup Save]
      BY <3>1 DEF Quotas!Crossed
    <3> QED  BY <1>t, <2>1, <3>2
  <2>7. Quotas!TypeOK'
    <3>1. capped' \in [CapNames -> Share]
      BY <1>t, <2>1, <2>2
    <3> QED  BY <2>1, <2>6, <3>1 DEF QuotasInv, Quotas!TypeOK, Share, Save
  <2>8. Rows'
    BY <1>t, <2>1, <2>2, <2>3, <2>5 DEF QuotasInv, Rows
  <2>9. Counted'
    <3>1. Unnumbered' \subseteq Unnumbered
      BY <2>2, <2>3 DEF Unnumbered
    <3>2. Cardinality(Unnumbered') <= Cardinality(Unnumbered) /\ Cardinality(Unnumbered') \in Nat
      BY <1>c, <3>1, FS_Subset, FS_CardinalityType
    <3>3. \A m \in CapNames : capped'[m].project \in Nat /\ capped'[m].project <= capped[m].project
                           /\ capped[m].project \in Nat
      BY <1>p, <1>t, <2>2, <2>3
    <3> QED  BY <1>c, <1>t, <2>1, <3>2, <3>3, QuotasNumbers DEF QuotasInv, Counted
  <2>10. OwnProjects'
    BY <2>2, <2>3 DEF QuotasInv, OwnProjects
  <2>11. ASSUME NEW h \in Savers, saves[h] # Quotas!Idle, ~Quotas!Stray(h)'
         PROVE saves[h].name # n /\ ~Quotas!Stray(h)
    <3>1. saves[h].row # 0
      BY <1>t, <2>11
    <3> QED  BY <1>t, <2>2, <2>3, <2>5, <2>11, <3>1 DEF Quotas!Stray
  <2>12. SavesAgree'
    <3> SUFFICES ASSUME NEW h \in Savers, saves'[h] # Quotas!Idle, ~Quotas!Stray(h)' PROVE Agree(h)'
      BY DEF SavesAgree
    <3>1. Agree(h) /\ saves[h].name # n /\ saves[h].name \in CapNames
      BY <1>t, <2>5, <2>11 DEF QuotasInv, SavesAgree
    <3> QED  BY <2>1, <2>3, <2>5, <3>1 DEF Agree
  <2>13. AloneIsAlone'
    BY <2>5 DEF QuotasInv, AloneIsAlone
  <2>14. SureIsStill'
    BY <2>1, <2>5 DEF QuotasInv, SureIsStill, Quotas!Saving
  <2>15. Quotas!CapIsEnforced'
    BY <1>t, <2>1, <2>3 DEF QuotasInv, Quotas!CapIsEnforced
  <2> QED  BY <2>7, <2>8, <2>9, <2>10, <2>12, <2>13, <2>14, <2>15 DEF QuotasInv
<1>4. ASSUME NEW h \in Savers, NEW n \in CapNames, NEW cap \in Caps, Quotas!Patch(h, n, cap)
      PROVE QuotasInv'
  <2> DEFINE others == {g \in Savers : Quotas!Saving(g, n)}
             single == others = {} /\ \A g \in Savers : ~Quotas!Stray(g)
             mine == [at |-> "asking", name |-> n, row |-> capped[n].row, cap |-> cap,
                      project |-> 0, alone |-> single]
  <2>1. /\ saves[h] = Quotas!Idle /\ capped[n] # Quotas!NoShare
        /\ capped' = [capped EXCEPT ![n].cap = cap] /\ sure' = sure \ {n}
        /\ saves' = [Quotas!Crossed(others) EXCEPT ![h] = mine]
        /\ UNCHANGED <<active, tag, limit, created, failed>>
    BY <1>4 DEF Quotas!Patch
  <2>2. capped[n].row \in 1 .. MaxRows /\ capped[n].row <= created
    BY <1>t, <2>1 DEF QuotasInv, Rows, Share
  <2>3. /\ mine \in Save /\ mine # Quotas!Idle /\ mine.name = n /\ mine.row = capped[n].row
              /\ mine.cap = cap
        /\ mine.at = "asking" /\ (mine.alone => others = {})
    <3>1. single \in BOOLEAN
      OBVIOUS
    <3>2. mine.name = n /\ mine.row = capped[n].row /\ mine.cap = cap /\ mine.at = "asking"
          /\ (mine.alone => others = {})
      OBVIOUS
    <3>3. mine # Quotas!Idle
      BY <1>t, <3>2 DEF Quotas!Idle
    <3> QED  BY <2>2, <3>1, <3>2, <3>3 DEF Save
  <2> HIDE DEF mine, single
  <2>4. \A m \in CapNames : /\ capped'[m].row = capped[m].row /\ capped'[m].project = capped[m].project
                         /\ capped'[m].cap = IF m = n THEN cap ELSE capped[m].cap
    BY <1>t, <2>1 DEF Share
  <2>5. capped' \in [CapNames -> Share]
    BY <1>t, <2>1 DEF Share
  <2>6. saves'[h] = mine
    BY <2>1 DEF Quotas!Crossed
  <2>7. ASSUME NEW g \in Savers, g # h
        PROVE  saves'[g] = IF g \in others /\ saves[g] # Quotas!Idle
                  THEN [saves[g] EXCEPT !.alone = FALSE]
                           ELSE saves[g]
    BY <2>1, <2>7 DEF Quotas!Crossed
  <2>8. ASSUME NEW g \in Savers, g # h
        PROVE  /\ saves'[g] \in {Quotas!Idle} \cup Save
                     /\ (saves'[g] = Quotas!Idle <=> saves[g] = Quotas!Idle)
               /\ (saves[g] # Quotas!Idle =>
                     /\ saves'[g].name = saves[g].name /\ saves'[g].row = saves[g].row
                     /\ saves'[g].at = saves[g].at /\ saves'[g].cap = saves[g].cap
                     /\ saves'[g].project = saves[g].project
                     /\ (saves'[g].alone => saves[g].alone /\ g \notin others))
    <3>1. CASE g \in others /\ saves[g] # Quotas!Idle
      <4>1. saves'[g] = [saves[g] EXCEPT !.alone = FALSE]
        BY <2>7, <2>8, <3>1
      <4>2. saves[g] \in Save
        BY <1>t, <3>1
      <4>3. /\ saves'[g].name = saves[g].name /\ saves'[g].row = saves[g].row
            /\ saves'[g].at = saves[g].at /\ saves'[g].cap = saves[g].cap
            /\ saves'[g].project = saves[g].project /\ ~saves'[g].alone /\ saves'[g] \in Save
        BY <4>1, <4>2 DEF Save
      <4>4. saves'[g] # Quotas!Idle
        BY <1>t, <3>1, <4>3 DEF Quotas!Idle
      <4> QED  BY <3>1, <4>3, <4>4
    <3>2. CASE ~(g \in others /\ saves[g] # Quotas!Idle)
      <4>1. saves'[g] = saves[g]
        BY <2>7, <2>8, <3>2
      <4> QED  BY <1>t, <3>2, <4>1
    <3> QED  BY <3>1, <3>2
  <2>9. saves' \in [Savers -> {Quotas!Idle} \cup Save]
    <3>1. \A g \in Savers : saves'[g] \in {Quotas!Idle} \cup Save
      BY <2>3, <2>6, <2>8
    <3>2. DOMAIN saves' = Savers /\ saves' = [g \in Savers |-> saves'[g]]
      BY <2>1 DEF Quotas!Crossed
    <3> QED  BY <3>1, <3>2
  <2>10. Quotas!TypeOK'
    BY <2>1, <2>5, <2>9 DEF QuotasInv, Quotas!TypeOK, Share, Save
  <2>11. Rows'
    <3>1. ASSUME NEW m \in CapNames
          PROVE capped'[m].row <= created' /\ (capped'[m].row = 0 => capped'[m] = Quotas!NoShare)
      <4>1. CASE m = n
        BY <2>1, <2>2, <2>4, <4>1
      <4>2. CASE m # n
        BY <1>t, <2>1, <4>2 DEF QuotasInv, Rows
      <4> QED  BY <4>1, <4>2
    <3>2. ASSUME NEW g \in Savers, saves'[g] # Quotas!Idle PROVE saves'[g].row <= created'
      <4>1. CASE g = h
        BY <2>1, <2>2, <2>3, <2>6, <4>1
      <4>2. CASE g # h
        BY <2>1, <2>8, <3>2, <4>2 DEF QuotasInv, Rows
      <4> QED  BY <4>1, <4>2
    <3> QED  BY <3>1, <3>2 DEF Rows
  <2>12. Counted' /\ OwnProjects'
    <3>1. Unnumbered' = Unnumbered
      BY <2>4 DEF Unnumbered
    <3> QED  BY <2>1, <2>4, <3>1 DEF QuotasInv, Counted, OwnProjects
  <2>13. SavesAgree'
    <3> SUFFICES ASSUME NEW g \in Savers, saves'[g] # Quotas!Idle, ~Quotas!Stray(g)' PROVE Agree(g)'
      BY DEF SavesAgree
    <3>1. CASE g = h
      BY <2>3, <2>4, <2>6, <3>1 DEF Agree
    <3>2. CASE g # h
      <4>1. saves[g] # Quotas!Idle /\ ~Quotas!Stray(g) /\ saves[g].name \in CapNames
        BY <1>t, <2>4, <2>8, <3>2 DEF Quotas!Stray
      <4>2. Agree(g)
        BY <4>1 DEF QuotasInv, SavesAgree
      <4>3. saves'[g].alone => saves[g].name # n
        BY <2>8, <3>2, <4>1 DEF Quotas!Saving
      <4> QED  BY <2>1, <2>4, <2>8, <3>2, <4>1, <4>2, <4>3 DEF Agree
    <3> QED  BY <3>1, <3>2
  <2>14. AloneIsAlone'
    <3> SUFFICES ASSUME NEW g \in Savers, NEW k \in Savers, saves'[g] # Quotas!Idle,
                        saves'[k] # Quotas!Idle,
                        saves'[k].alone, saves'[g].name = saves'[k].name
                 PROVE  g = k
      BY DEF AloneIsAlone
    <3>1. CASE g # h /\ k # h
      BY <2>8, <3>1 DEF QuotasInv, AloneIsAlone
    <3>2. CASE g # h /\ k = h
      BY <2>3, <2>6, <2>8, <3>2 DEF Quotas!Saving
    <3>3. CASE g = h /\ k # h
      BY <2>3, <2>6, <2>8, <3>3 DEF Quotas!Saving
    <3> QED  BY <3>1, <3>2, <3>3
  <2>15. SureIsStill'
    <3> SUFFICES ASSUME NEW m \in sure', NEW g \in Savers PROVE ~Quotas!Saving(g, m)'
      BY DEF SureIsStill
    <3>1. m \in sure /\ m # n
      BY <2>1
    <3>2. CASE g = h
      BY <2>3, <2>6, <3>1, <3>2 DEF Quotas!Saving
    <3>3. CASE g # h
      BY <2>8, <3>1, <3>3 DEF QuotasInv, SureIsStill, Quotas!Saving
    <3> QED  BY <3>2, <3>3
  <2>16. Quotas!CapIsEnforced'
    BY <1>t, <2>1, <2>4 DEF QuotasInv, Quotas!CapIsEnforced
  <2> QED  BY <2>10, <2>11, <2>12, <2>13, <2>14, <2>15, <2>16 DEF QuotasInv
<1>5. ASSUME NEW h \in Savers, Quotas!Warn(h) PROVE QuotasInv'
  <2>1. failed' = failed /\ Quotas!Goto(h, Quotas!Idle)
           /\ UNCHANGED <<capped, active, tag, limit, sure, created>>
    BY <1>5 DEF Quotas!Warn
  <2> QED  BY <1>t, <2>1, SaveEnds
<1>6. ASSUME NEW h \in Savers, Quotas!SetFails(h) PROVE QuotasInv'
  <2>1. Quotas!Fault /\ Quotas!Goto(h, Quotas!Idle)
           /\ UNCHANGED <<capped, active, tag, limit, sure, created>>
    BY <1>6 DEF Quotas!SetFails
  <2> QED  BY <1>f, <2>1, SaveEnds
<1>7. ASSUME NEW h \in Savers, Quotas!EnsureQuotaProjectId(h) PROVE QuotasInv'
  <2> DEFINE w == saves[h]
             has == ~Quotas!Stray(h) /\ capped[w.name].project # 0
             project == IF has THEN capped[w.name].project ELSE Quotas!NextProject
             next == [at |-> "tagging", name |-> w.name, row |-> w.row, cap |-> w.cap,
                      project |-> project, alone |-> w.alone]
  <2>1. /\ w.at = "asking"
        /\ capped' = IF Quotas!Stray(h) THEN capped ELSE [capped EXCEPT ![w.name].project = project]
        /\ saves' = [saves EXCEPT ![h] = next]
        /\ UNCHANGED <<active, tag, limit, sure, created, failed>>
    BY <1>7 DEF Quotas!EnsureQuotaProjectId, Quotas!Goto
  <2>2. w \in Save /\ w # Quotas!Idle /\ w.name \in CapNames /\ w.row # 0
    <3>1. w # Quotas!Idle
      BY <1>t, <2>1
    <3> QED  BY <1>t, <3>1
  <2>3. project \in Quotas!Projects /\ project # 0 /\ project \in Nat
    BY <1>p, <1>t, <2>2, NextIsNext DEF QuotasInv
  <2>4. /\ next \in Save /\ next # Quotas!Idle /\ next.name = w.name /\ next.row = w.row
              /\ next.cap = w.cap
        /\ next.at = "tagging" /\ next.project = project /\ (next.alone <=> w.alone)
    <3>1. next \in Save
      BY <2>2, <2>3 DEF Save
    <3>2. next.at = "tagging" /\ next.name = w.name /\ next.row = w.row /\ next.cap = w.cap
          /\ next.project = project /\ (next.alone <=> w.alone)
      OBVIOUS
    <3> QED  BY <1>t, <3>1, <3>2 DEF Quotas!Idle
  <2> HIDE DEF next
  <2>5. saves'[h] = next /\ \A g \in Savers : g # h => saves'[g] = saves[g]
    BY <1>t, <2>1
  <2>6. ASSUME NEW m \in CapNames
        PROVE  /\ capped'[m].row = capped[m].row /\ capped'[m].cap = capped[m].cap
               /\ capped'[m].project = IF m = w.name /\ ~Quotas!Stray(h) THEN project
                     ELSE capped[m].project
    BY <1>t, <2>1, <2>2 DEF Share
  <2>7. capped' \in [CapNames -> Share]
    BY <1>t, <2>1, <2>2, <2>3 DEF Share
  <2>8. Quotas!TypeOK'
    <3>1. saves' \in [Savers -> {Quotas!Idle} \cup Save]
      BY <1>t, <2>1, <2>4
    <3> QED  BY <2>1, <2>7, <3>1 DEF QuotasInv, Quotas!TypeOK, Share, Save
  <2>9. Rows'
    <3>1. ASSUME NEW m \in CapNames
          PROVE capped'[m].row <= created' /\ (capped'[m].row = 0 => capped'[m] = Quotas!NoShare)
      <4>1. CASE m = w.name /\ ~Quotas!Stray(h)
        BY <1>t, <2>1, <2>2, <2>6, <4>1 DEF QuotasInv, Rows, Quotas!Stray
      <4>2. CASE ~(m = w.name /\ ~Quotas!Stray(h))
        <5>1. capped'[m] = capped[m]
          BY <1>t, <2>1, <4>2
        <5> QED  BY <2>1, <5>1 DEF QuotasInv, Rows
      <4> QED  BY <4>1, <4>2
    <3>2. \A g \in Savers : saves'[g] # Quotas!Idle => saves'[g].row <= created'
      BY <2>1, <2>2, <2>4, <2>5 DEF QuotasInv, Rows
    <3> QED  BY <3>1, <3>2 DEF Rows
  <2>10. ASSUME has \/ Quotas!Stray(h)
         PROVE \A m \in CapNames : capped'[m].project = capped[m].project
    BY <2>6, <2>10
  <2>11. Counted' /\ OwnProjects'
    <3>1. CASE has \/ Quotas!Stray(h)
      <4>1. Unnumbered' = Unnumbered
        BY <2>6, <2>10, <3>1 DEF Unnumbered
      <4> QED  BY <2>1, <2>10, <3>1, <4>1 DEF QuotasInv, Counted, OwnProjects
    <3>2. CASE ~has /\ ~Quotas!Stray(h)
      <4>1. project = Quotas!NextProject /\ capped[w.name].project = 0 /\ capped[w.name].row # 0
        BY <2>2, <3>2 DEF Quotas!Stray
      <4>2. Unnumbered' = Unnumbered \ {w.name} /\ w.name \in Unnumbered
        BY <2>2, <2>3, <2>6, <3>2, <4>1 DEF Unnumbered
      <4>3. Cardinality(Unnumbered') = Cardinality(Unnumbered) - 1
        BY <1>c, <4>2, FS_RemoveElement
      <4>4. Cardinality(Unnumbered') <= created'
        BY <1>c, <1>t, <2>1, <4>3 DEF QuotasInv, Counted
      <4>5. \A m \in CapNames : capped[m].project < Quotas!NextProject /\ capped[m].project \in Nat
        BY <1>p, <1>t, NextIsNext
      <4>6. Quotas!NextProject \in Nat
               /\ Quotas!NextProject <= First + created - Cardinality(Unnumbered) + 1
        BY NextIsNext
      <4>7. First + created - Cardinality(Unnumbered) + 1 = First + created' - Cardinality(Unnumbered')
            /\ First + created - Cardinality(Unnumbered) \in Int
        BY <1>c, <1>t, <2>1, <4>3, QuotasNumbers
      <4>8. Counted'
        <5>1. \A m \in CapNames : capped[m].project <= First + created - Cardinality(Unnumbered)
          BY DEF QuotasInv, Counted
        <5>2. ASSUME NEW m \in CapNames
              PROVE capped'[m].project <= First + created' - Cardinality(Unnumbered')
          <6>1. capped[m].project <= First + created - Cardinality(Unnumbered) + 1
            BY <4>5, <4>7, <5>1
          <6> QED  BY <2>6, <4>1, <4>6, <4>7, <6>1
        <5> QED  BY <4>4, <5>2 DEF Counted
      <4>9. OwnProjects'
        BY <2>2, <2>6, <3>2, <4>1, <4>5, <4>6 DEF QuotasInv, OwnProjects
      <4> QED  BY <4>8, <4>9
    <3> QED  BY <3>1, <3>2
  <2>12. SavesAgree'
    <3> SUFFICES ASSUME NEW g \in Savers, saves'[g] # Quotas!Idle, ~Quotas!Stray(g)' PROVE Agree(g)'
      BY DEF SavesAgree
    <3>1. CASE g = h
      <4>1. ~Quotas!Stray(h)
        BY <2>2, <2>4, <2>5, <2>6, <3>1 DEF Quotas!Stray
      <4>2. Agree(h)
        BY <2>2, <4>1 DEF QuotasInv, SavesAgree
      <4>3. capped'[w.name].project = project /\ capped'[w.name].cap = capped[w.name].cap
        BY <2>2, <2>6, <4>1
      <4> QED  BY <2>3, <2>4, <2>5, <3>1, <4>2, <4>3 DEF Agree
    <3>2. CASE g # h
      <4>1. saves[g] # Quotas!Idle /\ saves'[g] = saves[g] /\ saves[g].name \in CapNames
        BY <1>t, <2>5, <3>2
      <4>2. ~Quotas!Stray(g) /\ Agree(g)
        BY <2>6, <4>1 DEF Quotas!Stray, QuotasInv, SavesAgree
      <4>3. saves[g].at \in {"tagging", "limiting"}
               => saves[g].project = capped'[saves[g].name].project
        BY <2>6, <4>1, <4>2 DEF Agree
      <4> QED  BY <2>1, <2>6, <4>1, <4>2, <4>3 DEF Agree
    <3> QED  BY <3>1, <3>2
  <2>13. AloneIsAlone' /\ SureIsStill'
    BY <2>1, <2>2, <2>4, <2>5 DEF QuotasInv, AloneIsAlone, SureIsStill, Quotas!Saving
  <2>14. Quotas!CapIsEnforced'
    <3>1. w.name \notin sure
      BY <2>2 DEF QuotasInv, SureIsStill, Quotas!Saving
    <3> QED  BY <1>t, <2>1, <2>6, <3>1 DEF QuotasInv, Quotas!CapIsEnforced
  <2> QED  BY <2>8, <2>9, <2>11, <2>12, <2>13, <2>14 DEF QuotasInv
<1>8. ASSUME NEW h \in Savers, Quotas!TagTree(h) PROVE QuotasInv'
  <2> DEFINE w == saves[h]
             next == [w EXCEPT !.at = "limiting"]
  <2>1. /\ w.at = "tagging" /\ tag' = [tag EXCEPT ![w.name] = w.project]
        /\ saves' = [saves EXCEPT ![h] = next] /\ sure' = IF Quotas!Stray(h) THEN {} ELSE sure
        /\ UNCHANGED <<capped, active, limit, created, failed>>
    BY <1>8 DEF Quotas!TagTree, Quotas!Goto
  <2>2. w \in Save /\ w # Quotas!Idle /\ w.name \in CapNames
           /\ w.project \in Quotas!Projects \cup {0}
    <3>1. w # Quotas!Idle
      BY <1>t, <2>1
    <3> QED  BY <1>t, <3>1
  <2>3. /\ next \in Save /\ next # Quotas!Idle /\ next.name = w.name /\ next.row = w.row
              /\ next.cap = w.cap
        /\ next.at = "limiting" /\ next.project = w.project /\ (next.alone <=> w.alone)
    <3>1. next \in Save /\ next.name = w.name /\ next.row = w.row /\ next.cap = w.cap
        /\ next.at = "limiting" /\ next.project = w.project /\ (next.alone <=> w.alone)
      BY <2>2 DEF Save
    <3> QED  BY <1>t, <3>1 DEF Quotas!Idle
  <2> HIDE DEF next
  <2>4. saves'[h] = next /\ \A g \in Savers : g # h => saves'[g] = saves[g]
    BY <1>t, <2>1
  <2>5. tag'[w.name] = w.project /\ \A m \in CapNames : m # w.name => tag'[m] = tag[m]
    BY <1>t, <2>1, <2>2
  <2>6. Quotas!TypeOK'
    <3>1. saves' \in [Savers -> {Quotas!Idle} \cup Save]
             /\ tag' \in [CapNames -> Quotas!Projects \cup {0}]
          /\ sure' \subseteq CapNames
      BY <1>t, <2>1, <2>2, <2>3
    <3> QED  BY <2>1, <3>1 DEF QuotasInv, Quotas!TypeOK, Save
  <2>7. Rows' /\ Counted' /\ OwnProjects'
    BY <2>1, <2>2, <2>3, <2>4 DEF QuotasInv, Rows, Counted, Unnumbered, OwnProjects
  <2>8. SavesAgree'
    <3> SUFFICES ASSUME NEW g \in Savers, saves'[g] # Quotas!Idle, ~Quotas!Stray(g)' PROVE Agree(g)'
      BY DEF SavesAgree
    <3>1. CASE g = h
      BY <2>1, <2>2, <2>3, <2>4, <2>5, <3>1
         DEF QuotasInv, SavesAgree, Agree, Quotas!Stray
    <3>2. CASE g # h
      <4>1. saves[g] # Quotas!Idle /\ saves'[g] = saves[g] /\ ~Quotas!Stray(g) /\ Agree(g)
               /\ saves[g].name \in CapNames
        BY <1>t, <2>1, <2>4, <3>2 DEF Quotas!Stray, QuotasInv, SavesAgree
      <4>2. saves[g].alone => saves[g].name # w.name
        BY <2>2, <3>2, <4>1 DEF QuotasInv, AloneIsAlone
      <4> QED  BY <2>1, <2>5, <4>1, <4>2 DEF Agree
    <3> QED  BY <3>1, <3>2
  <2>9. AloneIsAlone' /\ SureIsStill'
    BY <2>1, <2>2, <2>3, <2>4 DEF QuotasInv, AloneIsAlone, SureIsStill, Quotas!Saving
  <2>10. Quotas!CapIsEnforced'
    <3>1. w.name \notin sure
      BY <2>2 DEF QuotasInv, SureIsStill, Quotas!Saving
    <3> QED  BY <1>t, <2>1, <2>5, <3>1 DEF QuotasInv, Quotas!CapIsEnforced
  <2> QED  BY <2>6, <2>7, <2>8, <2>9, <2>10 DEF QuotasInv
<1>9. ASSUME NEW h \in Savers, Quotas!SetLimit(h) PROVE QuotasInv'
  <2> DEFINE w == saves[h]
  <2>1. /\ w.at = "limiting" /\ limit' = [limit EXCEPT ![w.project] = Quotas!Kib(w.cap)]
        /\ sure' = IF Quotas!Stray(h) THEN {} ELSE IF w.alone THEN sure \cup {w.name}
              ELSE sure \ {w.name}
        /\ saves' = [saves EXCEPT ![h] = Quotas!Idle]
        /\ UNCHANGED <<capped, active, tag, created, failed>>
    BY <1>9 DEF Quotas!SetLimit, Quotas!Goto
  <2>2. w \in Save /\ w # Quotas!Idle /\ w.name \in CapNames /\ w.cap \in Caps
    <3>1. w # Quotas!Idle
      BY <1>t, <2>1
    <3> QED  BY <1>t, <3>1
  <2>3. saves'[h] = Quotas!Idle /\ \A g \in Savers : g # h => saves'[g] = saves[g]
    BY <1>t, <2>1
  <2>4. \A p \in Quotas!Projects : limit'[p] = IF p = w.project THEN Quotas!Kib(w.cap) ELSE limit[p]
    BY <1>t, <2>1
  <2>5. Quotas!TypeOK'
    <3>1. saves' \in [Savers -> {Quotas!Idle} \cup Save] /\ limit' \in [Quotas!Projects -> Nat]
             /\ sure' \subseteq CapNames
      BY <1>t, <2>1, <2>2, KibCaps
    <3> QED  BY <2>1, <3>1 DEF QuotasInv, Quotas!TypeOK, Save
  <2>6. Rows' /\ Counted' /\ OwnProjects'
    BY <2>1, <2>3 DEF QuotasInv, Rows, Counted, Unnumbered, OwnProjects
  <2>7. SavesAgree' /\ AloneIsAlone'
    BY <2>1, <2>3 DEF QuotasInv, SavesAgree, AloneIsAlone, Agree, Quotas!Stray
  <2>8. SureIsStill'
    <3> SUFFICES ASSUME NEW m \in sure', NEW g \in Savers, g # h PROVE ~Quotas!Saving(g, m)'
      BY <2>3 DEF SureIsStill, Quotas!Saving
    <3>1. CASE m = w.name
      <4>1. w.alone
        BY <2>1, <3>1
      <4> QED  BY <2>2, <2>3, <3>1, <4>1 DEF QuotasInv, AloneIsAlone, Quotas!Saving
    <3>2. CASE m # w.name
      <4>1. m \in sure
        BY <2>1, <3>2
      <4> QED  BY <2>3, <4>1 DEF QuotasInv, SureIsStill, Quotas!Saving
    <3> QED  BY <3>1, <3>2
  <2>9. Quotas!CapIsEnforced'
    <3> SUFFICES ASSUME NEW n \in sure'
                 PROVE  tag[n] = capped[n].project /\ tag[n] # 0 /\ Capped(limit'[tag[n]], capped[n].cap)
      BY <2>1 DEF Quotas!CapIsEnforced, Capped
    <3>1. ~Quotas!Stray(h) /\ n \in CapNames
      BY <1>t, <2>1, <2>2
    <3>2. Agree(h)
      BY <2>2, <3>1 DEF QuotasInv, SavesAgree
    <3>3. w.project = capped[w.name].project /\ w.project # 0
      BY <2>1, <3>2 DEF Agree
    <3>4. capped[n].project \in Quotas!Projects \cup {0}
      BY <1>t, <3>1
    <3>5. CASE n = w.name
      <4>1. w.alone
        BY <2>1, <3>1, <3>5
      <4>2. Capped(Quotas!Kib(w.cap), w.cap)
        BY <2>2, KibCaps
      <4> QED  BY <2>1, <2>4, <3>2, <3>3, <3>4, <3>5, <4>1, <4>2 DEF Agree
    <3>6. CASE n # w.name
      <4>1. n \in sure
        BY <2>1, <3>1, <3>6
      <4>2. tag[n] = capped[n].project /\ tag[n] # 0 /\ Capped(limit[tag[n]], capped[n].cap)
        BY <4>1 DEF QuotasInv, Quotas!CapIsEnforced, Capped
      <4>3. capped[n].project # w.project
        BY <2>2, <3>1, <3>3, <3>6 DEF QuotasInv, OwnProjects
      <4> QED  BY <2>4, <3>4, <4>2, <4>3
    <3> QED  BY <3>5, <3>6
  <2> QED  BY <2>5, <2>6, <2>7, <2>8, <2>9 DEF QuotasInv
<1>10. CASE UNCHANGED quotaVars
  BY <1>10
     DEF quotaVars, QuotasInv, Quotas!TypeOK, Rows, Counted, Unnumbered, OwnProjects,
         SavesAgree, AloneIsAlone, SureIsStill, Quotas!CapIsEnforced, Quotas!Stray,
         Agree, Quotas!Saving
<1>11. CASE Quotas!Next
  BY <1>1, <1>2, <1>3, <1>4, <1>5, <1>6, <1>7, <1>8, <1>9, <1>11 DEF Quotas!Next
<1> QED  BY <1>10, <1>11

LEMMA QuotasStart == Quotas!Init => QuotasInv
<1> SUFFICES ASSUME Quotas!Init PROVE QuotasInv
  OBVIOUS
<1>1. /\ \A n \in CapNames : capped[n] = Quotas!NoShare
      /\ \A h \in Savers : saves[h] = Quotas!Idle
      /\ sure = {} /\ created = 0 /\ failed = 0 /\ active = FALSE
  BY DEF Quotas!Init
<1>2. capped \in [CapNames -> Share]
  <2>1. Quotas!NoShare \in Share
    BY QuotasNumbers DEF Quotas!NoShare, Share
  <2> QED  BY <2>1 DEF Quotas!Init
<1>3. tag \in [CapNames -> Quotas!Projects \cup {0}] /\ limit \in [Quotas!Projects -> Nat]
      /\ saves \in [Savers -> {Quotas!Idle} \cup Save]
  BY QuotasNumbers DEF Quotas!Init
<1>4. Quotas!TypeOK
  <2>1. 0 \in 0 .. MaxRows /\ 0 \in 0 .. MaxFailures
    BY QuotasNumbers
  <2> QED  BY <1>1, <1>2, <1>3, <2>1 DEF Quotas!TypeOK, Share, Save
<1>5. Rows /\ OwnProjects
  BY <1>1 DEF Rows, OwnProjects, Quotas!NoShare
<1>6. Counted
  <2>1. Unnumbered = {}
    BY <1>1 DEF Unnumbered, Quotas!NoShare
  <2>2. Cardinality(Unnumbered) = 0
    BY <2>1, FS_EmptySet
  <2> QED  BY <1>1, <2>2, QuotasNumbers DEF Counted, Quotas!NoShare
<1>7. SavesAgree /\ AloneIsAlone /\ SureIsStill /\ Quotas!CapIsEnforced
  BY <1>1 DEF SavesAgree, AloneIsAlone, SureIsStill, Quotas!CapIsEnforced
<1> QED  BY <1>4, <1>5, <1>6, <1>7 DEF QuotasInv

\* quota.ts, db/shares.ts: a cap that was answered without a warning is what the kernel
\* enforces on the share's folder, to the KiB, under a number no other share has.
THEOREM CapsAreEnforced == StorageSpec => []CapIsEnforced
<1>1. QuotasInv => CapIsEnforced
  BY DEF QuotasInv, CapIsEnforced
<1>2. StorageInit => QuotasInv
  BY QuotasStart DEF StorageInit
<1>3. QuotasInv /\ [StorageNext]_storageVars => QuotasInv'
  BY QuotasStep, StorageSteps
<1> QED  BY <1>1, <1>2, <1>3, PTL DEF StorageSpec

-----------------------------------------------------------------------------
(* Access *)

LEMMA LowestOf == ASSUME NEW S, S \subseteq Access!Levels, S # {}
                  PROVE  Access!Lowest(S) \in S /\ \A y \in S : Access!Lowest(S) <= y
<1>1. S \subseteq Nat
  BY DEF Access!Levels
<1>2. \E x \in S : \A y \in S : x <= y
  BY <1>1, LeastNatural
<1> QED  BY <1>2 DEF Access!Lowest

LEMMA HighestOf == ASSUME NEW S, S \subseteq Nat, S # {}, NEW B \in Nat, \A x \in S : x <= B
                   PROVE  Access!Highest(S) \in S /\ \A y \in S : y <= Access!Highest(S)
<1>1. \E x \in S : \A y \in S : y <= x
  BY GreatestNatural
<1> QED  BY <1>1 DEF Access!Highest

LEMMA EffectiveIsLevel == ASSUME Access!TypeOK, NEW u \in people
                          PROVE Access!EffectiveAccess(u) \in Access!Levels
<1> DEFINE S == {share.grants[u], share.guest} \cup {share.grants[g] : g \in Access!GroupsOf(u)}
<1>1. S \subseteq Access!Levels /\ S # {}
  BY DEF Access!TypeOK, Access!Subjects, Access!GroupsOf
<1>1a. S \subseteq Nat /\ 2 \in Nat /\ \A x \in S : x <= 2
  <2> HIDE DEF S
  <2> QED  BY <1>1 DEF Access!Levels
<1>2. Access!Highest(S) \in S
  BY <1>1, <1>1a, HighestOf
<1> QED  BY <1>1, <1>2 DEF Access!EffectiveAccess

LEMMA RuledLevels ==
    ASSUME Access!TypeOK, NEW f \in Folders, NEW u \in people
    PROVE  /\ Access!Ruled(f, {u}) \subseteq Access!Levels
                 /\ Access!Ruled(f, Access!GroupsOf(u)) \subseteq Access!Levels
           /\ (Access!Ruled(f, {u}) # {} <=> rules[f][u] # Access!NoRule)
           /\ (rules[f][u] # Access!NoRule => rules[f][u] \in Access!Levels)
           /\ (Access!Ruled(f, {u} \cup Access!GroupsOf(u)) # {} <=> Access!Ruled(f, {u}) # {}
                 \/ Access!Ruled(f, Access!GroupsOf(u)) # {})
           /\ (Access!Ruled(f, {u} \cup Access!GroupsOf(u)) # {}
                 => Access!Ruled(f, Access!Subjects) # {})
           /\ (Access!Ruled(f, Access!GroupsOf(u)) # {}
                 => Access!Lowest(Access!Ruled(f, Access!GroupsOf(u))) \in Access!Levels)
<1>1. u \in Access!Subjects /\ Access!GroupsOf(u) \subseteq Access!Subjects
  BY DEF Access!TypeOK, Access!Subjects, Access!GroupsOf
<1>2. \A s \in Access!Subjects : rules[f][s] \in Access!Levels \cup {Access!NoRule}
  BY DEF Access!TypeOK
<1>3. /\ Access!Ruled(f, {u}) \subseteq Access!Levels
            /\ Access!Ruled(f, Access!GroupsOf(u)) \subseteq Access!Levels
      /\ (Access!Ruled(f, {u}) # {} <=> rules[f][u] # Access!NoRule)
      /\ (rules[f][u] # Access!NoRule => rules[f][u] \in Access!Levels)
  BY <1>1, <1>2 DEF Access!Ruled
<1>4. (Access!Ruled(f, {u} \cup Access!GroupsOf(u)) # {} <=> Access!Ruled(f, {u}) # {}
         \/ Access!Ruled(f, Access!GroupsOf(u)) # {})
  BY <1>1, <1>2 DEF Access!Ruled
<1>5. Access!Ruled(f, {u} \cup Access!GroupsOf(u)) # {} => Access!Ruled(f, Access!Subjects) # {}
  BY <1>1, <1>2 DEF Access!Ruled
<1>6. Access!Ruled(f, Access!GroupsOf(u)) # {}
         => Access!Lowest(Access!Ruled(f, Access!GroupsOf(u))) \in Access!Levels
  BY <1>3, LowestOf
<1> QED  BY <1>3, <1>4, <1>5, <1>6

\* The levels of a path that rule, and what the one at a folder says.
RulesAt(u, p) == {i \in 1 .. Len(p) : Access!Ruled(SubSeq(p, 1, i), {u} \cup Access!GroupsOf(u)) # {}}

Says(u, f) == IF rules[f][u] # Access!NoRule THEN rules[f][u]
   ELSE Access!Lowest(Access!Ruled(f, Access!GroupsOf(u)))

LEMMA NearestIs ==
    ASSUME NEW u, NEW p
    PROVE  Access!Nearest(u, p) = IF Access!EffectiveAccess(u) = 0 \/ RulesAt(u, p) = {}
              THEN Access!EffectiveAccess(u)
                           ELSE Says(u, SubSeq(p, 1, Access!Highest(RulesAt(u, p))))
BY DEF Access!Nearest, RulesAt, Says

LEMMA FoldersBelow ==
    ASSUME NEW p \in Access!Paths
    PROVE  /\ Len(p) \in Nat /\ (Len(p) = 0 <=> p = <<>>)
           /\ \A i \in 1 .. Len(p) : SubSeq(p, 1, i) \in Folders
<1>1. CASE p = <<>>
  BY <1>1
<1>2. CASE p \in Folders
  BY <1>2, StorageAssumption
<1> QED  BY <1>1, <1>2 DEF Access!Paths

LEMMA HighestAt ==
    ASSUME NEW u, NEW p \in Access!Paths, RulesAt(u, p) # {}
    PROVE  Access!Highest(RulesAt(u, p)) \in RulesAt(u, p)
              /\ \A i \in RulesAt(u, p) : i <= Access!Highest(RulesAt(u, p))
<1>1. RulesAt(u, p) \subseteq Nat /\ \A i \in RulesAt(u, p) : i <= Len(p)
  BY FoldersBelow DEF RulesAt
<1> QED  BY <1>1, FoldersBelow, HighestOf

LEMMA StepSays ==
    ASSUME Access!TypeOK, NEW u \in people, NEW f \in Folders, NEW level
    PROVE  Access!Step(u, level, f) = IF Access!Ruled(f, {u} \cup Access!GroupsOf(u)) # {}
              THEN Says(u, f) ELSE level
BY RuledLevels DEF Access!Step, Says

LEMMA WalkIsNearest ==
    ASSUME Access!TypeOK, NEW u \in people, NEW p \in Access!Paths, NEW level
    PROVE  Access!ApplyFolderAcls(p, u, level) =
              IF RulesAt(u, p) = {} THEN level
                 ELSE Says(u, SubSeq(p, 1, Access!Highest(RulesAt(u, p))))
<1> DEFINE n == Len(p)
           D == 0 .. n
           R(k) == Access!Ruled(SubSeq(p, 1, k), {u} \cup Access!GroupsOf(u)) # {}
           S(i) == {k \in 1 .. i : R(k)}
           g == [i \in D |-> IF S(i) = {} THEN level
              ELSE Says(u, SubSeq(p, 1, Access!Highest(S(i))))]
           Body(f) == [i \in D |-> IF i = 0 THEN level
              ELSE Access!Step(u, f[i - 1], Access!AncestorsOf(p)[i])]
           after == CHOOSE f : f = Body(f)
<1>1. n \in Nat /\ \A i \in 1 .. n : SubSeq(p, 1, i) \in Folders
         /\ Access!AncestorsOf(p)[i] = SubSeq(p, 1, i)
  BY FoldersBelow DEF Access!AncestorsOf
<1>2. \A i \in 1 .. n : i \in D /\ i - 1 \in D /\ i # 0
  BY <1>1
<1>3. ASSUME NEW i \in 1 .. n PROVE g[i] = Access!Step(u, g[i - 1], Access!AncestorsOf(p)[i])
  <2>1. i \in Nat /\ i - 1 \in Nat /\ i \in D /\ i - 1 \in D
    BY <1>1, <1>2
  <2>2. g[i] = (IF S(i) = {} THEN level ELSE Says(u, SubSeq(p, 1, Access!Highest(S(i)))))
        /\ g[i - 1] = (IF S(i - 1) = {} THEN level
              ELSE Says(u, SubSeq(p, 1, Access!Highest(S(i - 1)))))
    BY <2>1
  <2>3. Access!Step(u, g[i - 1], Access!AncestorsOf(p)[i]) =
           IF R(i) THEN Says(u, SubSeq(p, 1, i)) ELSE g[i - 1]
    <3> DEFINE l == g[i - 1]
               e == SubSeq(p, 1, i)
    <3>1. e \in Folders /\ Access!AncestorsOf(p)[i] = e
      BY <1>1
    <3> HIDE DEF l, e
    <3>2. Access!Step(u, l, e) = IF Access!Ruled(e, {u} \cup Access!GroupsOf(u)) # {}
             THEN Says(u, e) ELSE l
      BY <3>1, StepSays
    <3> QED  BY <3>1, <3>2 DEF l, e
  <2>4. CASE R(i)
    <3>1. i \in S(i) /\ S(i) \subseteq Nat /\ \A k \in S(i) : k <= i
      <4> HIDE DEF R
      <4> QED  BY <2>1, <2>4
    <3> HIDE DEF S, g
    <3>2. Access!Highest(S(i)) \in S(i) /\ \A k \in S(i) : k <= Access!Highest(S(i))
      BY <2>1, <3>1, HighestOf
    <3>3. Access!Highest(S(i)) = i
      BY <2>1, <3>1, <3>2
    <3> QED  BY <2>2, <2>3, <2>4, <3>1, <3>3
  <2>5. CASE ~R(i)
    <3>1. S(i) = S(i - 1)
      <4> HIDE DEF R
      <4>1. \A k : k \in 1 .. i <=> k \in 1 .. i - 1 \/ k = i
        BY <2>1
      <4> QED  BY <2>5, <4>1
    <3> HIDE DEF S, g
    <3> QED  BY <2>2, <2>3, <2>5, <3>1
  <2> QED  BY <2>4, <2>5
<1>4. g[0] = level
  BY <1>1
<1>5. g = Body(g)
  <2>1. ASSUME NEW i \in D PROVE g[i] = Body(g)[i]
    <3>1. CASE i = 0
      <4> HIDE DEF g
      <4> QED  BY <1>4, <3>1
    <3>2. CASE i # 0
      <4>1. i \in 1 .. n
        BY <1>1, <3>2
      <4>2. g[i] = Access!Step(u, g[i - 1], Access!AncestorsOf(p)[i])
        BY <1>3, <4>1
      <4> HIDE DEF g
      <4> QED  BY <3>2, <4>2
    <3> QED  BY <3>1, <3>2
  <2>2. g = [i \in D |-> g[i]]
    OBVIOUS
  <2>3. Body(g) = [i \in D |-> Body(g)[i]]
    <3> HIDE DEF g
    <3> QED  OBVIOUS
  <2> HIDE DEF g, Body
  <2> QED  BY <2>1, <2>2, <2>3
<1> HIDE DEF g
<1>6. after = Body(after)
  BY <1>5
<1>7. Access!ApplyFolderAcls(p, u, level) = after[n]
  BY DEF Access!ApplyFolderAcls
<1> HIDE DEF after
<1>8. \A i \in D : after[i] = IF i = 0 THEN level
         ELSE Access!Step(u, after[i - 1], Access!AncestorsOf(p)[i])
  <2>1. \A i : after[i] = Body(after)[i]
    <3> HIDE DEF Body
    <3> QED  BY <1>6
  <2>2. \A i \in D : Body(after)[i] = IF i = 0 THEN level
           ELSE Access!Step(u, after[i - 1], Access!AncestorsOf(p)[i])
    <3> HIDE DEF D
    <3> QED  OBVIOUS
  <2> HIDE DEF Body, D
  <2> QED  BY <2>1, <2>2
<1> DEFINE Differ == {i \in D : after[i] # g[i]}
<1>9. Differ = {}
  <2> SUFFICES ASSUME Differ # {} PROVE FALSE
    OBVIOUS
  <2>1. Differ \subseteq Nat
    BY <1>1
  <2>2. PICK i \in Differ : \A k \in Differ : i <= k
    <3> HIDE DEF Differ
    <3> QED  BY <2>1, LeastNatural
  <2>3. i \in D /\ after[i] # g[i]
    OBVIOUS
  <2>4. i # 0
    BY <1>4, <1>8, <2>3
  <2>5. i \in 1 .. n /\ i - 1 \in D /\ ~(i <= i - 1)
    BY <1>1, <2>3, <2>4
  <2>6. after[i - 1] = g[i - 1]
    BY <2>2, <2>5
  <2>7. after[i] = Access!Step(u, after[i - 1], Access!AncestorsOf(p)[i])
    BY <1>8, <2>3, <2>4
  <2>8. g[i] = Access!Step(u, g[i - 1], Access!AncestorsOf(p)[i])
    BY <1>3, <2>5
  <2> QED  BY <2>3, <2>6, <2>7, <2>8
<1>10. n \in D
  BY <1>1
<1>11. after[n] = g[n]
  BY <1>9, <1>10
<1>12. S(n) = RulesAt(u, p)
  BY DEF RulesAt
<1>13. g[n] = IF S(n) = {} THEN level ELSE Says(u, SubSeq(p, 1, Access!Highest(S(n))))
  BY <1>10 DEF g
<1> HIDE DEF S, D, n, Body
<1> QED  BY <1>7, <1>11, <1>12, <1>13

LEMMA PathIsNearest ==
    ASSUME Access!TypeOK, NEW u \in people, NEW p \in Access!Paths
    PROVE  Access!PathAccess(u, p) = Access!Nearest(u, p)
<1>1. CASE Access!EffectiveAccess(u) = 0
  BY <1>1, NearestIs DEF Access!PathAccess
<1>2. CASE p = <<>>
  <2>1. RulesAt(u, p) = {}
    BY <1>2, FoldersBelow DEF RulesAt
  <2> QED  BY <1>2, <2>1, NearestIs DEF Access!PathAccess
<1>3. CASE \A f \in Folders : Access!Ruled(f, Access!Subjects) = {}
  <2>1. RulesAt(u, p) = {}
    BY <1>3, FoldersBelow, RuledLevels DEF RulesAt
  <2> QED  BY <1>3, <2>1, NearestIs DEF Access!PathAccess
<1>4. CASE ~(Access!EffectiveAccess(u) = 0 \/ p = <<>>
              \/ \A f \in Folders : Access!Ruled(f, Access!Subjects) = {})
  BY <1>4, NearestIs, WalkIsNearest DEF Access!PathAccess
<1> QED  BY <1>1, <1>2, <1>3, <1>4

LEMMA NearestIsLevel ==
    ASSUME Access!TypeOK, NEW u \in people, NEW p \in Access!Paths
    PROVE  Access!Nearest(u, p) \in Access!Levels
<1>1. CASE Access!EffectiveAccess(u) = 0 \/ RulesAt(u, p) = {}
  BY <1>1, NearestIs, EffectiveIsLevel
<1>2. CASE ~(Access!EffectiveAccess(u) = 0 \/ RulesAt(u, p) = {})
  <2> DEFINE f == SubSeq(p, 1, Access!Highest(RulesAt(u, p)))
  <2>1. Access!Highest(RulesAt(u, p)) \in RulesAt(u, p)
    BY <1>2, HighestAt
  <2>2. f \in Folders /\ Access!Ruled(f, {u} \cup Access!GroupsOf(u)) # {}
    BY <2>1, FoldersBelow DEF RulesAt
  <2>3. Access!Nearest(u, p) = Says(u, f)
    BY <1>2, NearestIs
  <2> HIDE DEF f
  <2> QED  BY <2>2, <2>3, RuledLevels DEF Says
<1> QED  BY <1>1, <1>2

\* In a state with the right types the walk and the promise agree, on a level.
Walks == \A u \in people, p \in Access!Paths : Access!PathAccess(u, p) = Access!Nearest(u, p)
   /\ Access!Nearest(u, p) \in Access!Levels

LEMMA TypedWalks == Access!TypeOK => Access!NearestRuleDecides /\ Walks
BY PathIsNearest, NearestIsLevel DEF Access!NearestRuleDecides, Walks

LEMMA AccessTyped == ASSUME Access!TypeOK, [Access!Next]_accessVars PROVE Access!TypeOK'
<1> USE DEF Access!TypeOK, Access!Subjects, Access!Levels, Access!NoRule
<1>1. CASE Access!SetAcl
  BY <1>1 DEF Access!SetAcl, Access!NoAdd
<1>2. CASE Access!RefuseAcl
  BY <1>2 DEF Access!RefuseAcl
<1>3. CASE Access!PruneOrphanAcls
  BY <1>3 DEF Access!PruneOrphanAcls, Access!Without
<1>4. ASSUME NEW level \in Access!Levels, Access!SetGuest(level) PROVE Access!TypeOK'
  BY <1>4 DEF Access!SetGuest
<1>5. ASSUME NEW level \in Access!Levels, NEW s \in Access!Subjects, Access!PatchShare(s, level)
      PROVE Access!TypeOK'
  BY <1>5 DEF Access!PatchShare
<1>6. ASSUME NEW level \in Access!Levels, NEW s \in Access!Subjects, NEW f \in Folders,
             Access!BeginAcl(f, s, level) PROVE Access!TypeOK'
  BY <1>6 DEF Access!BeginAcl
<1>7. ASSUME NEW g \in Teams, Access!DeleteGroup(g) PROVE Access!TypeOK'
  <2>1. /\ teams' = teams \ {g} /\ roster' = [roster EXCEPT ![g] = {}]
        /\ share' = [share EXCEPT !.grants[g] = 0] /\ UNCHANGED <<people, adding>>
        /\ rules' = [f \in Folders |-> [s \in Access!Subjects |-> IF s \in {g} THEN Access!NoRule
              ELSE rules[f][s]]]
    BY <1>7 DEF Access!DeleteGroup, Access!Without
  <2>2. roster' \in [Teams -> SUBSET people'] /\ \A k \in Teams \ teams' : roster'[k] = {}
    BY <2>1
  <2>3. share' \in [grants : [Access!Subjects -> Access!Levels], guest : Access!Levels]
        /\ \A s \in Access!Subjects \ (people' \cup teams') : share'.grants[s] = 0
    <3>1. g \in Access!Subjects
      BY <1>7
    <3>2. share'.guest = share.guest /\ share'.grants = [share.grants EXCEPT ![g] = 0]
          /\ share' \in [grants : [Access!Subjects -> Access!Levels], guest : Access!Levels]
      BY <2>1, <3>1
    <3>3. \A s \in Access!Subjects : share'.grants[s] = IF s = g THEN 0 ELSE share.grants[s]
      BY <3>1, <3>2
    <3> QED  BY <2>1, <3>2, <3>3
  <2>4. rules' \in [Folders -> [Access!Subjects -> Access!Levels \cup {Access!NoRule}]]
    BY <2>1
  <2> QED  BY <2>1, <2>2, <2>3, <2>4
<1>8. ASSUME NEW g \in Teams, NEW us \in SUBSET Persons, Access!SetMembers(g, us)
      PROVE Access!TypeOK'
  BY <1>8 DEF Access!SetMembers
<1>9. ASSUME NEW u \in Persons, Access!DeleteUser(u) PROVE Access!TypeOK'
  <2>1. /\ people' = people \ {u} /\ roster' = [g \in Teams |-> roster[g] \ {u}]
        /\ share' = [share EXCEPT !.grants[u] = 0] /\ UNCHANGED <<teams, rules, adding>>
    BY <1>9 DEF Access!DeleteUser
  <2>2. roster' \in [Teams -> SUBSET people'] /\ \A g \in Teams \ teams : roster'[g] = {}
    <3>1. \A g \in Teams : roster[g] \ {u} \in SUBSET people'
      BY <2>1
    <3> QED  BY <2>1, <3>1
  <2>3. share' \in [grants : [Access!Subjects -> Access!Levels], guest : Access!Levels]
        /\ \A s \in Access!Subjects \ (people' \cup teams) : share'.grants[s] = 0
    <3>1. u \in Access!Subjects
      BY <1>9
    <3>2. share'.guest = share.guest /\ share'.grants = [share.grants EXCEPT ![u] = 0]
          /\ share' \in [grants : [Access!Subjects -> Access!Levels], guest : Access!Levels]
      BY <2>1, <3>1
    <3>3. \A s \in Access!Subjects : share'.grants[s] = IF s = u THEN 0 ELSE share.grants[s]
      BY <3>1, <3>2
    <3> QED  BY <2>1, <3>2, <3>3
  <2> QED  BY <2>1, <2>2, <2>3
<1>10. ASSUME NEW f \in Folders, NEW s \in Access!Subjects, Access!DeleteAcl(f, s)
       PROVE Access!TypeOK'
  BY <1>10 DEF Access!DeleteAcl
<1>11. CASE UNCHANGED accessVars
  BY <1>11 DEF accessVars
<1>12. CASE Access!Next
  BY <1>1, <1>2, <1>3, <1>4, <1>5, <1>6, <1>7, <1>8, <1>9, <1>10, <1>12 DEF Access!Next
<1> QED  BY <1>11, <1>12

LEMMA AccessStarts == Access!Init => Access!TypeOK
BY DEF Access!Init, Access!TypeOK, Access!Levels

\* The same of rules, groups and an access that are given, to compare two states.
RuledIn(r, f, who) == {r[f][s] : s \in who} \ {Access!NoRule}

SaysIn(r, gs, u, f) == IF r[f][u] # Access!NoRule THEN r[f][u] ELSE Access!Lowest(RuledIn(r, f, gs))

AtIn(r, gs, u, p) == {i \in 1 .. Len(p) : RuledIn(r, SubSeq(p, 1, i), {u} \cup gs) # {}}

NearestIn(r, gs, u, p, level) ==
    IF level = 0 \/ AtIn(r, gs, u, p) = {} THEN level
    ELSE SaysIn(r, gs, u, SubSeq(p, 1, Access!Highest(AtIn(r, gs, u, p))))

LEMMA NearestInRules ==
    ASSUME NEW u, NEW p
    PROVE  Access!Nearest(u, p) = NearestIn(rules, Access!GroupsOf(u), u, p,
              Access!EffectiveAccess(u))
BY DEF Access!Nearest, NearestIn, AtIn, SaysIn, RuledIn, Access!Ruled

LEMMA HighestAtIn ==
    ASSUME NEW r, NEW gs, NEW u, NEW p \in Access!Paths, AtIn(r, gs, u, p) # {}
    PROVE  /\ Access!Highest(AtIn(r, gs, u, p)) \in AtIn(r, gs, u, p)
           /\ \A i \in AtIn(r, gs, u, p) : i <= Access!Highest(AtIn(r, gs, u, p))
                 /\ i \in 1 .. Len(p)
<1>1. AtIn(r, gs, u, p) \subseteq Nat /\ \A i \in AtIn(r, gs, u, p) : i <= Len(p)
         /\ i \in 1 .. Len(p)
  BY FoldersBelow DEF AtIn
<1> HIDE DEF AtIn
<1> QED  BY <1>1, FoldersBelow, HighestOf

\* A rule that denies is all that changes.
LEMMA DenyNarrows ==
    ASSUME NEW r \in [Folders -> [Access!Subjects -> Access!Levels \cup {Access!NoRule}]],
           NEW f \in Folders, NEW s \in Access!Subjects, NEW u \in Access!Subjects,
              NEW gs \in SUBSET Access!Subjects,
           NEW p \in Access!Paths, NEW level \in Access!Levels
    PROVE  NearestIn([r EXCEPT ![f][s] = 0], gs, u, p, level) <= NearestIn(r, gs, u, p, level)
<1> DEFINE q == [r EXCEPT ![f][s] = 0]
<1>1. /\ q \in [Folders -> [Access!Subjects -> Access!Levels \cup {Access!NoRule}]]
      /\ \A e \in Folders, t \in Access!Subjects : q[e][t] = IF e = f /\ t = s THEN 0 ELSE r[e][t]
  BY DEF Access!Levels
<1> SUFFICES NearestIn(q, gs, u, p, level) <= NearestIn(r, gs, u, p, level)
  OBVIOUS
<1> HIDE DEF q
<1>2. ASSUME NEW v \in [Folders -> [Access!Subjects -> Access!Levels \cup {Access!NoRule}]],
             NEW e \in Folders
      PROVE  /\ RuledIn(v, e, gs) \subseteq Access!Levels
             /\ (RuledIn(v, e, gs) # {} => Access!Lowest(RuledIn(v, e, gs)) \in RuledIn(v, e, gs))
             /\ (RuledIn(v, e, {u} \cup gs) # {} => SaysIn(v, gs, u, e) \in Access!Levels)
  <2>1. RuledIn(v, e, gs) \subseteq Access!Levels
    BY DEF RuledIn
  <2>2. RuledIn(v, e, gs) # {} => Access!Lowest(RuledIn(v, e, gs)) \in RuledIn(v, e, gs)
    BY <2>1, LowestOf
  <2>3. v[e][u] # Access!NoRule => v[e][u] \in Access!Levels
    OBVIOUS
  <2>4. RuledIn(v, e, {u} \cup gs) # {} => v[e][u] # Access!NoRule \/ RuledIn(v, e, gs) # {}
    BY DEF RuledIn
  <2> QED  BY <2>1, <2>2, <2>3, <2>4 DEF SaysIn
<1>3. ASSUME NEW e \in Folders, ~(e = f /\ s \in {u} \cup gs)
      PROVE  RuledIn(q, e, {u} \cup gs) = RuledIn(r, e, {u} \cup gs)
                /\ SaysIn(q, gs, u, e) = SaysIn(r, gs, u, e)
  <2>1. \A t \in {u} \cup gs : q[e][t] = r[e][t]
    BY <1>1, <1>3
  <2>2. RuledIn(q, e, {u} \cup gs) = RuledIn(r, e, {u} \cup gs)
           /\ RuledIn(q, e, gs) = RuledIn(r, e, gs)
    BY <2>1 DEF RuledIn
  <2> QED  BY <2>1, <2>2 DEF SaysIn
<1>4. ASSUME s \in {u} \cup gs
      PROVE  /\ RuledIn(q, f, {u} \cup gs) # {}
             /\ \/ SaysIn(q, gs, u, f) = 0
                \/ RuledIn(r, f, {u} \cup gs) # {} /\ SaysIn(q, gs, u, f) = SaysIn(r, gs, u, f)
  <2>1. q[f][s] = 0 /\ 0 # Access!NoRule
    BY <1>1 DEF Access!NoRule
  <2>2. RuledIn(q, f, {u} \cup gs) # {}
    BY <1>4, <2>1 DEF RuledIn
  <2>3. CASE s = u
    BY <2>1, <2>2, <2>3 DEF SaysIn
  <2>4. CASE s # u /\ r[f][u] # Access!NoRule
    <3>1. q[f][u] = r[f][u]
      BY <1>1, <2>4
    <3>2. RuledIn(r, f, {u} \cup gs) # {}
      BY <2>4 DEF RuledIn
    <3> QED  BY <2>2, <2>4, <3>1, <3>2 DEF SaysIn
  <2>5. CASE s # u /\ r[f][u] = Access!NoRule
    <3>1. q[f][u] = Access!NoRule
      BY <1>1, <2>5
    <3>2. 0 \in RuledIn(q, f, gs)
      BY <1>4, <2>1, <2>5 DEF RuledIn
    <3>3. RuledIn(q, f, gs) \subseteq Access!Levels
      BY <1>1, <1>2
    <3>4. Access!Lowest(RuledIn(q, f, gs)) \in Access!Levels
             /\ Access!Lowest(RuledIn(q, f, gs)) <= 0
      BY <3>2, <3>3, LowestOf
    <3>5. Access!Lowest(RuledIn(q, f, gs)) = 0
      BY <3>4 DEF Access!Levels
    <3> QED  BY <2>2, <3>1, <3>5 DEF SaysIn
  <2> QED  BY <2>3, <2>4, <2>5
<1>5. Len(p) \in Nat /\ \A i \in 1 .. Len(p) : SubSeq(p, 1, i) \in Folders
  BY FoldersBelow
<1>6. AtIn(r, gs, u, p) \subseteq AtIn(q, gs, u, p)
  BY <1>3, <1>4, <1>5 DEF AtIn
<1>7. NearestIn(r, gs, u, p, level) \in Access!Levels
  <2>1. CASE AtIn(r, gs, u, p) = {}
    BY <2>1 DEF NearestIn
  <2>2. CASE AtIn(r, gs, u, p) # {}
    <3> DEFINE i == Access!Highest(AtIn(r, gs, u, p))
    <3>1. i \in AtIn(r, gs, u, p)
      BY <2>2, HighestAtIn
    <3>2. i \in 1 .. Len(p) /\ RuledIn(r, SubSeq(p, 1, i), {u} \cup gs) # {}
      <4> HIDE DEF i
      <4> QED  BY <3>1 DEF AtIn
    <3>3. SaysIn(r, gs, u, SubSeq(p, 1, i)) \in Access!Levels
      <4> HIDE DEF i
      <4> QED  BY <1>2, <1>5, <3>2
    <3> QED  BY <3>3 DEF NearestIn
  <2> QED  BY <2>1, <2>2
<1>8. CASE level = 0 \/ AtIn(q, gs, u, p) = {}
  <2>1. level = 0 \/ AtIn(r, gs, u, p) = {}
    BY <1>6, <1>8
  <2>2. NearestIn(q, gs, u, p, level) = level /\ NearestIn(r, gs, u, p, level) = level
    BY <1>8, <2>1 DEF NearestIn
  <2> QED  BY <2>2 DEF Access!Levels
<1>10. \A x \in Access!Levels : x <= x
  BY DEF Access!Levels
<1>9. CASE ~(level = 0 \/ AtIn(q, gs, u, p) = {})
  <2> DEFINE i == Access!Highest(AtIn(q, gs, u, p))
             e == SubSeq(p, 1, i)
  <2>1. i \in AtIn(q, gs, u, p) /\ \A k \in AtIn(q, gs, u, p) : k <= i /\ k \in 1 .. Len(p)
    BY <1>9, HighestAtIn
  <2>2. NearestIn(q, gs, u, p, level) = SaysIn(q, gs, u, e)
    BY <1>9 DEF NearestIn
  <2> HIDE DEF i
  <2>3. i \in 1 .. Len(p) /\ RuledIn(q, e, {u} \cup gs) # {} /\ e \in Folders
    BY <1>5, <2>1 DEF AtIn
  <2>4. ASSUME RuledIn(r, e, {u} \cup gs) # {}
        PROVE NearestIn(r, gs, u, p, level) = SaysIn(r, gs, u, e)
    <3>1. i \in AtIn(r, gs, u, p)
      BY <2>3, <2>4 DEF AtIn
    <3>2. Access!Highest(AtIn(r, gs, u, p)) \in AtIn(r, gs, u, p)
             /\ i <= Access!Highest(AtIn(r, gs, u, p))
      BY <3>1, HighestAtIn
    <3>3. Access!Highest(AtIn(r, gs, u, p)) <= i
             /\ Access!Highest(AtIn(r, gs, u, p)) \in 1 .. Len(p)
      BY <1>6, <2>1, <3>2
    <3>4. Access!Highest(AtIn(r, gs, u, p)) = i
      BY <1>5, <2>3, <3>2, <3>3
    <3> QED  BY <1>9, <3>1, <3>4 DEF NearestIn
  <2> HIDE DEF e
  <2>5. CASE e = f /\ s \in {u} \cup gs
    <3>1. CASE SaysIn(q, gs, u, f) = 0
      <4>1. \A x \in Access!Levels : 0 <= x
        BY DEF Access!Levels
      <4> QED  BY <1>7, <2>2, <2>5, <3>1, <4>1
    <3>2. CASE RuledIn(r, f, {u} \cup gs) # {} /\ SaysIn(q, gs, u, f) = SaysIn(r, gs, u, f)
      BY <1>7, <1>10, <2>2, <2>4, <2>5, <3>2
    <3> QED  BY <1>4, <2>5, <3>1, <3>2
  <2>6. CASE ~(e = f /\ s \in {u} \cup gs)
    BY <1>3, <1>7, <1>10, <2>2, <2>3, <2>4, <2>6
  <2> QED  BY <2>5, <2>6
<1> QED  BY <1>8, <1>9

\* The rule that SetAcl adds is the only one that changes, to no access.
LEMMA DenyStep ==
    ASSUME Access!TypeOK, Access!SetAcl, adding.level = 0, NEW u \in people, NEW p \in Access!Paths
    PROVE  Access!Nearest(u, p)' <= Access!Nearest(u, p)
<1>1. /\ adding.path \in Folders /\ adding.subject \in Access!Subjects
      /\ rules' = [rules EXCEPT ![adding.path][adding.subject] = 0]
      /\ UNCHANGED <<people, teams, share, roster>>
  BY DEF Access!SetAcl, Access!TypeOK, Access!NoAdd
<1>2. /\ u \in Access!Subjects /\ Access!GroupsOf(u) \in SUBSET Access!Subjects
            /\ Access!GroupsOf(u)' = Access!GroupsOf(u)
      /\ Access!EffectiveAccess(u)' = Access!EffectiveAccess(u)
            /\ Access!EffectiveAccess(u) \in Access!Levels
      /\ rules \in [Folders -> [Access!Subjects -> Access!Levels \cup {Access!NoRule}]]
  <2>1. u \in Access!Subjects /\ Access!GroupsOf(u) \in SUBSET Access!Subjects
           /\ Access!GroupsOf(u)' = Access!GroupsOf(u)
    BY <1>1 DEF Access!TypeOK, Access!Subjects, Access!GroupsOf
  <2>2. Access!EffectiveAccess(u)' = Access!EffectiveAccess(u)
    BY <1>1, <2>1 DEF Access!EffectiveAccess
  <2>3. Access!EffectiveAccess(u) \in Access!Levels
    BY EffectiveIsLevel
  <2> QED  BY <2>1, <2>2, <2>3 DEF Access!TypeOK
<1>3. Access!Nearest(u, p) = NearestIn(rules, Access!GroupsOf(u), u, p, Access!EffectiveAccess(u))
  BY NearestInRules
<1>4. Access!Nearest(u, p)' = NearestIn(rules', Access!GroupsOf(u), u, p, Access!EffectiveAccess(u))
  BY <1>2 DEF Access!Nearest, NearestIn, AtIn, SaysIn, RuledIn, Access!Ruled
<1>5. NearestIn([rules EXCEPT ![adding.path][adding.subject] = 0], Access!GroupsOf(u), u, p,
         Access!EffectiveAccess(u))
         <= NearestIn(rules, Access!GroupsOf(u), u, p, Access!EffectiveAccess(u))
  BY <1>1, <1>2, DenyNarrows
<1> QED  BY <1>1, <1>3, <1>4, <1>5

LEMMA DenySafe ==
    ASSUME Access!TypeOK, Access!TypeOK', Walks, Walks', [Access!Next]_accessVars,
           adding # Access!NoAdd, adding.level = 0, adding' = Access!NoAdd, rules' # rules
    PROVE  \A u \in people, p \in Access!Paths : Access!PathAccess(u, p)' <= Access!PathAccess(u, p)
<1>1. Access!SetAcl
  BY DEF Access!Next, accessVars, Access!RefuseAcl, Access!PruneOrphanAcls,
         Access!SetGuest, Access!PatchShare, Access!BeginAcl, Access!DeleteGroup,
         Access!SetMembers, Access!DeleteUser, Access!DeleteAcl
<1>2. people' = people
  BY <1>1 DEF Access!SetAcl
<1>3. ASSUME NEW u \in people, NEW p \in Access!Paths
      PROVE Access!PathAccess(u, p)' <= Access!PathAccess(u, p)
  <2>1. Access!PathAccess(u, p)' = Access!Nearest(u, p)'
           /\ Access!PathAccess(u, p) = Access!Nearest(u, p)
    BY <1>2 DEF Walks
  <2>2. Access!Nearest(u, p)' <= Access!Nearest(u, p)
    BY <1>1, DenyStep
  <2> QED  BY <2>1, <2>2
<1> QED  BY <1>3

\* db/acls.ts:9-31: for every tree of folders, of any depth, the loop over the levels of
\* a path ends with what the nearest ruling folder says, by the order of precedence.
THEOREM NearestRulesDecide == StorageSpec => []NearestRuleDecides
<1>1. StorageInit => Access!TypeOK
  BY AccessStarts DEF StorageInit
<1>2. Access!TypeOK /\ [StorageNext]_storageVars => Access!TypeOK'
  BY AccessTyped, StorageSteps
<1>3. Access!TypeOK => NearestRuleDecides
  BY TypedWalks DEF NearestRuleDecides
<1> QED  BY <1>1, <1>2, <1>3, PTL DEF StorageSpec

\* db/acls.ts: of every tree and all rules, storing one that denies gives nobody more,
\* anywhere below or beside it.
THEOREM DeniedStaysDenied == StorageSpec => DenyingNeverWidens
<1> DEFINE Denies == adding # Access!NoAdd /\ adding.level = 0 /\ adding' = Access!NoAdd
       /\ rules' # rules =>
                        \A u \in people,
                           p \in Access!Paths : Access!PathAccess(u, p)' <= Access!PathAccess(u, p)
<1>1. StorageInit => Access!TypeOK
  BY AccessStarts DEF StorageInit
<1>2. Access!TypeOK /\ [StorageNext]_storageVars => Access!TypeOK'
  BY AccessTyped, StorageSteps
<1>3. Access!TypeOK /\ Access!TypeOK' /\ Walks /\ Walks' /\ [StorageNext]_storageVars =>
         [Denies]_(Access!accessVars)
  BY DenySafe, StorageSteps
<1>4. Access!TypeOK => Walks
  BY TypedWalks
<1> QED  BY <1>1, <1>2, <1>3, <1>4, PTL
            DEF StorageSpec, DenyingNeverWidens, Access!DenyingNeverWidens

-----------------------------------------------------------------------------
(* Volumes *)

\* What a helper is at tells what it is for, and what of it is known.
Creates(j) == j.op \in {"init", "space", "raid"}

Fits(j) ==
    /\ j.at = "idle" => j = Volumes!Idle
    /\ j.at \in {"wipe", "mkfs", "append"} => Creates(j)
    /\ j.at \in {"read", "copy", "drop", "mount"} => Creates(j) \/ j.op = "quota"
    /\ j.at = "umount" => j.op \in {"quota", "erase", "destroy"}
    /\ j.at \in {"clear", "sweep"} => j.op \in {"erase", "destroy"}
    /\ Creates(j) => j.unit \in Volumes!Units
    /\ Creates(j) \/ j.op = "quota" => j.label \in Labels

\* One helper at a time, which wipes what is empty.
Alone == \A g, h \in Volumes!Busy : g = h

WipesNothing ==
    "crossed" \notin spoiled =>
        /\ lost = {} /\ Alone
        /\ \A h \in Helpers : job[h].at = "wipe" => \A d \in job[h].disks : fs[d] = 0

\* The line of a mountpoint names one filesystem, and a volume that is mounted has one.
OneLine == \A k, m \in fstab : k.label = m.label => k.uuid = m.uuid

HasLine ==
    \A l \in Labels : mounted[l] # <<>>
       => \E k \in fstab : k.label = l /\ k.uuid = fs[Volumes!TopOf(l)]

OneDeep == \A l \in Labels : mounted[l] # <<>> => Len(mounted[l]) = 1 /\ l \in folders

\* Where the one helper is.
Unmounts(j) == Creates(j) \/ (j.op = "quota" /\ j.at = "mount")
                  \/ (j.at \in {"clear", "sweep"} /\ j.label # NoDevice)

InOrder(j) ==
    /\ Unmounts(j) => mounted[j.label] = <<>>
    /\ Creates(j) /\ j.at \in {"read", "copy", "drop", "append"} => j.label \in folders
    /\ j.at = "copy" => scratch = Volumes!OtherLines(j)
    /\ Creates(j) /\ j.at \in {"drop", "append"} => \A k \in fstab : k.label # j.label

Orderly ==
    spoiled = {} =>
        /\ OneLine /\ HasLine /\ OneDeep /\ \A k \in fstab : k.label \in folders
        /\ \A h \in Helpers : InOrder(job[h])

VolumesInv == Volumes!TypeOK /\ (\A h \in Helpers : Fits(job[h])) /\ WipesNothing /\ Orderly

\* What a helper can be for, and what it can be at.
Ops == {"none", "init", "space", "raid", "quota", "erase", "destroy"}

Places == {"idle", "wipe", "mkfs", "read", "copy", "drop", "append", "mount",
           "umount", "clear", "sweep"}

LEMMA VolumesNumbers ==
    /\ MaxJobs \in Nat /\ MaxBoots \in Nat /\ NoDevice \notin Labels
          /\ NoDevice \notin Volumes!Units
    /\ NoDevice \notin SUBSET Volumes!Lines /\ \A l \in Labels : l \in Covers[l]
BY VolumesAssumption DEF Volumes!Units

LEMMA UuidsAreNot0 == 0 \notin Volumes!Uuids
BY VolumesNumbers DEF Volumes!Uuids

LEMMA JobHas ==
    ASSUME NEW j
    PROVE  j \in Volumes!Job <=> /\ j = [op |-> j.op, label |-> j.label, disks |-> j.disks, unit |-> j.unit, at |-> j.at]
                         /\ j.op \in Ops /\ j.label \in Labels \cup {NoDevice}
                               /\ j.disks \subseteq Drives
                         /\ j.unit \in Volumes!Units \cup {NoDevice} /\ j.at \in Places
BY DEF Volumes!Job, Ops, Places

LEMMA IdleIsJob == /\ Volumes!Idle \in Volumes!Job /\ Volumes!Idle.at = "idle" /\ Volumes!Idle.op = "none" /\ Fits(Volumes!Idle) /\ InOrder(Volumes!Idle)
                   /\ InOrder(Volumes!Idle)'
BY DEF Volumes!Idle, Volumes!Job, Fits, InOrder, Creates, Unmounts

LEMMA VolumesTypes ==
    ASSUME Volumes!TypeOK
    PROVE  /\ fs \in [Volumes!Units -> {0} \cup Volumes!Uuids]
                 /\ label \in [Volumes!Uuids -> Labels \cup {NoDevice}]
           /\ members \subseteq Drives /\ listed \in BOOLEAN /\ claimed \in BOOLEAN
           /\ mounted \in [Labels -> Seq(Volumes!Units)] /\ folders \subseteq Labels
           /\ fstab \subseteq Volumes!Lines
                 /\ (scratch # NoDevice => scratch \subseteq Volumes!Lines)
           /\ job \in [Helpers -> Volumes!Job] /\ lost \subseteq Volumes!Uuids
           /\ spoiled \subseteq {"crossed", "crashed", "busy", "hidden", "swept", "unlisted"}
           /\ begun \in 0 .. MaxJobs /\ begun \in Nat /\ boots \in 0 .. MaxBoots /\ boots \in Nat
           /\ Drives \subseteq Volumes!Units
BY VolumesNumbers DEF Volumes!TypeOK, Volumes!Units

\* What is on top of a mountpoint is mounted.
LEMMA TopIsMounted ==
    ASSUME Volumes!TypeOK, NEW l \in Labels, mounted[l] # <<>>
    PROVE  Volumes!TopOf(l) \in Volumes!Units /\ Volumes!IsMounted(Volumes!TopOf(l))
              /\ Volumes!TopOf(l) = mounted[l][Len(mounted[l])]
<1>1. mounted[l] \in Seq(Volumes!Units) /\ Len(mounted[l]) \in 1 .. Len(mounted[l])
  BY VolumesTypes
<1>2. DOMAIN mounted[l] = 1 .. Len(mounted[l])
  BY <1>1
<1>3. Volumes!TopOf(l) = mounted[l][Len(mounted[l])]
         /\ mounted[l][Len(mounted[l])] \in Volumes!Units
  BY <1>1 DEF Volumes!TopOf
<1> QED  BY <1>1, <1>2, <1>3 DEF Volumes!IsMounted

LEMMA TopIsDevice ==
    ASSUME Volumes!TypeOK, NEW l \in Labels
    PROVE  Volumes!TopOf(l) \in Volumes!Units \cup {NoDevice}
<1>1. CASE mounted[l] = <<>>
  BY <1>1 DEF Volumes!TopOf
<1>2. CASE mounted[l] # <<>>
  BY <1>2, TopIsMounted
<1> QED  BY <1>1, <1>2

\* A device is mounted where nothing was.
LEMMA MountedThere ==
    ASSUME Volumes!TypeOK, NEW l \in Labels, NEW u \in Volumes!Units,
           mounted' = [mounted EXCEPT ![l] = Append(@, u)]
    PROVE  /\ mounted' \in [Labels -> Seq(Volumes!Units)]
           /\ \A m \in Labels \ {l} : mounted'[m] = mounted[m]
                 /\ Volumes!TopOf(m)' = Volumes!TopOf(m)
           /\ mounted[l] = <<>> => mounted'[l] = <<u>> /\ Len(mounted'[l]) = 1 /\ Volumes!TopOf(l)' = u
                                   /\ mounted'[l] # <<>>
<1>1. mounted \in [Labels -> Seq(Volumes!Units)] /\ mounted[l] \in Seq(Volumes!Units)
  BY VolumesTypes
<1>2. mounted'[l] = Append(mounted[l], u) /\ \A m \in Labels \ {l} : mounted'[m] = mounted[m]
  BY <1>1
<1>3. Append(mounted[l], u) \in Seq(Volumes!Units)
  BY <1>1
<1>4. mounted' \in [Labels -> Seq(Volumes!Units)]
  BY <1>1, <1>3
<1>5. \A m \in Labels \ {l} : Volumes!TopOf(m)' = Volumes!TopOf(m)
  BY <1>2 DEF Volumes!TopOf
<1>6. mounted[l] = <<>> => mounted'[l] = <<u>>
  BY <1>2
<1>7. <<u>> # <<>> /\ Len(<<u>>) = 1 /\ <<u>>[1] = u
  OBVIOUS
<1> QED  BY <1>2, <1>4, <1>5, <1>6, <1>7 DEF Volumes!TopOf

LEMMA ButTheLast ==
    ASSUME NEW S, NEW s \in Seq(S), s # <<>>
    PROVE  /\ Len(s) \in Nat /\ Len(s) >= 1
           /\ SubSeq(s, 1, Len(s) - 1) \in Seq(S) /\ Len(SubSeq(s, 1, Len(s) - 1)) = Len(s) - 1
           /\ Len(s) = 1 => SubSeq(s, 1, Len(s) - 1) = <<>>
<1>1. Len(s) \in Nat /\ Len(s) >= 1
  OBVIOUS
<1>2. \A i \in 1 .. Len(s) - 1 : s[i] \in S
  BY <1>1
<1>3. SubSeq(s, 1, Len(s) - 1) \in Seq(S)
  BY <1>1, <1>2
<1>4. Len(SubSeq(s, 1, Len(s) - 1)) = Len(s) - 1
  BY <1>1
<1>5. \A t \in Seq(S) : Len(t) = 0 => t = <<>>
  OBVIOUS
<1>6. Len(s) = 1 => SubSeq(s, 1, Len(s) - 1) = <<>>
  <2> DEFINE t == SubSeq(s, 1, Len(s) - 1)
  <2>1. t \in Seq(S) /\ Len(t) = Len(s) - 1
    BY <1>3, <1>4
  <2> HIDE DEF t
  <2>2. Len(s) = 1 => t = <<>>
    BY <1>1, <1>5, <2>1
  <2> QED  BY <2>2 DEF t
<1> QED  BY <1>1, <1>3, <1>4, <1>6

\* What is on top of a mountpoint is unmounted.
LEMMA UnmountedThere ==
    ASSUME Volumes!TypeOK, NEW l \in Labels, mounted[l] # <<>>,
           mounted' = [mounted EXCEPT ![l] = Volumes!Pop(l)]
    PROVE  /\ mounted' \in [Labels -> Seq(Volumes!Units)]
           /\ \A m \in Labels \ {l} : mounted'[m] = mounted[m]
                 /\ Volumes!TopOf(m)' = Volumes!TopOf(m)
           /\ Len(mounted[l]) = 1 => mounted'[l] = <<>>
<1>1. mounted \in [Labels -> Seq(Volumes!Units)] /\ mounted[l] \in Seq(Volumes!Units)
         /\ Len(mounted[l]) \in Nat /\ Len(mounted[l]) >= 1
  BY VolumesTypes
<1>2. mounted'[l] = Volumes!Pop(l) /\ \A m \in Labels \ {l} : mounted'[m] = mounted[m]
  BY <1>1
<1>3. Volumes!Pop(l) \in Seq(Volumes!Units) /\ (Len(mounted[l]) = 1 => Volumes!Pop(l) = <<>>)
  BY <1>1, ButTheLast DEF Volumes!Pop
<1>4. mounted' \in [Labels -> Seq(Volumes!Units)]
  BY <1>1, <1>3
<1>5. \A m \in Labels \ {l} : Volumes!TopOf(m)' = Volumes!TopOf(m)
  BY <1>2 DEF Volumes!TopOf
<1> QED  BY <1>2, <1>3, <1>4, <1>5

LEMMA GotoIsJob ==
    ASSUME Volumes!TypeOK, NEW h \in Helpers, NEW at \in Places, Volumes!Goto(h, at),
           job[h].at # "idle"
    PROVE  /\ job' \in [Helpers -> Volumes!Job] /\ \A g \in Helpers \ {h} : job'[g] = job[g]
           /\ job'[h].op = job[h].op /\ job'[h].label = job[h].label /\ job'[h].disks = job[h].disks
           /\ job'[h].unit = job[h].unit /\ job'[h].at = at
           /\ Volumes!Busy' \subseteq Volumes!Busy /\ h \in Volumes!Busy
<1>1. job \in [Helpers -> Volumes!Job] /\ job[h] \in Volumes!Job
  BY VolumesTypes
<1> DEFINE j == [job[h] EXCEPT !.at = at]
<1>2. job' = [job EXCEPT ![h] = j]
  BY DEF Volumes!Goto
<1>3. /\ j.op = job[h].op /\ j.label = job[h].label /\ j.disks = job[h].disks
      /\ j.unit = job[h].unit /\ j.at = at /\ j \in Volumes!Job
  BY <1>1 DEF Volumes!Job, Places
<1> HIDE DEF j
<1>4. job' \in [Helpers -> Volumes!Job] /\ job'[h] = j /\ \A g \in Helpers \ {h} : job'[g] = job[g]
  BY <1>1, <1>2, <1>3
<1>5. h \in Volumes!Busy
  BY IdleIsJob DEF Volumes!Busy
<1> QED  BY <1>3, <1>4, <1>5 DEF Volumes!Busy

LEMMA EndedIsJob ==
    ASSUME Volumes!TypeOK, NEW h \in Helpers, Volumes!Ended(h)
    PROVE  /\ job' \in [Helpers -> Volumes!Job] /\ \A g \in Helpers \ {h} : job'[g] = job[g]
           /\ job'[h] = Volumes!Idle /\ Volumes!Busy' \subseteq Volumes!Busy
<1>1. job' = [job EXCEPT ![h] = Volumes!Idle] /\ job \in [Helpers -> Volumes!Job]
  BY VolumesTypes DEF Volumes!Ended
<1>2. job' \in [Helpers -> Volumes!Job] /\ \A g \in Helpers \ {h} : job'[g] = job[g]
  BY <1>1, IdleIsJob
<1>3. job'[h] = Volumes!Idle
  BY <1>1
<1> QED  BY <1>2, <1>3 DEF Volumes!Busy

\* While nothing crossed, the others do nothing.
LEMMA OthersAreIdle ==
    ASSUME VolumesInv, NEW h \in Helpers, job[h].at # "idle", "crossed" \notin spoiled
    PROVE  \A g \in Helpers \ {h} : job[g] = Volumes!Idle
<1>1. h \in Volumes!Busy
  BY IdleIsJob DEF Volumes!Busy
<1> QED  BY <1>1 DEF VolumesInv, WipesNothing, Alone, Volumes!Busy

\* A step of one helper: the others are as they were, and stay so.
LEMMA HelperKeeps ==
    ASSUME VolumesInv, NEW h \in Helpers, job[h].at # "idle", Volumes!TypeOK',
           \A g \in Helpers \ {h} : job'[g] = job[g], Fits(job'[h]),
              Volumes!Busy' \subseteq Volumes!Busy, job'[h].at # "wipe",
           spoiled \subseteq spoiled',
           "crossed" \notin spoiled' => lost' = {},
           spoiled' = {} => /\ OneLine' /\ HasLine' /\ OneDeep' /\ \A k \in fstab' : k.label \in folders'
                            /\ InOrder(job[h])'
    PROVE  VolumesInv'
<1>1. \A g \in Helpers : Fits(job'[g])
  BY DEF VolumesInv
<1>2. WipesNothing'
  <2> SUFFICES ASSUME "crossed" \notin spoiled'
               PROVE  /\ lost' = {} /\ Alone'
                      /\ \A g \in Helpers : job'[g].at = "wipe"
                            => \A d \in job'[g].disks : fs'[d] = 0
    BY DEF WipesNothing
  <2>1. \A g \in Helpers \ {h} : job'[g] = Volumes!Idle
    BY OthersAreIdle
  <2>2. Alone'
    BY DEF VolumesInv, WipesNothing, Alone
  <2>3. \A g \in Helpers : job'[g].at # "wipe"
    BY <2>1, IdleIsJob
  <2> QED  BY <2>2, <2>3
<1>3. Orderly'
  <2> SUFFICES ASSUME spoiled' = {}, NEW g \in Helpers
               PROVE  InOrder(job[g])'
    BY DEF Orderly
  <2>1. CASE g = h
    BY <2>1
  <2>2. CASE g # h
    <3>1. job'[g] = Volumes!Idle
      BY <2>2, OthersAreIdle
    <3> QED  BY <3>1, IdleIsJob DEF InOrder, Creates, Unmounts
  <2> QED  BY <2>1, <2>2
<1> QED  BY <1>1, <1>2, <1>3 DEF VolumesInv

\* What is known of a helper at work.
LEMMA HelperHas ==
    ASSUME VolumesInv, NEW h \in Helpers
    PROVE  /\ job[h] \in Volumes!Job /\ Fits(job[h])
           /\ job[h].op \in Ops /\ job[h].label \in Labels \cup {NoDevice}
                 /\ job[h].disks \subseteq Drives
           /\ job[h].unit \in Volumes!Units \cup {NoDevice} /\ job[h].at \in Places
           /\ spoiled = {} => /\ OneLine /\ HasLine /\ OneDeep /\ \A k \in fstab : k.label \in folders
                              /\ InOrder(job[h])
           /\ "crossed" \notin spoiled => lost = {}
<1>1. job[h] \in Volumes!Job
  BY VolumesTypes DEF VolumesInv
<1> QED  BY <1>1, JobHas DEF VolumesInv, Orderly, WipesNothing

\* A helper that ends leaves things as they are.
LEMMA EndedKeeps ==
    ASSUME VolumesInv, NEW h \in Helpers, job[h].at # "idle", Volumes!Ended(h),
           UNCHANGED <<Volumes!diskVars, fstab, scratch, spoiled, lost, begun, boots>>,
           mounted' = mounted, folders' = folders
    PROVE  VolumesInv'
<1>1. /\ job' \in [Helpers -> Volumes!Job] /\ \A g \in Helpers \ {h} : job'[g] = job[g]
      /\ job'[h] = Volumes!Idle /\ Volumes!Busy' \subseteq Volumes!Busy
  BY EndedIsJob DEF VolumesInv
<1>2. Volumes!TypeOK'
  BY <1>1, VolumesTypes DEF VolumesInv, Volumes!TypeOK, Volumes!diskVars
<1>3. Fits(job'[h]) /\ job'[h].at # "wipe"
  BY <1>1, IdleIsJob
<1>4. spoiled' = {} => /\ OneLine' /\ HasLine' /\ OneDeep' /\ \A k \in fstab' : k.label \in folders'
  BY HelperHas DEF OneLine, HasLine, OneDeep, Volumes!TopOf, Volumes!diskVars
<1>5. InOrder(job[h])'
  BY <1>1, IdleIsJob DEF InOrder, Creates, Unmounts
<1> QED  BY <1>1, <1>2, <1>3, <1>4, <1>5, HelperKeeps, HelperHas

\* What is wiped had nothing on it.
LEMMA WipeKeeps ==
    ASSUME VolumesInv, NEW h \in Helpers, Volumes!Wipe(h)
    PROVE  VolumesInv'
<1>1. job[h].at = "wipe" /\ UNCHANGED <<mounted, folders, fstab, scratch, spoiled, begun, boots>>
  BY DEF Volumes!Wipe
<1>2. CASE Volumes!Ended(h) /\ UNCHANGED <<Volumes!diskVars, lost>>
  BY <1>1, <1>2, EndedKeeps
<1>3. CASE /\ Volumes!Goto(h, "mkfs")
           /\ fs' = [u \in Volumes!Units |-> IF u \in job[h].disks THEN 0 ELSE fs[u]]
           /\ lost' = lost \cup {fs[d] : d \in {e \in job[h].disks : fs[e] # 0}}
           /\ members' = IF job[h].op = "raid" THEN job[h].disks ELSE members
           /\ listed' = (listed \/ job[h].op = "raid")
           /\ claimed' = (claimed \/ job[h].op = "space")
           /\ UNCHANGED label
  <2>1. /\ job' \in [Helpers -> Volumes!Job] /\ \A g \in Helpers \ {h} : job'[g] = job[g]
        /\ job'[h].op = job[h].op /\ job'[h].label = job[h].label /\ job'[h].disks = job[h].disks
        /\ job'[h].unit = job[h].unit /\ job'[h].at = "mkfs"
        /\ Volumes!Busy' \subseteq Volumes!Busy /\ h \in Volumes!Busy
    BY <1>1, <1>3, GotoIsJob DEF VolumesInv, Places
  <2>2. fs \in [Volumes!Units -> {0} \cup Volumes!Uuids] /\ job[h].disks \subseteq Volumes!Units
           /\ job[h].disks \subseteq Drives
    BY HelperHas, VolumesTypes DEF VolumesInv
  <2>3. fs' \in [Volumes!Units -> {0} \cup Volumes!Uuids]
    BY <1>3, <2>2
  <2>4. lost' \subseteq Volumes!Uuids
    <3>1. lost \subseteq Volumes!Uuids
      BY VolumesTypes DEF VolumesInv
    <3> QED  BY <1>3, <2>2, <3>1
  <2>5. members' \subseteq Drives
    BY <1>3, <2>2, VolumesTypes DEF VolumesInv
  <2>6. listed' \in BOOLEAN /\ claimed' \in BOOLEAN
    BY <1>3
  <2>7. Volumes!TypeOK'
    BY <1>1, <1>3, <2>1, <2>3, <2>4, <2>5, <2>6, VolumesTypes
       DEF VolumesInv, Volumes!TypeOK
  <2>8. "crossed" \notin spoiled => \A d \in job[h].disks : fs[d] = 0
    BY <1>1 DEF VolumesInv, WipesNothing
  <2>9. "crossed" \notin spoiled => lost' = {}
    BY <1>3, <2>8, HelperHas
  <2>10. "crossed" \notin spoiled => \A u \in Volumes!Units : fs'[u] = fs[u]
    BY <1>3, <2>8
  <2>11. Fits(job'[h])
    BY <1>1, <2>1, HelperHas DEF Fits, Creates
  <2>12. ASSUME spoiled = {}
         PROVE  /\ OneLine' /\ HasLine' /\ OneDeep' /\ \A k \in fstab' : k.label \in folders'
                /\ InOrder(job[h])'
    <3>1. OneLine /\ HasLine /\ OneDeep /\ InOrder(job[h]) /\ \A k \in fstab : k.label \in folders
      BY <2>12, HelperHas
    <3>2. HasLine'
      BY <1>1, <2>10, <2>12, <3>1, TopIsMounted DEF VolumesInv, HasLine, Volumes!TopOf
    <3>3. InOrder(job[h])'
      BY <1>1, <2>1, <3>1 DEF InOrder, Creates, Unmounts
    <3> QED  BY <1>1, <3>1, <3>2, <3>3 DEF OneLine, OneDeep
  <2> QED  BY <1>1, <2>1, <2>7, <2>9, <2>11, <2>12, HelperKeeps
<1> QED  BY <1>2, <1>3 DEF Volumes!Wipe

LEMMA MkfsKeeps ==
    ASSUME VolumesInv, NEW h \in Helpers, Volumes!Mkfs(h)
    PROVE  VolumesInv'
<1>1. job[h].at = "mkfs"
         /\ UNCHANGED <<members, listed, claimed, mounted, fstab, scratch, spoiled, lost, begun,
               boots>>
  BY DEF Volumes!Mkfs
<1>2. CASE Volumes!Ended(h) /\ UNCHANGED <<fs, label, folders>>
  BY <1>1, <1>2, EndedKeeps DEF Volumes!diskVars
<1>3. CASE /\ ~Volumes!IsMounted(job[h].unit) /\ Volumes!Goto(h, "read")
           /\ \E new \in Volumes!Uuids :
                 /\ fs' = [fs EXCEPT ![job[h].unit] = new]
                 /\ label' = [label EXCEPT ![new] = job[h].label]
           /\ folders' = folders \cup {job[h].label}
  <2>1. PICK new \in Volumes!Uuids : /\ fs' = [fs EXCEPT ![job[h].unit] = new]
                             /\ label' = [label EXCEPT ![new] = job[h].label]
    BY <1>3
  <2>2. /\ job' \in [Helpers -> Volumes!Job] /\ \A g \in Helpers \ {h} : job'[g] = job[g]
        /\ job'[h].op = job[h].op /\ job'[h].label = job[h].label /\ job'[h].disks = job[h].disks
        /\ job'[h].unit = job[h].unit /\ job'[h].at = "read"
        /\ Volumes!Busy' \subseteq Volumes!Busy /\ h \in Volumes!Busy
    BY <1>1, <1>3, GotoIsJob DEF VolumesInv, Places
  <2>3. Creates(job[h]) /\ job[h].unit \in Volumes!Units /\ job[h].label \in Labels
    BY <1>1, HelperHas DEF Fits
  <2>4. fs \in [Volumes!Units -> {0} \cup Volumes!Uuids]
           /\ label \in [Volumes!Uuids -> Labels \cup {NoDevice}]
    BY VolumesTypes DEF VolumesInv
  <2>5. fs' \in [Volumes!Units -> {0} \cup Volumes!Uuids]
           /\ label' \in [Volumes!Uuids -> Labels \cup {NoDevice}]
    BY <2>1, <2>3, <2>4
  <2>6. folders' \subseteq Labels
    BY <1>3, <2>3, VolumesTypes DEF VolumesInv
  <2>7. Volumes!TypeOK'
    BY <1>1, <2>2, <2>5, <2>6, VolumesTypes DEF VolumesInv, Volumes!TypeOK
  <2>8. Fits(job'[h])
    BY <2>2, <2>3 DEF Fits, Creates
  <2>9. ASSUME spoiled = {}
        PROVE  /\ OneLine' /\ HasLine' /\ OneDeep' /\ \A k \in fstab' : k.label \in folders'
               /\ InOrder(job[h])'
    <3>1. OneLine /\ HasLine /\ OneDeep /\ InOrder(job[h]) /\ \A k \in fstab : k.label \in folders
      BY <2>9, HelperHas
    <3>2. \A l \in Labels : mounted[l] # <<>>
             => Volumes!TopOf(l)' = Volumes!TopOf(l) /\ fs'[Volumes!TopOf(l)] = fs[Volumes!TopOf(l)]
      <4> SUFFICES ASSUME NEW l \in Labels, mounted[l] # <<>>
                   PROVE  Volumes!TopOf(l)' = Volumes!TopOf(l)
                             /\ fs'[Volumes!TopOf(l)] = fs[Volumes!TopOf(l)]
        OBVIOUS
      <4>1. Volumes!TopOf(l) \in Volumes!Units /\ Volumes!TopOf(l) # job[h].unit
        BY <1>3, TopIsMounted DEF VolumesInv
      <4>2. Volumes!TopOf(l)' = Volumes!TopOf(l)
        BY <1>1 DEF Volumes!TopOf
      <4> QED  BY <2>1, <2>4, <4>1, <4>2
    <3>3. HasLine'
      BY <1>1, <3>1, <3>2 DEF HasLine
    <3>4. InOrder(job[h])'
      BY <1>1, <1>3, <2>2, <2>3, <3>1 DEF InOrder, Creates, Unmounts
    <3> QED  BY <1>1, <1>3, <3>1, <3>3, <3>4 DEF OneLine, OneDeep
  <2> QED  BY <1>1, <2>2, <2>7, <2>8, <2>9, HelperKeeps, HelperHas
<1> QED  BY <1>2, <1>3 DEF Volumes!Mkfs

\* What the rewriting leaves: no line of the mountpoint, or the same lines but for a flag.
LEMMA OtherLinesAre ==
    ASSUME Volumes!TypeOK, NEW j \in Volumes!Job
    PROVE  /\ Volumes!OtherLines(j) \subseteq Volumes!Lines
           /\ \A k \in Volumes!OtherLines(j) : \E m \in fstab : k.label = m.label /\ k.uuid = m.uuid
           /\ \A m \in fstab : m.label # j.label \/ j.op = "quota" =>
                 \E k \in Volumes!OtherLines(j) : k.label = m.label /\ k.uuid = m.uuid
           /\ j.op # "quota" => \A k \in Volumes!OtherLines(j) : k.label # j.label
<1>1. fstab \subseteq Volumes!Lines
  BY VolumesTypes
<1>2. CASE j.op # "quota"
  BY <1>1, <1>2 DEF Volumes!OtherLines
<1>3. CASE j.op = "quota"
  <2> DEFINE Marked(k) == IF k.label = j.label THEN [k EXCEPT !.quota = TRUE] ELSE k
  <2>1. Volumes!OtherLines(j) = {Marked(k) : k \in fstab}
    BY <1>3 DEF Volumes!OtherLines
  <2>2. \A k \in Volumes!Lines : Marked(k) \in Volumes!Lines /\ Marked(k).label = k.label
           /\ Marked(k).uuid = k.uuid
    BY DEF Volumes!Lines
  <2> HIDE DEF Marked
  <2> QED  BY <1>1, <1>3, <2>1, <2>2
<1> QED  BY <1>2, <1>3

LEMMA ReadFstabKeeps ==
    ASSUME VolumesInv, NEW h \in Helpers, Volumes!ReadFstab(h)
    PROVE  VolumesInv'
<1>1. /\ job[h].at = "read" /\ scratch' = Volumes!OtherLines(job[h]) /\ Volumes!Goto(h, "copy")
      /\ UNCHANGED <<Volumes!diskVars, mounted, folders, fstab, spoiled, lost, begun, boots>>
  BY DEF Volumes!ReadFstab
<1>2. /\ job' \in [Helpers -> Volumes!Job] /\ \A g \in Helpers \ {h} : job'[g] = job[g]
      /\ job'[h].op = job[h].op /\ job'[h].label = job[h].label /\ job'[h].disks = job[h].disks
      /\ job'[h].unit = job[h].unit /\ job'[h].at = "copy"
      /\ Volumes!Busy' \subseteq Volumes!Busy /\ h \in Volumes!Busy
  BY <1>1, GotoIsJob DEF VolumesInv, Places
<1>3. scratch' \subseteq Volumes!Lines
  BY <1>1, HelperHas, OtherLinesAre DEF VolumesInv
<1>4. Volumes!TypeOK'
  BY <1>1, <1>2, <1>3, VolumesTypes DEF VolumesInv, Volumes!TypeOK, Volumes!diskVars
<1>5. Fits(job'[h])
  BY <1>1, <1>2, HelperHas DEF Fits, Creates
<1>6. ASSUME spoiled = {}
      PROVE  /\ OneLine' /\ HasLine' /\ OneDeep' /\ \A k \in fstab' : k.label \in folders'
             /\ InOrder(job[h])'
  <2>1. OneLine /\ HasLine /\ OneDeep /\ InOrder(job[h]) /\ \A k \in fstab : k.label \in folders
    BY <1>6, HelperHas
  <2>2. Volumes!OtherLines(job[h])' = Volumes!OtherLines(job[h])
    BY <1>1, <1>2 DEF Volumes!OtherLines
  <2>3. InOrder(job[h])'
    BY <1>1, <1>2, <2>1, <2>2 DEF InOrder, Creates, Unmounts
  <2> QED  BY <1>1, <2>1, <2>3
              DEF OneLine, HasLine, OneDeep, Volumes!TopOf, Volumes!diskVars
<1> QED  BY <1>1, <1>2, <1>4, <1>5, <1>6, HelperKeeps, HelperHas

\* The scratch file is copied back as it was read.
LEMMA CopyFstabKeeps ==
    ASSUME VolumesInv, NEW h \in Helpers, Volumes!CopyFstab(h)
    PROVE  VolumesInv'
<1>1. job[h].at = "copy"
         /\ UNCHANGED <<Volumes!diskVars, mounted, folders, scratch, spoiled, lost, begun, boots>>
  BY DEF Volumes!CopyFstab
<1>2. job[h] \in Volumes!Job /\ Fits(job[h])
  BY HelperHas
<1>3. Volumes!OtherLines(job[h]) # NoDevice
  BY <1>2, OtherLinesAre, VolumesNumbers DEF VolumesInv
<1>4. spoiled = {} => scratch = Volumes!OtherLines(job[h])
  BY <1>1, HelperHas DEF InOrder
<1>5. CASE scratch # NoDevice /\ fstab' = scratch /\ Volumes!Goto(h, "drop")
  <2>1. /\ job' \in [Helpers -> Volumes!Job] /\ \A g \in Helpers \ {h} : job'[g] = job[g]
        /\ job'[h].op = job[h].op /\ job'[h].label = job[h].label /\ job'[h].disks = job[h].disks
        /\ job'[h].unit = job[h].unit /\ job'[h].at = "drop"
        /\ Volumes!Busy' \subseteq Volumes!Busy /\ h \in Volumes!Busy
    BY <1>1, <1>5, GotoIsJob DEF VolumesInv, Places
  <2>2. Volumes!TypeOK'
    BY <1>1, <1>5, <2>1, VolumesTypes DEF VolumesInv, Volumes!TypeOK, Volumes!diskVars
  <2>3. Fits(job'[h])
    BY <1>1, <1>2, <2>1 DEF Fits, Creates
  <2>4. ASSUME spoiled = {}
        PROVE  /\ OneLine' /\ HasLine' /\ OneDeep' /\ \A k \in fstab' : k.label \in folders'
               /\ InOrder(job[h])'
    <3>1. OneLine /\ HasLine /\ OneDeep /\ InOrder(job[h]) /\ \A k \in fstab : k.label \in folders
      BY <2>4, HelperHas
    <3>2. /\ \A k \in fstab' : \E m \in fstab : k.label = m.label /\ k.uuid = m.uuid
          /\ \A m \in fstab : m.label # job[h].label \/ job[h].op = "quota" =>
                 \E k \in fstab' : k.label = m.label /\ k.uuid = m.uuid
          /\ job[h].op # "quota" => \A k \in fstab' : k.label # job[h].label
      BY <1>2, <1>4, <1>5, <2>4, OtherLinesAre DEF VolumesInv
    <3>3. Creates(job[h]) \/ job[h].op = "quota"
      BY <1>1, <1>2 DEF Fits
    <3>4. Creates(job[h]) => mounted[job[h].label] = <<>>
      BY <3>1 DEF InOrder, Unmounts
    <3>5. HasLine'
      <4> SUFFICES ASSUME NEW l \in Labels, mounted'[l] # <<>>
                   PROVE  \E k \in fstab' : k.label = l /\ k.uuid = fs'[Volumes!TopOf(l)']
        BY DEF HasLine
      <4>1. mounted[l] # <<>> /\ Volumes!TopOf(l)' = Volumes!TopOf(l) /\ fs' = fs
        BY <1>1 DEF Volumes!TopOf, Volumes!diskVars
      <4>2. PICK m \in fstab : m.label = l /\ m.uuid = fs[Volumes!TopOf(l)]
        BY <3>1, <4>1 DEF HasLine
      <4>3. m.label # job[h].label \/ job[h].op = "quota"
        BY <3>3, <3>4, <4>1, <4>2
      <4> QED  BY <3>2, <4>1, <4>2, <4>3
    <3>6. OneLine'
      BY <3>1, <3>2 DEF OneLine
    <3>7. \A k \in fstab' : k.label \in folders'
      BY <1>1, <3>1, <3>2
    <3>8. Creates(job[h]) => job[h].op # "quota"
      BY DEF Creates
    <3>9. InOrder(job[h])'
      BY <1>1, <2>1, <3>1, <3>2, <3>8 DEF InOrder, Creates, Unmounts
    <3> QED  BY <1>1, <3>1, <3>5, <3>6, <3>7, <3>9 DEF OneDeep
  <2> QED  BY <1>1, <2>1, <2>2, <2>3, <2>4, HelperKeeps, HelperHas
<1>6. CASE scratch = NoDevice /\ fstab' = {}
              /\ (IF job[h].op = "quota" THEN Volumes!Goto(h, "umount") ELSE Volumes!Ended(h))
  <2>1. spoiled # {}
    BY <1>3, <1>4, <1>6
  <2>2. /\ job' \in [Helpers -> Volumes!Job] /\ \A g \in Helpers \ {h} : job'[g] = job[g]
        /\ Volumes!Busy' \subseteq Volumes!Busy /\ Fits(job'[h]) /\ job'[h].at # "wipe"
    <3>1. CASE job[h].op = "quota"
      <4>1. /\ job' \in [Helpers -> Volumes!Job] /\ \A g \in Helpers \ {h} : job'[g] = job[g]
            /\ job'[h].op = job[h].op /\ job'[h].label = job[h].label
            /\ job'[h].unit = job[h].unit /\ job'[h].at = "umount"
            /\ Volumes!Busy' \subseteq Volumes!Busy
        BY <1>1, <1>6, <3>1, GotoIsJob DEF VolumesInv, Places
      <4>2. Fits(job'[h])
        BY <1>2, <3>1, <4>1 DEF Fits, Creates
      <4> QED  BY <4>1, <4>2
    <3>2. CASE job[h].op # "quota"
      BY <1>6, <3>2, EndedIsJob, IdleIsJob DEF VolumesInv
    <3> QED  BY <3>1, <3>2
  <2>3. Volumes!TypeOK'
    BY <1>1, <1>6, <2>2, VolumesTypes DEF VolumesInv, Volumes!TypeOK, Volumes!diskVars
  <2> QED  BY <1>1, <2>1, <2>2, <2>3, HelperKeeps, HelperHas
<1> QED  BY <1>5, <1>6 DEF Volumes!CopyFstab

LEMMA DropScratchKeeps ==
    ASSUME VolumesInv, NEW h \in Helpers, Volumes!DropScratch(h)
    PROVE  VolumesInv'
<1> DEFINE at == IF job[h].op = "quota" THEN "umount" ELSE "append"
<1>1. /\ job[h].at = "drop" /\ scratch' = NoDevice /\ Volumes!Goto(h, at)
      /\ UNCHANGED <<Volumes!diskVars, mounted, folders, fstab, spoiled, lost, begun, boots>>
  BY DEF Volumes!DropScratch
<1>2. /\ job' \in [Helpers -> Volumes!Job] /\ \A g \in Helpers \ {h} : job'[g] = job[g]
      /\ job'[h].op = job[h].op /\ job'[h].label = job[h].label /\ job'[h].disks = job[h].disks
      /\ job'[h].unit = job[h].unit /\ job'[h].at = at
      /\ Volumes!Busy' \subseteq Volumes!Busy /\ h \in Volumes!Busy
  BY <1>1, GotoIsJob DEF VolumesInv, Places
<1>3. Volumes!TypeOK'
  BY <1>1, <1>2, VolumesTypes DEF VolumesInv, Volumes!TypeOK, Volumes!diskVars
<1>4. Fits(job'[h])
  BY <1>1, <1>2, HelperHas DEF Fits, Creates
<1>5. ASSUME spoiled = {}
      PROVE  /\ OneLine' /\ HasLine' /\ OneDeep' /\ \A k \in fstab' : k.label \in folders'
             /\ InOrder(job[h])'
  <2>1. OneLine /\ HasLine /\ OneDeep /\ InOrder(job[h]) /\ \A k \in fstab : k.label \in folders
    BY <1>5, HelperHas
  <2>2. InOrder(job[h])'
    BY <1>1, <1>2, <2>1 DEF InOrder, Creates, Unmounts
  <2> QED  BY <1>1, <2>1, <2>2
              DEF OneLine, HasLine, OneDeep, Volumes!TopOf, Volumes!diskVars
<1> QED  BY <1>1, <1>2, <1>3, <1>4, <1>5, HelperKeeps, HelperHas

\* The new line is the one of its mountpoint, on which nothing is mounted.
LEMMA AppendLineKeeps ==
    ASSUME VolumesInv, NEW h \in Helpers, Volumes!AppendLine(h)
    PROVE  VolumesInv'
<1> DEFINE new == [label |-> job[h].label, uuid |-> fs[job[h].unit], quota |-> FALSE]
<1>1. /\ job[h].at = "append" /\ Volumes!Goto(h, "mount")
      /\ fstab' = IF fs[job[h].unit] = 0 THEN fstab ELSE fstab \cup {new}
      /\ UNCHANGED <<Volumes!diskVars, mounted, folders, scratch, spoiled, lost, begun, boots>>
  BY DEF Volumes!AppendLine
<1>2. /\ job' \in [Helpers -> Volumes!Job] /\ \A g \in Helpers \ {h} : job'[g] = job[g]
      /\ job'[h].op = job[h].op /\ job'[h].label = job[h].label /\ job'[h].disks = job[h].disks
      /\ job'[h].unit = job[h].unit /\ job'[h].at = "mount"
      /\ Volumes!Busy' \subseteq Volumes!Busy /\ h \in Volumes!Busy
  BY <1>1, GotoIsJob DEF VolumesInv, Places
<1>3. Creates(job[h]) /\ job[h].unit \in Volumes!Units /\ job[h].label \in Labels
  BY <1>1, HelperHas DEF Fits
<1>4. fs[job[h].unit] # 0 => new \in Volumes!Lines
  <2>1. fs[job[h].unit] \in {0} \cup Volumes!Uuids
    BY <1>3, VolumesTypes DEF VolumesInv
  <2> QED  BY <1>3, <2>1 DEF Volumes!Lines
<1>5. new.label = job[h].label /\ \A k \in fstab' : k \in fstab \/ k = new
  BY <1>1
<1>6. fstab \subseteq fstab'
  BY <1>1
<1>7. fstab' \subseteq Volumes!Lines
  BY <1>1, <1>4, VolumesTypes DEF VolumesInv
<1> HIDE DEF new
<1>8. Volumes!TypeOK'
  BY <1>1, <1>2, <1>7, VolumesTypes DEF VolumesInv, Volumes!TypeOK, Volumes!diskVars
<1>9. Fits(job'[h])
  BY <1>1, <1>2, HelperHas DEF Fits, Creates
<1>10. ASSUME spoiled = {}
       PROVE  /\ OneLine' /\ HasLine' /\ OneDeep' /\ \A k \in fstab' : k.label \in folders'
              /\ InOrder(job[h])'
  <2>1. OneLine /\ HasLine /\ OneDeep /\ InOrder(job[h]) /\ \A k \in fstab : k.label \in folders
    BY <1>10, HelperHas
  <2>2. job[h].label \in folders /\ \A k \in fstab : k.label # job[h].label
    BY <1>1, <1>3, <2>1 DEF InOrder
  <2>3. OneLine'
    BY <1>5, <2>1, <2>2 DEF OneLine
  <2>4. \A k \in fstab' : k.label \in folders'
    BY <1>1, <1>5, <2>1, <2>2
  <2>5. HasLine'
    BY <1>1, <1>6, <2>1 DEF HasLine, Volumes!TopOf, Volumes!diskVars
  <2>6. InOrder(job[h])'
    BY <1>1, <1>2, <1>3, <2>1 DEF InOrder, Creates, Unmounts
  <2> QED  BY <1>1, <2>1, <2>3, <2>4, <2>5, <2>6 DEF OneDeep
<1> QED  BY <1>1, <1>2, <1>8, <1>9, <1>10, HelperKeeps, HelperHas

\* A device whose filesystem a line of the mountpoint names.
LEMMA NamedAre ==
    ASSUME NEW l, NEW u \in Volumes!Named(l)
    PROVE  u \in Volumes!Units /\ \E k \in fstab : k.label = l /\ k.uuid = fs[u]
BY DEF Volumes!Named

\* What is mounted by its line, where nothing was, has a line.
LEMMA MountedByLine ==
    ASSUME Volumes!TypeOK, OneLine, HasLine, OneDeep, \A k \in fstab : k.label \in folders,
           NEW l \in Labels, NEW u \in Volumes!Named(l), mounted[l] = <<>>,
              mounted' = [mounted EXCEPT ![l] = Append(@, u)],
           fs' = fs, fstab' = fstab, folders \subseteq folders'
    PROVE  OneLine' /\ HasLine' /\ OneDeep' /\ \A k \in fstab' : k.label \in folders'
<1>1. u \in Volumes!Units /\ \E k \in fstab : k.label = l /\ k.uuid = fs[u]
  BY NamedAre
<1>2. /\ \A m \in Labels \ {l} : mounted'[m] = mounted[m] /\ Volumes!TopOf(m)' = Volumes!TopOf(m)
      /\ mounted'[l] = <<u>> /\ Len(mounted'[l]) = 1 /\ Volumes!TopOf(l)' = u
  BY <1>1, MountedThere
<1>3. HasLine'
  BY <1>1, <1>2 DEF HasLine
<1>4. OneDeep'
  BY <1>1, <1>2 DEF OneDeep
<1> QED  BY <1>3, <1>4 DEF OneLine

LEMMA MountKeeps ==
    ASSUME VolumesInv, NEW h \in Helpers, Volumes!Mount(h)
    PROVE  VolumesInv'
<1>1. job[h].at = "mount" /\ Volumes!Ended(h)
      /\ UNCHANGED <<Volumes!diskVars, folders, fstab, scratch, spoiled, lost, begun, boots>>
  BY DEF Volumes!Mount
<1>2. CASE UNCHANGED mounted
  BY <1>1, <1>2, EndedKeeps
<1>3. ASSUME NEW u \in Volumes!Named(job[h].label),
             mounted' = IF Volumes!IsMounted(u) THEN mounted
                        ELSE [mounted EXCEPT ![job[h].label] = Append(@, u)],
             ~ UNCHANGED mounted
      PROVE  VolumesInv'
  <2>1. mounted' = [mounted EXCEPT ![job[h].label] = Append(@, u)]
    BY <1>3
  <2>2. job[h].label \in Labels /\ (Creates(job[h]) \/ job[h].op = "quota")
    BY <1>1, HelperHas DEF Fits
  <2>3. u \in Volumes!Units
    BY NamedAre
  <2>4. mounted' \in [Labels -> Seq(Volumes!Units)]
    BY <2>1, <2>2, <2>3, MountedThere DEF VolumesInv
  <2>5. /\ job' \in [Helpers -> Volumes!Job] /\ \A g \in Helpers \ {h} : job'[g] = job[g]
        /\ job'[h] = Volumes!Idle /\ Volumes!Busy' \subseteq Volumes!Busy
    BY <1>1, EndedIsJob DEF VolumesInv
  <2>6. Volumes!TypeOK'
    BY <1>1, <2>4, <2>5, VolumesTypes DEF VolumesInv, Volumes!TypeOK, Volumes!diskVars
  <2>7. ASSUME spoiled = {}
        PROVE  /\ OneLine' /\ HasLine' /\ OneDeep' /\ \A k \in fstab' : k.label \in folders'
               /\ InOrder(job[h])'
    <3>1. OneLine /\ HasLine /\ OneDeep /\ InOrder(job[h]) /\ \A k \in fstab : k.label \in folders
      BY <2>7, HelperHas
    <3>2. mounted[job[h].label] = <<>>
      BY <1>1, <2>2, <3>1 DEF InOrder, Unmounts
    <3>3. OneLine' /\ HasLine' /\ OneDeep' /\ \A k \in fstab' : k.label \in folders'
      BY <1>1, <2>1, <2>2, <3>1, <3>2, MountedByLine DEF VolumesInv, Volumes!diskVars
    <3>4. InOrder(job[h])'
      BY <2>5, IdleIsJob DEF InOrder, Creates, Unmounts
    <3> QED  BY <3>3, <3>4
  <2> QED  BY <1>1, <2>5, <2>6, <2>7, IdleIsJob, HelperKeeps, HelperHas
<1> QED  BY <1>2, <1>3 DEF Volumes!Mount

LEMMA UmountKeeps ==
    ASSUME VolumesInv, NEW h \in Helpers, Volumes!Umount(h)
    PROVE  VolumesInv'
<1> DEFINE next == IF job[h].op = "quota" THEN "mount" ELSE "clear"
           on == job[h].label # NoDevice /\ mounted[job[h].label] # <<>>
<1>1. /\ job[h].at = "umount"
      /\ UNCHANGED <<Volumes!diskVars, folders, fstab, scratch, lost, begun, boots>>
  BY DEF Volumes!Umount
<1>2. CASE /\ UNCHANGED <<mounted, spoiled>> /\ Volumes!Ended(h)
  BY <1>1, <1>2, EndedKeeps
<1>3. CASE /\ Volumes!Goto(h, next)
           /\ \/ ~on /\ UNCHANGED <<mounted, spoiled>>
              \/ on /\ mounted' = [mounted EXCEPT ![job[h].label] = Volumes!Pop(job[h].label)]
                    /\ UNCHANGED spoiled
              \/ UNCHANGED mounted /\ spoiled' = spoiled \cup {"busy"}
  <2>1. /\ job' \in [Helpers -> Volumes!Job] /\ \A g \in Helpers \ {h} : job'[g] = job[g]
        /\ job'[h].op = job[h].op /\ job'[h].label = job[h].label /\ job'[h].disks = job[h].disks
        /\ job'[h].unit = job[h].unit /\ job'[h].at = next
        /\ Volumes!Busy' \subseteq Volumes!Busy /\ h \in Volumes!Busy
    BY <1>1, <1>3, GotoIsJob DEF VolumesInv, Places
  <2>2. job[h].label \in Labels \cup {NoDevice} /\ job[h].op \in {"quota", "erase", "destroy"}
        /\ (job[h].op = "quota" => job[h].label \in Labels)
    BY <1>1, HelperHas DEF Fits
  <2>3. on => job[h].label \in Labels
    BY <2>2
  <2>4. mounted' \in [Labels -> Seq(Volumes!Units)]
    BY <1>3, <2>3, UnmountedThere, VolumesTypes DEF VolumesInv
  <2>5. spoiled' \subseteq {"crossed", "crashed", "busy", "hidden", "swept", "unlisted"}
           /\ spoiled \subseteq spoiled'
    BY <1>3, VolumesTypes DEF VolumesInv
  <2>6. Volumes!TypeOK'
    BY <1>1, <2>1, <2>4, <2>5, VolumesTypes
       DEF VolumesInv, Volumes!TypeOK, Volumes!diskVars
  <2>7. Fits(job'[h])
    BY <2>1, <2>2 DEF Fits, Creates
  <2>8. ASSUME spoiled' = {}
        PROVE  /\ OneLine' /\ HasLine' /\ OneDeep' /\ \A k \in fstab' : k.label \in folders'
               /\ InOrder(job[h])'
    <3>1. OneLine /\ HasLine /\ OneDeep /\ InOrder(job[h]) /\ \A k \in fstab : k.label \in folders
      BY <2>5, <2>8, HelperHas
    <3>2. /\ \A l \in Labels : mounted'[l] # <<>>
                => mounted'[l] = mounted[l] /\ Volumes!TopOf(l)' = Volumes!TopOf(l)
          /\ job[h].label # NoDevice => mounted'[job[h].label] = <<>>
      <4>1. CASE ~on /\ UNCHANGED mounted
        BY <4>1 DEF Volumes!TopOf
      <4>2. CASE on /\ mounted' = [mounted EXCEPT ![job[h].label] = Volumes!Pop(job[h].label)]
        <5>1. Len(mounted[job[h].label]) = 1
          BY <2>3, <3>1, <4>2 DEF OneDeep
        <5>2. /\ \A m \in Labels \ {job[h].label} : mounted'[m] = mounted[m]
                    /\ Volumes!TopOf(m)' = Volumes!TopOf(m)
              /\ mounted'[job[h].label] = <<>>
          BY <2>3, <4>2, <5>1, UnmountedThere DEF VolumesInv
        <5> QED  BY <5>2
      <4> QED  BY <1>3, <2>8, <4>1, <4>2
    <3>3. HasLine' /\ OneDeep'
      BY <1>1, <3>1, <3>2 DEF HasLine, OneDeep, Volumes!diskVars
    <3>4. InOrder(job[h])'
      <4>1. ~Creates(job'[h]) /\ job'[h].at \in {"mount", "clear"}
        BY <2>1, <2>2 DEF Creates
      <4>2. job[h].op = "quota" => job[h].label # NoDevice
        BY <2>2, VolumesNumbers
      <4> QED  BY <2>1, <3>2, <4>1, <4>2 DEF InOrder, Creates, Unmounts
    <3> QED  BY <1>1, <3>1, <3>3, <3>4 DEF OneLine
  <2>9. "crossed" \notin spoiled' => lost' = {}
    BY <1>1, <2>5, HelperHas
  <2>10. job'[h].at # "wipe"
    BY <2>1
  <2> QED  BY <1>1, <2>1, <2>5, <2>6, <2>7, <2>8, <2>9, <2>10, HelperKeeps
<1> QED  BY <1>2, <1>3 DEF Volumes!Umount

\* What is cleared is mounted nowhere.
LEMMA ClearKeeps ==
    ASSUME VolumesInv, NEW h \in Helpers, Volumes!Clear(h)
    PROVE  VolumesInv'
<1>1. /\ job[h].at = "clear" /\ Volumes!Goto(h, "sweep")
      /\ UNCHANGED <<label, claimed, mounted, folders, fstab, scratch, spoiled, lost, begun, boots>>
  BY DEF Volumes!Clear
<1>2. /\ job' \in [Helpers -> Volumes!Job] /\ \A g \in Helpers \ {h} : job'[g] = job[g]
      /\ job'[h].op = job[h].op /\ job'[h].label = job[h].label /\ job'[h].disks = job[h].disks
      /\ job'[h].unit = job[h].unit /\ job'[h].at = "sweep"
      /\ Volumes!Busy' \subseteq Volumes!Busy /\ h \in Volumes!Busy
  BY <1>1, GotoIsJob DEF VolumesInv, Places
<1>3. fs' = fs \/ \E u : ~Volumes!IsMounted(u) /\ fs' = [fs EXCEPT ![u] = 0]
  BY DEF Volumes!Clear
<1>4. members' = members \/ members' = {}
  BY DEF Volumes!Clear
<1>5. listed' \in BOOLEAN
  BY VolumesTypes DEF VolumesInv, Volumes!Clear
<1>6. fs \in [Volumes!Units -> {0} \cup Volumes!Uuids]
  BY VolumesTypes DEF VolumesInv
<1>7. fs' \in [Volumes!Units -> {0} \cup Volumes!Uuids]
  BY <1>3, <1>6
<1>8. Volumes!TypeOK'
  BY <1>1, <1>2, <1>4, <1>5, <1>7, VolumesTypes DEF VolumesInv, Volumes!TypeOK
<1>9. Fits(job'[h])
  BY <1>1, <1>2, HelperHas DEF Fits, Creates
<1>10. ASSUME spoiled = {}
       PROVE  /\ OneLine' /\ HasLine' /\ OneDeep' /\ \A k \in fstab' : k.label \in folders'
              /\ InOrder(job[h])'
  <2>1. OneLine /\ HasLine /\ OneDeep /\ InOrder(job[h]) /\ \A k \in fstab : k.label \in folders
    BY <1>10, HelperHas
  <2>2. HasLine'
    <3> SUFFICES ASSUME NEW l \in Labels, mounted'[l] # <<>>
                 PROVE  \E k \in fstab' : k.label = l /\ k.uuid = fs'[Volumes!TopOf(l)']
      BY DEF HasLine
    <3>1. mounted[l] # <<>> /\ Volumes!TopOf(l)' = Volumes!TopOf(l) /\ fstab' = fstab
      BY <1>1 DEF Volumes!TopOf
    <3>2. Volumes!TopOf(l) \in Volumes!Units /\ Volumes!IsMounted(Volumes!TopOf(l))
      BY <3>1, TopIsMounted DEF VolumesInv
    <3>3. fs'[Volumes!TopOf(l)] = fs[Volumes!TopOf(l)]
      BY <1>3, <1>6, <3>2
    <3> QED  BY <2>1, <3>1, <3>3 DEF HasLine
  <2>3. InOrder(job[h])'
    BY <1>1, <1>2, <2>1 DEF InOrder, Creates, Unmounts
  <2> QED  BY <1>1, <2>1, <2>2, <2>3 DEF OneLine, OneDeep
<1> QED  BY <1>1, <1>2, <1>8, <1>9, <1>10, HelperKeeps, HelperHas

\* The lines that go are of what is no longer mounted, or it is known.
LEMMA SweepKeeps ==
    ASSUME VolumesInv, NEW h \in Helpers, Volumes!Sweep(h)
    PROVE  VolumesInv'
<1> DEFINE gone == {k \in fstab : job[h].label # NoDevice /\ k.label \in Covers[job[h].label]}
<1>1. /\ job[h].at = "sweep" /\ Volumes!Ended(h) /\ fstab' = fstab \ gone
      /\ spoiled' = IF \E k \in gone : k.label # job[h].label THEN spoiled \cup {"swept"}
            ELSE spoiled
      /\ folders' = IF job[h].label # NoDevice /\ mounted[job[h].label] = <<>>
            THEN folders \ {job[h].label}
                    ELSE folders
      /\ UNCHANGED <<Volumes!diskVars, mounted, scratch, lost, begun, boots>>
  BY DEF Volumes!Sweep
<1>2. /\ job' \in [Helpers -> Volumes!Job] /\ \A g \in Helpers \ {h} : job'[g] = job[g]
      /\ job'[h] = Volumes!Idle /\ Volumes!Busy' \subseteq Volumes!Busy
  BY <1>1, EndedIsJob DEF VolumesInv
<1>3. spoiled \subseteq spoiled' /\ fstab' \subseteq fstab /\ folders' \subseteq folders
      /\ spoiled' \subseteq {"crossed", "crashed", "busy", "hidden", "swept", "unlisted"}
  BY <1>1, VolumesTypes DEF VolumesInv
<1>4. Volumes!TypeOK'
  BY <1>1, <1>2, <1>3, VolumesTypes DEF VolumesInv, Volumes!TypeOK, Volumes!diskVars
<1>5. ASSUME spoiled' = {}
      PROVE  /\ OneLine' /\ HasLine' /\ OneDeep' /\ \A k \in fstab' : k.label \in folders'
             /\ InOrder(job[h])'
  <2>1. OneLine /\ HasLine /\ OneDeep /\ InOrder(job[h]) /\ \A k \in fstab : k.label \in folders
    BY <1>3, <1>5, HelperHas
  <2>2. job[h].label # NoDevice => mounted[job[h].label] = <<>>
    BY <1>1, <2>1 DEF InOrder, Unmounts
  <2>3. \A k \in gone : k.label = job[h].label
    BY <1>1, <1>5
  <2>4. \A k \in fstab : job[h].label # NoDevice /\ k.label = job[h].label => k \in gone
    BY HelperHas, VolumesNumbers
  <2>5. \A k \in fstab : k.label # job[h].label => k \in fstab'
    BY <1>1, <2>3
  <2>6. \A k \in fstab' : job[h].label # NoDevice => k.label # job[h].label
    BY <1>1, <1>3, <2>4
  <2> HIDE DEF gone
  <2>7. HasLine'
    <3> SUFFICES ASSUME NEW l \in Labels, mounted'[l] # <<>>
                 PROVE  \E k \in fstab' : k.label = l /\ k.uuid = fs'[Volumes!TopOf(l)']
      BY DEF HasLine
    <3>1. mounted[l] # <<>> /\ Volumes!TopOf(l)' = Volumes!TopOf(l) /\ fs' = fs
      BY <1>1 DEF Volumes!TopOf, Volumes!diskVars
    <3>2. PICK k \in fstab : k.label = l /\ k.uuid = fs[Volumes!TopOf(l)]
      BY <2>1, <3>1 DEF HasLine
    <3>3. k.label # job[h].label
      BY <2>2, <3>1, <3>2, VolumesNumbers
    <3> QED  BY <2>5, <3>1, <3>2, <3>3
  <2>8. OneLine'
    BY <1>3, <2>1 DEF OneLine
  <2>9. OneDeep'
    BY <1>1, <2>1, <2>2 DEF OneDeep
  <2>10. \A k \in fstab' : k.label \in folders'
    BY <1>1, <1>3, <2>1, <2>6
  <2>11. InOrder(job[h])'
    BY <1>2, IdleIsJob DEF InOrder, Creates, Unmounts
  <2> QED  BY <2>7, <2>8, <2>9, <2>10, <2>11
<1>6. "crossed" \notin spoiled' => lost' = {}
  BY <1>1, <1>3, HelperHas
<1> QED  BY <1>1, <1>2, <1>3, <1>4, <1>5, <1>6, IdleIsJob, HelperKeeps

\* What happens between the helpers: while none is at work, or it is known.
LEMMA BetweenKeeps ==
    ASSUME VolumesInv, Volumes!TypeOK', \A h \in Helpers : Fits(job'[h]),
           fs' = fs, lost' = lost, spoiled \subseteq spoiled',
           "crossed" \notin spoiled' => \A h \in Helpers : job'[h] = Volumes!Idle,
           spoiled' = {}
              => OneLine' /\ HasLine' /\ OneDeep' /\ \A k \in fstab' : k.label \in folders'
    PROVE  VolumesInv'
<1>1. WipesNothing'
  <2> SUFFICES ASSUME "crossed" \notin spoiled'
               PROVE  /\ lost' = {} /\ Alone'
                      /\ \A h \in Helpers : job'[h].at = "wipe"
                            => \A d \in job'[h].disks : fs'[d] = 0
    BY DEF WipesNothing
  <2>1. lost' = {}
    BY DEF VolumesInv, WipesNothing
  <2>2. \A h \in Helpers : job'[h] = Volumes!Idle /\ job'[h].at # "wipe"
    BY IdleIsJob
  <2> QED  BY <2>1, <2>2 DEF Alone, Volumes!Busy
<1>2. Orderly'
  <2> SUFFICES ASSUME spoiled' = {}, NEW h \in Helpers
               PROVE  InOrder(job[h])'
    BY DEF Orderly
  <2>1. job'[h] = Volumes!Idle
    OBVIOUS
  <2> QED  BY <2>1, IdleIsJob DEF InOrder, Creates, Unmounts
<1> QED  BY <1>1, <1>2 DEF VolumesInv

\* Nothing crossed: no helper is at work.
LEMMA CrossedIsKnown ==
    ASSUME Volumes!Crossed \subseteq spoiled', "crossed" \notin spoiled', NEW h \in Helpers
    PROVE  job[h] = Volumes!Idle /\ Volumes!Busy = {}
BY DEF Volumes!Crossed, Volumes!Busy

LEMMA CountCounts ==
    ASSUME Volumes!TypeOK, Volumes!Count
    PROVE  begun' \in 0 .. MaxJobs
BY VolumesTypes, VolumesNumbers DEF Volumes!Count

LEMMA MountVolumeKeeps ==
    ASSUME VolumesInv, NEW l \in Labels, Volumes!MountVolume(l)
    PROVE  VolumesInv'
<1> DEFINE labelled == {u \in Volumes!Units : fs[u] # 0 /\ label[fs[u]] = l}
<1>1. /\ Volumes!Count /\ folders' = folders \cup {l}
      /\ UNCHANGED <<Volumes!diskVars, fstab, scratch, job, lost, boots>>
  BY DEF Volumes!MountVolume
<1>2. PICK u \in IF Volumes!Named(l) # {} THEN Volumes!Named(l) ELSE labelled :
              /\ mounted' = [mounted EXCEPT ![l] = Append(@, u)]
              /\ spoiled' = spoiled \cup Volumes!Crossed \cup (IF mounted[l] # <<>> THEN {"hidden"}
                    ELSE {})
                                \cup (IF Volumes!Named(l) = {} THEN {"unlisted"} ELSE {})
  BY DEF Volumes!MountVolume
<1>3. u \in Volumes!Units
  BY DEF Volumes!Named
<1>4. mounted' \in [Labels -> Seq(Volumes!Units)]
  BY <1>2, <1>3, MountedThere DEF VolumesInv
<1>5. /\ spoiled' \subseteq {"crossed", "crashed", "busy", "hidden", "swept", "unlisted"}
      /\ spoiled \subseteq spoiled' /\ Volumes!Crossed \subseteq spoiled'
  BY <1>2, VolumesTypes DEF VolumesInv, Volumes!Crossed
<1>6. Volumes!TypeOK'
  BY <1>1, <1>4, <1>5, CountCounts, VolumesTypes
     DEF VolumesInv, Volumes!TypeOK, Volumes!diskVars
<1>7. ASSUME spoiled' = {}
      PROVE  OneLine' /\ HasLine' /\ OneDeep' /\ \A k \in fstab' : k.label \in folders'
  <2>1. spoiled = {} /\ u \in Volumes!Named(l) /\ mounted[l] = <<>>
    BY <1>2, <1>7
  <2>2. OneLine /\ HasLine /\ OneDeep /\ \A k \in fstab : k.label \in folders
    BY <2>1 DEF VolumesInv, Orderly
  <2>3. folders \subseteq folders'
    BY <1>1
  <2> QED  BY <1>1, <1>2, <2>1, <2>2, <2>3, MountedByLine
              DEF VolumesInv, Volumes!diskVars
<1>8. (\A h \in Helpers : Fits(job'[h])) /\ fs' = fs /\ lost' = lost
  BY <1>1 DEF VolumesInv, Volumes!diskVars
<1>9. "crossed" \notin spoiled' => \A h \in Helpers : job'[h] = Volumes!Idle
  BY <1>1, <1>5, CrossedIsKnown
<1> QED  BY <1>5, <1>6, <1>7, <1>8, <1>9, BetweenKeeps

LEMMA UnmountVolumeKeeps ==
    ASSUME VolumesInv, NEW l \in Labels, Volumes!UnmountVolume(l)
    PROVE  VolumesInv'
<1>1. /\ Volumes!Count /\ mounted[l] # <<>> /\ mounted' = [mounted EXCEPT ![l] = Volumes!Pop(l)]
      /\ spoiled' = spoiled \cup Volumes!Crossed
      /\ UNCHANGED <<Volumes!diskVars, folders, fstab, scratch, job, lost, boots>>
  BY DEF Volumes!UnmountVolume
<1>2. /\ mounted' \in [Labels -> Seq(Volumes!Units)]
      /\ \A m \in Labels \ {l} : mounted'[m] = mounted[m] /\ Volumes!TopOf(m)' = Volumes!TopOf(m)
      /\ Len(mounted[l]) = 1 => mounted'[l] = <<>>
  BY <1>1, UnmountedThere DEF VolumesInv
<1>3. /\ spoiled' \subseteq {"crossed", "crashed", "busy", "hidden", "swept", "unlisted"}
      /\ spoiled \subseteq spoiled' /\ Volumes!Crossed \subseteq spoiled'
  BY <1>1, VolumesTypes DEF VolumesInv, Volumes!Crossed
<1>4. Volumes!TypeOK'
  BY <1>1, <1>2, <1>3, CountCounts, VolumesTypes
     DEF VolumesInv, Volumes!TypeOK, Volumes!diskVars
<1>5. ASSUME spoiled' = {}
      PROVE  OneLine' /\ HasLine' /\ OneDeep' /\ \A k \in fstab' : k.label \in folders'
  <2>1. OneLine /\ HasLine /\ OneDeep /\ \A k \in fstab : k.label \in folders
    BY <1>3, <1>5 DEF VolumesInv, Orderly
  <2>2. mounted'[l] = <<>>
    BY <1>1, <1>2, <2>1 DEF OneDeep
  <2>3. HasLine' /\ OneDeep'
    BY <1>1, <1>2, <2>1, <2>2 DEF HasLine, OneDeep, Volumes!diskVars
  <2> QED  BY <1>1, <2>1, <2>3 DEF OneLine
<1>6. (\A h \in Helpers : Fits(job'[h])) /\ fs' = fs /\ lost' = lost
  BY <1>1 DEF VolumesInv, Volumes!diskVars
<1>7. "crossed" \notin spoiled' => \A h \in Helpers : job'[h] = Volumes!Idle
  BY <1>1, <1>3, CrossedIsKnown
<1> QED  BY <1>3, <1>4, <1>5, <1>6, <1>7, BetweenKeeps

LEMMA RaidChanges ==
    ASSUME VolumesInv, NEW d \in Drives, Volumes!RaidAdd(d) \/ Volumes!RaidRemove(d)
    PROVE  VolumesInv'
<1>1. /\ Volumes!Count /\ members' \subseteq Drives /\ spoiled' = spoiled \cup Volumes!Crossed
      /\ UNCHANGED <<fs, label, listed, claimed, mounted, folders, fstab, scratch, job, lost,
            boots>>
  BY VolumesTypes DEF VolumesInv, Volumes!RaidAdd, Volumes!RaidRemove
<1>2. /\ spoiled' \subseteq {"crossed", "crashed", "busy", "hidden", "swept", "unlisted"}
      /\ spoiled \subseteq spoiled' /\ Volumes!Crossed \subseteq spoiled'
  BY <1>1, VolumesTypes DEF VolumesInv, Volumes!Crossed
<1>3. Volumes!TypeOK'
  BY <1>1, <1>2, CountCounts, VolumesTypes DEF VolumesInv, Volumes!TypeOK
<1>4. spoiled' = {} => OneLine' /\ HasLine' /\ OneDeep' /\ \A k \in fstab' : k.label \in folders'
  BY <1>1, <1>2 DEF VolumesInv, Orderly, OneLine, HasLine, OneDeep, Volumes!TopOf
<1>5. \A h \in Helpers : Fits(job'[h])
  BY <1>1 DEF VolumesInv
<1>6. "crossed" \notin spoiled' => \A h \in Helpers : job'[h] = Volumes!Idle
  BY <1>1, <1>2, CrossedIsKnown
<1> QED  BY <1>1, <1>2, <1>3, <1>4, <1>5, <1>6, BetweenKeeps

\* The machine mounts what the lines say.
LEMMA RebootKeeps ==
    ASSUME VolumesInv, Volumes!Reboot
    PROVE  VolumesInv'
<1>1. /\ boots < MaxBoots /\ boots' = boots + 1 /\ job' = [h \in Helpers |-> Volumes!Idle]
      /\ spoiled' = IF Volumes!Busy = {} THEN spoiled ELSE spoiled \cup {"crashed"}
      /\ fstab' \in IF \E h \in Helpers : job[h].at = "copy" THEN {fstab, {}} ELSE {fstab}
      /\ UNCHANGED <<Volumes!diskVars, folders, scratch, lost, begun>>
  BY DEF Volumes!Reboot
<1>2. PICK first \in [Labels -> Volumes!Units \cup {NoDevice}] :
          /\ \A l \in Labels : first[l] # NoDevice =>
                \E k \in fstab' : k.label = l /\ k.uuid = fs[first[l]]
          /\ mounted' = [l \in Labels |-> IF first[l] = NoDevice THEN <<>> ELSE <<first[l]>>]
  <2>1. PICK first \in [Labels -> Volumes!Units \cup {NoDevice}] :
          /\ \A l \in Labels :
                LET here == {u \in Volumes!Units : fs[u] # 0 /\ (u = Array => listed)
                                 /\ \E k \in fstab' : k.label = l /\ k.uuid = fs[u]}
                IN  IF here = {} THEN first[l] = NoDevice ELSE first[l] \in here
          /\ mounted' = [l \in Labels |-> IF first[l] = NoDevice THEN <<>> ELSE <<first[l]>>]
    BY DEF Volumes!Reboot
  <2>2. ASSUME NEW l \in Labels, first[l] # NoDevice
        PROVE  \E k \in fstab' : k.label = l /\ k.uuid = fs[first[l]]
    BY <2>1, <2>2
  <2> QED  BY <2>1, <2>2
<1>3. \A l \in Labels : first[l] = NoDevice \/ first[l] \in Volumes!Units
  BY <1>2
<1>4. \A u \in Volumes!Units : <<u>> \in Seq(Volumes!Units) /\ <<u>> # <<>> /\ Len(<<u>>) = 1
         /\ <<u>>[1] = u
  OBVIOUS
<1>5. \A l \in Labels : /\ first[l] = NoDevice => mounted'[l] = <<>>
                        /\ first[l] # NoDevice => mounted'[l] = <<first[l]>>
  BY <1>2
<1>6. mounted' \in [Labels -> Seq(Volumes!Units)]
  <2>1. \A l \in Labels : (IF first[l] = NoDevice THEN <<>>
           ELSE <<first[l]>>) \in Seq(Volumes!Units)
    BY <1>3, <1>4
  <2> QED  BY <1>2, <2>1
<1>7. \A l \in Labels : mounted'[l] # <<>> =>
         Len(mounted'[l]) = 1 /\ Volumes!TopOf(l)' = first[l] /\ \E k \in fstab' : k.label = l
            /\ k.uuid = fs[first[l]]
  BY <1>2, <1>3, <1>4, <1>5 DEF Volumes!TopOf
<1>8. fstab' \subseteq fstab /\ (Volumes!Busy = {} => fstab' = fstab)
  <2>1. \A h \in Helpers : job[h].at = "copy" => h \in Volumes!Busy
    BY IdleIsJob DEF Volumes!Busy
  <2> QED  BY <1>1, <2>1
<1>9. job' \in [Helpers -> Volumes!Job] /\ \A h \in Helpers : job'[h] = Volumes!Idle
         /\ Fits(job'[h])
  BY <1>1, IdleIsJob
<1>10. /\ spoiled' \subseteq {"crossed", "crashed", "busy", "hidden", "swept", "unlisted"}
       /\ spoiled \subseteq spoiled' /\ (spoiled' = {} => Volumes!Busy = {})
  BY <1>1, VolumesTypes DEF VolumesInv
<1>11. boots' \in 0 .. MaxBoots
  BY <1>1, VolumesTypes, VolumesNumbers DEF VolumesInv
<1>12. Volumes!TypeOK'
  BY <1>1, <1>6, <1>8, <1>9, <1>10, <1>11, VolumesTypes
     DEF VolumesInv, Volumes!TypeOK, Volumes!diskVars
<1>13. fs' = fs /\ lost' = lost /\ folders' = folders
  BY <1>1 DEF Volumes!diskVars
<1>14. ASSUME spoiled' = {}
       PROVE  OneLine' /\ HasLine' /\ OneDeep' /\ \A k \in fstab' : k.label \in folders'
  <2>1. OneLine /\ (\A k \in fstab : k.label \in folders) /\ fstab' = fstab
    BY <1>8, <1>10, <1>14 DEF VolumesInv, Orderly
  <2>2. HasLine'
    BY <1>7, <1>13 DEF HasLine
  <2>3. OneDeep'
    BY <1>7, <1>13, <2>1 DEF OneDeep
  <2> QED  BY <1>13, <2>1, <2>2, <2>3 DEF OneLine
<1> QED  BY <1>9, <1>10, <1>12, <1>13, <1>14, BetweenKeeps

\* A helper starts, at what it may.
LEMMA HelperStarts ==
    ASSUME VolumesInv, NEW h \in Helpers, NEW op \in Ops, NEW l \in Labels \cup {NoDevice},
           NEW ds \in SUBSET Drives,
           NEW u \in Volumes!Units \cup {NoDevice}, NEW at \in {"wipe", "read", "umount"},
              Volumes!Start(h, op, l, ds, u, at),
           at = "wipe" => /\ op \in {"init", "space", "raid"} /\ l \in Labels /\ u \in Volumes!Units
                          /\ \A d \in ds : fs[d] = 0
                          /\ op = "space" => l \notin folders,
           at = "read" => op = "quota" /\ l \in Labels,
           at = "umount" => op \in {"erase", "destroy"}
    PROVE  VolumesInv'
<1> DEFINE j == [op |-> op, label |-> l, disks |-> ds, unit |-> u, at |-> at]
           hid == IF op \in {"init", "raid"} /\ mounted[l] # <<>> THEN {"hidden"} ELSE {}
<1>1. /\ job[h] = Volumes!Idle /\ Volumes!Count /\ job' = [job EXCEPT ![h] = j]
      /\ spoiled' = spoiled \cup Volumes!Crossed \cup hid
      /\ UNCHANGED <<Volumes!diskVars, mounted, folders, fstab, scratch, lost, boots>>
  BY DEF Volumes!Start
<1>2. j \in Volumes!Job /\ j.op = op /\ j.label = l /\ j.disks = ds /\ j.unit = u /\ j.at = at
  BY DEF Volumes!Job, Ops
<1> HIDE DEF j
<1>3. job' \in [Helpers -> Volumes!Job] /\ job'[h] = j /\ \A g \in Helpers \ {h} : job'[g] = job[g]
  BY <1>1, <1>2, VolumesTypes DEF VolumesInv
<1>4. /\ spoiled' \subseteq {"crossed", "crashed", "busy", "hidden", "swept", "unlisted"}
      /\ spoiled \subseteq spoiled' /\ Volumes!Crossed \subseteq spoiled'
  BY <1>1, VolumesTypes DEF VolumesInv, Volumes!Crossed
<1>5. Volumes!TypeOK'
  BY <1>1, <1>3, <1>4, CountCounts, VolumesTypes
     DEF VolumesInv, Volumes!TypeOK, Volumes!diskVars
<1>6. Fits(j)
  BY <1>2 DEF Fits, Creates
<1>7. \A g \in Helpers : Fits(job'[g])
  BY <1>3, <1>6 DEF VolumesInv
<1>8. fs' = fs /\ lost' = lost /\ mounted' = mounted /\ folders' = folders /\ fstab' = fstab
  BY <1>1 DEF Volumes!diskVars
<1>9. ASSUME "crossed" \notin spoiled'
      PROVE  \A g \in Helpers \ {h} : job'[g] = Volumes!Idle
  BY <1>3, <1>4, <1>9, CrossedIsKnown
<1>10. WipesNothing'
  <2> SUFFICES ASSUME "crossed" \notin spoiled'
               PROVE  /\ lost' = {} /\ Alone'
                      /\ \A g \in Helpers : job'[g].at = "wipe"
                            => \A d \in job'[g].disks : fs'[d] = 0
    BY DEF WipesNothing
  <2>1. lost' = {}
    BY <1>4, <1>8 DEF VolumesInv, WipesNothing
  <2>2. Alone'
    BY <1>9 DEF Alone, Volumes!Busy
  <2>3. \A g \in Helpers : job'[g].at = "wipe" => \A d \in job'[g].disks : fs'[d] = 0
    BY <1>2, <1>3, <1>8, <1>9, IdleIsJob
  <2> QED  BY <2>1, <2>2, <2>3
<1>11. Orderly'
  <2> SUFFICES ASSUME spoiled' = {}
               PROVE  /\ OneLine' /\ HasLine' /\ OneDeep' /\ \A k \in fstab' : k.label \in folders'
                      /\ \A g \in Helpers : InOrder(job[g])'
    BY DEF Orderly
  <2>1. OneLine /\ HasLine /\ OneDeep /\ \A k \in fstab : k.label \in folders
    BY <1>4 DEF VolumesInv, Orderly
  <2>2. OneLine' /\ HasLine' /\ OneDeep' /\ \A k \in fstab' : k.label \in folders'
    BY <1>8, <2>1 DEF OneLine, HasLine, OneDeep, Volumes!TopOf
  <2>3. \A g \in Helpers \ {h} : InOrder(job[g])'
    BY <1>9, IdleIsJob DEF InOrder, Creates, Unmounts
  <2>4. at = "wipe" => mounted[l] = <<>>
    <3>1. CASE op = "space"
      BY <2>1, <3>1 DEF OneDeep
    <3>2. CASE op \in {"init", "raid"}
      BY <1>1, <3>2
    <3> QED  BY <3>1, <3>2
  <2>5. Unmounts(j) => at = "wipe"
    BY <1>2 DEF Unmounts, Creates
  <2>6. InOrder(job[h])'
    BY <1>2, <1>3, <1>8, <2>4, <2>5 DEF InOrder, Creates, Unmounts
  <2> QED  BY <2>2, <2>3, <2>6
<1> QED  BY <1>5, <1>7, <1>10, <1>11 DEF VolumesInv

LEMMA RequestsKeep ==
    ASSUME VolumesInv, NEW h \in Helpers, NEW l \in Labels,
           \/ Volumes!ExpandDisk(h, l) \/ Volumes!EraseVolume(h, l) \/ Volumes!EnableQuotas(h, l)
           \/ \E d \in Drives : Volumes!InitDisk(h, d, l)
           \/ \E ds \in SUBSET Drives : Volumes!CreateRaid(h, ds, l)
    PROVE  VolumesInv'
<1> DEFINE Ats == {"wipe", "read", "umount"}
<1>1. Volumes!TopOf(l) \in Volumes!Units \cup {NoDevice} /\ Drives \subseteq Volumes!Units
         /\ Array \in Volumes!Units /\ Space \in Volumes!Units
  BY TopIsDevice DEF VolumesInv, Volumes!Units
<1>2. {"init", "space", "raid", "quota", "erase"} \subseteq Ops /\ "wipe" \in Ats /\ "read" \in Ats
         /\ "umount" \in Ats
  BY DEF Ops
<1>3. CASE Volumes!ExpandDisk(h, l)
  <2>1. l \notin folders /\ Volumes!Start(h, "space", l, {}, Space, "wipe")
    BY <1>3 DEF Volumes!ExpandDisk
  <2> QED  BY <1>1, <1>2, <2>1, HelperStarts
<1>4. CASE Volumes!EraseVolume(h, l)
  <2>1. Volumes!Start(h, "erase", l, {}, Volumes!TopOf(l), "umount")
    BY <1>4 DEF Volumes!EraseVolume
  <2> QED  BY <1>1, <1>2, <2>1, HelperStarts
<1>5. CASE Volumes!EnableQuotas(h, l)
  <2>1. Volumes!Start(h, "quota", l, {}, Volumes!TopOf(l), "read")
    BY <1>5 DEF Volumes!EnableQuotas
  <2> QED  BY <1>1, <1>2, <2>1, HelperStarts
<1>6. ASSUME NEW d \in Drives, Volumes!InitDisk(h, d, l)
      PROVE  VolumesInv'
  <2>1. fs[d] = 0 /\ Volumes!Start(h, "init", l, {d}, d, "wipe")
    BY <1>6 DEF Volumes!InitDisk, Volumes!Unconfigured
  <2>2. {d} \in SUBSET Drives /\ d \in Volumes!Units /\ \A e \in {d} : fs[e] = 0
    BY <1>1, <2>1
  <2> QED  BY <1>1, <1>2, <2>1, <2>2, HelperStarts
<1>7. ASSUME NEW ds \in SUBSET Drives, Volumes!CreateRaid(h, ds, l)
      PROVE  VolumesInv'
  <2>1. (\A d \in ds : fs[d] = 0) /\ Volumes!Start(h, "raid", l, ds, Array, "wipe")
    BY <1>7 DEF Volumes!CreateRaid, Volumes!Unconfigured
  <2> QED  BY <1>1, <1>2, <2>1, HelperStarts
<1> QED  BY <1>3, <1>4, <1>5, <1>6, <1>7

LEMMA DestroyRaidKeeps ==
    ASSUME VolumesInv, NEW h \in Helpers, Volumes!DestroyRaid(h)
    PROVE  VolumesInv'
<1> DEFINE on == {l \in Labels : Volumes!TopOf(l) = Array}
           first == IF on = {} THEN NoDevice ELSE CHOOSE l \in on : TRUE
<1>1. Volumes!Start(h, "destroy", first, members, Array, "umount")
  BY DEF Volumes!DestroyRaid
<1>2. first \in Labels \cup {NoDevice}
  <2>1. on # {} => (CHOOSE l \in on : TRUE) \in on
    OBVIOUS
  <2> QED  BY <2>1
<1> HIDE DEF first
<1>3. members \in SUBSET Drives /\ Array \in Volumes!Units \cup {NoDevice} /\ "destroy" \in Ops
  BY VolumesTypes DEF VolumesInv, Volumes!Units, Ops
<1>4. "umount" \in {"wipe", "read", "umount"}
  OBVIOUS
<1> QED  BY <1>1, <1>2, <1>3, <1>4, HelperStarts

LEMMA VolumesStart ==
    ASSUME Volumes!Init
    PROVE  VolumesInv
<1>1. /\ fs = [u \in Volumes!Units |-> 0] /\ label = [n \in Volumes!Uuids |-> NoDevice]
      /\ members = {} /\ listed = FALSE /\ claimed = FALSE
      /\ mounted = [l \in Labels |-> <<>>] /\ folders = {} /\ fstab = {} /\ scratch = NoDevice
      /\ job = [h \in Helpers |-> Volumes!Idle]
      /\ spoiled = {} /\ lost = {} /\ begun = 0 /\ boots = 0
  BY DEF Volumes!Init
<1>2. begun \in 0 .. MaxJobs /\ boots \in 0 .. MaxBoots
  BY <1>1, VolumesNumbers
<1>3. mounted \in [Labels -> Seq(Volumes!Units)] /\ \A l \in Labels : mounted[l] = <<>>
  BY <1>1
<1>4. job \in [Helpers -> Volumes!Job] /\ \A h \in Helpers : job[h] = Volumes!Idle
  BY <1>1, IdleIsJob
<1>5. Volumes!TypeOK
  BY <1>1, <1>2, <1>3, <1>4 DEF Volumes!TypeOK
<1>6. WipesNothing
  BY <1>1, <1>4, IdleIsJob DEF WipesNothing, Alone, Volumes!Busy
<1>7. Orderly
  BY <1>1, <1>3, <1>4, IdleIsJob DEF Orderly, OneLine, HasLine, OneDeep
<1> QED  BY <1>4, <1>5, <1>6, <1>7, IdleIsJob DEF VolumesInv

LEMMA VolumesStays ==
    ASSUME VolumesInv, UNCHANGED volumesVars
    PROVE  VolumesInv'
<1> USE DEF volumesVars, Volumes!diskVars
<1>1. Volumes!TypeOK'
  BY DEF VolumesInv, Volumes!TypeOK
<1>2. WipesNothing' /\ \A h \in Helpers : Fits(job'[h])
  BY DEF VolumesInv, WipesNothing, Alone, Volumes!Busy
<1>3. (OneLine /\ HasLine /\ OneDeep => OneLine' /\ HasLine' /\ OneDeep')
  BY DEF OneLine, HasLine, OneDeep, Volumes!TopOf
<1>4. \A h \in Helpers : InOrder(job[h]) => InOrder(job[h])'
  BY DEF InOrder, Volumes!OtherLines, Unmounts, Creates
<1>5. Orderly'
  BY <1>3, <1>4 DEF VolumesInv, Orderly
<1> QED  BY <1>1, <1>2, <1>5 DEF VolumesInv

LEMMA VolumesStep ==
    ASSUME VolumesInv, [Volumes!Next]_volumesVars
    PROVE  VolumesInv'
<1>1. ASSUME NEW h \in Helpers, NEW l \in Labels,
             \/ Volumes!ExpandDisk(h, l) \/ Volumes!EraseVolume(h, l) \/ Volumes!EnableQuotas(h, l)
             \/ \E d \in Drives : Volumes!InitDisk(h, d, l)
             \/ \E ds \in SUBSET Drives : Volumes!CreateRaid(h, ds, l)
      PROVE  VolumesInv'
  BY <1>1, RequestsKeep
<1>2. ASSUME NEW h \in Helpers,
             Volumes!DestroyRaid(h) \/ Volumes!Wipe(h) \/ Volumes!Mkfs(h) \/ Volumes!ReadFstab(h) \/ Volumes!CopyFstab(h) \/ Volumes!DropScratch(h)
               \/ Volumes!AppendLine(h) \/ Volumes!Mount(h) \/ Volumes!Umount(h) \/ Volumes!Clear(h)
                     \/ Volumes!Sweep(h)
      PROVE  VolumesInv'
  BY <1>2, DestroyRaidKeeps, WipeKeeps, MkfsKeeps, ReadFstabKeeps, CopyFstabKeeps,
     DropScratchKeeps, AppendLineKeeps, MountKeeps, UmountKeeps, ClearKeeps,
     SweepKeeps
<1>3. ASSUME NEW l \in Labels, Volumes!MountVolume(l) \/ Volumes!UnmountVolume(l)
      PROVE  VolumesInv'
  BY <1>3, MountVolumeKeeps, UnmountVolumeKeeps
<1> QED  BY <1>1, <1>2, <1>3, RaidChanges, RebootKeeps, VolumesStays DEF Volumes!Next

LEMMA VolumesInvIsRight ==
    ASSUME VolumesInv
    PROVE  Volumes!VolumesAreKept
<1>1. Volumes!ComesBack
  <2> SUFFICES ASSUME spoiled = {}, NEW l \in Labels, mounted[l] # <<>>
               PROVE  {k.uuid : k \in Volumes!LinesOf(l)} = {fs[Volumes!TopOf(l)]}
    BY DEF Volumes!ComesBack, Volumes!InPlace
  <2>1. OneLine /\ HasLine
    BY DEF VolumesInv, Orderly
  <2>2. PICK k \in fstab : k.label = l /\ k.uuid = fs[Volumes!TopOf(l)]
    BY <2>1 DEF HasLine
  <2>3. \A m \in Volumes!LinesOf(l) : m.uuid = fs[Volumes!TopOf(l)]
    BY <2>1, <2>2 DEF OneLine, Volumes!LinesOf
  <2> QED  BY <2>2, <2>3 DEF Volumes!LinesOf
<1>2. Volumes!TypeOK /\ Volumes!NothingWiped
  BY DEF VolumesInv, WipesNothing, Volumes!NothingWiped
<1> QED  BY <1>1, <1>2 DEF Volumes!VolumesAreKept

\* opennas-storage, admin/routes.ts:1503: of every number of disks, volumes and helpers,
\* a volume that is mounted is there after the next boot, and no filesystem is wiped but
\* to erase it, unless one of the things that are named went wrong before.
THEOREM VolumesStay == StorageSpec => []VolumesAreKept
<1>1. VolumesInv => VolumesAreKept
  BY VolumesInvIsRight DEF VolumesAreKept
<1>2. StorageInit => VolumesInv
  BY VolumesStart DEF StorageInit
<1>3. VolumesInv /\ [StorageNext]_storageVars => VolumesInv'
  BY VolumesStep, StorageSteps
<1> QED  BY <1>1, <1>2, <1>3, PTL DEF StorageSpec

=============================================================================
