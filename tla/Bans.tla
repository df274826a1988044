-------------------------------- MODULE Bans --------------------------------
(***************************************************************************)
(* Blocking an address that keeps failing to sign in, or asks for a decoy  *)
(* (system/auto-ban, system/honeypot, db/ip-bans), in a firewall that is   *)
(* itself being changed (admin/routes, system/firewall and its helper).    *)
(*                                                                         *)
(* Who is trusted is read when a ban is decided; the ban lands when the    *)
(* helper has run.  Loading a ruleset replaces the table, and the set of   *)
(* blocked addresses in it; the trusted networks are stored afterwards.    *)
(* How changes of the firewall overlap is Firewall's subject: there is one *)
(* at a time here.                                                         *)
(***************************************************************************)
EXTENDS Naturals

CONSTANTS
    Addresses,
    Lan,        \* those of private ranges, which no decoy traps
    Handlers,   \* bans and lifts under way at once
    Threshold

VARIABLES
    table,     \* the kernel has our table
    trusted,   \* the stored configuration's trusted networks
    change,    \* the change of the firewall under way
    blocked,   \* the kernel's set
    recorded,  \* ip_bans
    failures,  \* ip_attempts
    trap,      \* the decoys are on
    handlers,
    late       \* history: bans on a ruleset other than the one they were decided under

bansVars == <<table, trusted, change, blocked, recorded, failures, trap, handlers, late>>

Idle == [at |-> "idle"]
NoChange == [at |-> "none"]

TypeOK ==
    /\ table \in BOOLEAN /\ trap \in BOOLEAN
    /\ trusted \subseteq Addresses
    /\ change \in {NoChange} \cup
          [at : {"loading", "storing"}, on : BOOLEAN, trusted : SUBSET Addresses, back : BOOLEAN]
    /\ blocked \subseteq Addresses /\ recorded \subseteq Addresses /\ late \subseteq Addresses
    /\ failures \in [Addresses -> 0 .. Threshold]
    /\ handlers \in [Handlers -> {Idle} \cup
          [at : {"banning", "recording", "lifting", "forgetting"}, address : Addresses]]
    /\ ~table => blocked = {}

Goto(h, what) == handlers' = [handlers EXCEPT ![h] = what]
At(stages) == {a \in Addresses :
                  \E h \in Handlers : handlers[h].at \in stages /\ handlers[h].address = a}
\* A ban decided while a loaded ruleset waits to be stored is decided under the old.
Decided(a) == late' = IF change.at = "storing" THEN late \cup {a} ELSE late

-----------------------------------------------------------------------------
Bannable(a) == a \notin trusted

\* noteFailedAttempt: counted and, at the threshold, banned.
Fail(h, a) ==
    /\ handlers[h] = Idle /\ Bannable(a)
    /\ LET n == IF failures[a] < Threshold THEN failures[a] + 1 ELSE Threshold
       IN  /\ failures' = [failures EXCEPT ![a] = n]
           /\ IF n = Threshold
              THEN Goto(h, [at |-> "banning", address |-> a]) /\ Decided(a)
              ELSE UNCHANGED <<handlers, late>>
    /\ UNCHANGED <<table, trusted, change, blocked, recorded, trap>>

\* noteDecoyHit: once is enough.
Decoy(h, a) ==
    /\ handlers[h] = Idle /\ trap /\ Bannable(a) /\ a \notin Lan
    /\ Goto(h, [at |-> "banning", address |-> a]) /\ Decided(a)
    /\ UNCHANGED <<table, trusted, change, blocked, recorded, failures, trap>>

\* The helper: without a table nothing is blocked.
BanAddress(h) ==
    LET a == handlers[h].address
    IN  /\ handlers[h].at = "banning"
        /\ \/ table /\ blocked' = blocked \cup {a}
           \/ UNCHANGED blocked
        /\ Goto(h, [at |-> "recording", address |-> a])
        /\ UNCHANGED <<table, trusted, change, recorded, failures, trap, late>>

RecordBan(h) ==
    LET a == handlers[h].address
    IN  /\ handlers[h].at = "recording"
        /\ recorded' = recorded \cup {a}
        /\ failures' = [failures EXCEPT ![a] = 0]
        /\ Goto(h, Idle)
        /\ UNCHANGED <<table, trusted, change, blocked, trap, late>>

\* A sign-in from the address; or its failures are too long ago.
ClearIpFailures(a) ==
    /\ failures[a] > 0
    /\ failures' = [failures EXCEPT ![a] = 0]
    /\ UNCHANGED <<table, trusted, change, blocked, recorded, trap, handlers, late>>

\* liftBan: the kernel, then the row.
Lift(h, a) ==
    /\ handlers[h] = Idle
    /\ Goto(h, [at |-> "lifting", address |-> a])
    /\ UNCHANGED <<table, trusted, change, blocked, recorded, failures, trap, late>>

Unban(h) ==
    LET a == handlers[h].address
    IN  /\ handlers[h].at = "lifting"
        /\ blocked' = blocked \ {a}
        /\ Goto(h, [at |-> "forgetting", address |-> a])
        /\ UNCHANGED <<table, trusted, change, recorded, failures, trap, late>>

RemoveBan(h) ==
    LET a == handlers[h].address
    IN  /\ handlers[h].at = "forgetting"
        /\ recorded' = recorded \ {a}
        /\ Goto(h, Idle)
        /\ UNCHANGED <<table, trusted, change, blocked, failures, trap, late>>

\* The hour is over: in the kernel, and a little later in the record.
Expire(a) ==
    /\ a \in blocked
    /\ blocked' = blocked \ {a}
    /\ UNCHANGED <<table, trusted, change, recorded, failures, trap, handlers, late>>

Prune(a) ==
    /\ a \in recorded \ blocked
    /\ recorded' = recorded \ {a}
    /\ UNCHANGED <<table, trusted, change, blocked, failures, trap, handlers, late>>

SetHoneypot ==
    /\ trap' = ~trap
    /\ UNCHANGED <<table, trusted, change, blocked, recorded, failures, handlers, late>>

-----------------------------------------------------------------------------
\* PUT /firewall, or a rollback, which stores the old settings even if their
\* ruleset cannot be loaded.
BeginChange(on, who, back) ==
    /\ change = NoChange
    /\ change' = [at |-> "loading", on |-> on, trusted |-> who, back |-> back]
    /\ UNCHANGED <<table, trusted, blocked, recorded, failures, trap, handlers, late>>

\* The table is deleted and made anew, or only deleted.
AfterLoadKept == IF change.on THEN blocked ELSE {}   \* mutant: the set is kept
AfterLoad == {}

LoadRuleset ==
    /\ change.at = "loading"
    /\ table' = change.on
    /\ blocked' = AfterLoad
    /\ late' = At({"banning"})
    /\ change' = [change EXCEPT !.at = "storing"]
    /\ UNCHANGED <<trusted, recorded, failures, trap, handlers>>

\* It could not be loaded, which a rollback takes for done; or the probe of the
\* helper failed, which every change takes for done.
FailLoad ==
    /\ change.at = "loading"
    /\ \/ trusted' = change.trusted /\ late' = late \cup blocked \cup At({"banning"})
       \/ ~change.back /\ UNCHANGED <<trusted, late>>
    /\ change' = NoChange
    /\ UNCHANGED <<table, blocked, recorded, failures, trap, handlers>>

SetFirewallConfig ==
    /\ change.at = "storing"
    /\ trusted' = change.trusted
    /\ change' = NoChange
    /\ UNCHANGED <<table, blocked, recorded, failures, trap, handlers, late>>

\* The backend stops: a helper that was started runs to its end, or did not start.
Restart ==
    /\ handlers' = [h \in Handlers |-> Idle]
    /\ change' = NoChange
    /\ UNCHANGED <<table, trusted, blocked, recorded, failures, trap, late>>

-----------------------------------------------------------------------------
Init ==
    /\ table = FALSE /\ trusted = {} /\ change = NoChange
    /\ blocked = {} /\ recorded = {} /\ failures = [a \in Addresses |-> 0]
    /\ trap = TRUE
    /\ handlers = [h \in Handlers |-> Idle]
    /\ late = {}

Next ==
    \/ LoadRuleset \/ FailLoad \/ SetFirewallConfig \/ Restart \/ SetHoneypot
    \/ \E on, back \in BOOLEAN, who \in SUBSET Addresses : BeginChange(on, who, back)
    \/ \E a \in Addresses : ClearIpFailures(a) \/ Expire(a) \/ Prune(a)
    \/ \E h \in Handlers :
          \/ BanAddress(h) \/ RecordBan(h) \/ Unban(h) \/ RemoveBan(h)
          \/ \E a \in Addresses : Fail(h, a) \/ Decoy(h, a) \/ Lift(h, a)

Spec == Init /\ [][Next]_bansVars

-----------------------------------------------------------------------------
\* auto-ban.ts:20 has it that "every trusted network" is exempt "outright". An
\* address that becomes trusted while it is blocked is let in by the ruleset that
\* trusts it, if that is loaded; only a ban decided under the old settings can
\* still land, and one in place outlives a change that is stored but not loaded.
TrustedGetIn == blocked \cap trusted \subseteq late

=============================================================================
