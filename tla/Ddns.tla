-------------------------------- MODULE Ddns --------------------------------
(***************************************************************************)
(* Dynamic DNS (system/ddns and its routes): a check asks what the public  *)
(* address is and, unless the stored state says that the provider has it,  *)
(* tells the provider.                                                     *)
(*                                                                         *)
(* The timer runs one check at a time; "Update now" runs its own beside    *)
(* it.  A check reads the configuration and the state when it begins, and  *)
(* writes the state, whole, when it ends.                                  *)
(***************************************************************************)
EXTENDS Naturals

CONSTANTS
    Hosts, Addresses,
    Timer, Buttons,  \* who runs checks: the timer, and requests of "Update now"
    None,            \* no address
    MaxChanges       \* bound: changes of address or configuration, and restarts

VARIABLES
    public,     \* the address of the line
    config,     \* the settings
    state,      \* what is stored of the last check
    dns,        \* the address the provider has for each host
    checks,     \* the checks under way
    confused,   \* history: why the state may be wrong about the provider
    alone,      \* history: the check that has had no company since it began
    changes

ddnsVars == <<public, config, state, dns, checks, confused, alone, changes>>

Checkers == Buttons \cup {Timer}
Known == Addresses \cup {None}
Config == [enabled : BOOLEAN, host : Hosts]
State == [lastIp : Known, lastStatus : {"ok", "error", "never"}]
Idle == [at |-> "idle"]
Begun == [at : {"asking"}, cfg : Config, state : State]
Pushing == [at : {"pushing"}, cfg : Config, state : State, ip : Addresses]
Answered == [at : {"answered"}, cfg : Config, state : State, ip : Addresses,
             answer : {"ok", "refused", "lost"}]

TypeOK ==
    /\ public \in Addresses /\ config \in Config /\ state \in State
    /\ dns \in [Hosts -> Known]
    /\ checks \in [Checkers -> {Idle} \cup Begun \cup Pushing \cup Answered]
    /\ confused \subseteq {"renamed", "crossed", "stopped"} /\ alone \subseteq Checkers
    /\ changes \in 0 .. MaxChanges

Goto(c, what) == checks' = [checks EXCEPT ![c] = what]
Ended(c) == Goto(c, Idle)
Others(c) == {d \in Checkers \ {c} : checks[d] # Idle}
Count == changes < MaxChanges /\ changes' = changes + 1

-----------------------------------------------------------------------------
\* The line gets another address.
Move(a) ==
    /\ Count /\ a # public
    /\ public' = a
    /\ UNCHANGED <<config, state, dns, checks, confused, alone>>

\* PUT /ddns: the settings, and nothing else.
SetConfig(cfg) ==
    /\ Count /\ cfg # config
    /\ config' = cfg
    /\ confused' = IF cfg.host = config.host THEN confused ELSE confused \cup {"renamed"}
    /\ UNCHANGED <<public, state, dns, checks, alone>>

\* tick, unless one is running, or a press of "Update now".
Begin(c) ==
    /\ checks[c] = Idle /\ config.enabled
    /\ Goto(c, [at |-> "asking", cfg |-> config, state |-> state])
    /\ confused' = IF Others(c) = {} THEN confused ELSE confused \cup {"crossed"}
    /\ alone' = IF Others(c) = {} THEN {c} ELSE {}
    /\ UNCHANGED <<public, config, state, dns, changes>>

\* No echo answered: that is not a change of address.
Unknown(c) ==
    /\ checks[c].at = "asking"
    /\ state' = [checks[c].state EXCEPT !.lastStatus = "error"]
    /\ Ended(c)
    /\ UNCHANGED <<public, config, dns, confused, alone, changes>>

Unchanged(k, ip) == ip = k.state.lastIp /\ k.state.lastStatus = "ok"

\* Nothing to do, for the timer.
Skip(c) ==
    LET k == checks[c]
    IN  /\ k.at = "asking" /\ c = Timer /\ Unchanged(k, public)
        /\ state' = k.state
        /\ Ended(c)
        /\ UNCHANGED <<public, config, dns, confused, alone, changes>>

Ask(c) ==
    LET k == checks[c]
    IN  /\ k.at = "asking" /\ (c = Timer => ~Unchanged(k, public))
        /\ Goto(c, [at |-> "pushing", cfg |-> k.cfg, state |-> k.state, ip |-> public])
        /\ UNCHANGED <<public, config, state, dns, confused, alone, changes>>

\* pushUpdate, as the provider sees it: taken, taken with the answer lost, or not.
Push(c, answer) ==
    LET k == checks[c]
    IN  /\ k.at = "pushing"
        /\ \/ answer # "refused" /\ dns' = [dns EXCEPT ![k.cfg.host] = k.ip]
           \/ answer # "ok" /\ UNCHANGED dns
        /\ Goto(c, [at |-> "answered", cfg |-> k.cfg, state |-> k.state,
                    ip |-> k.ip, answer |-> answer])
        /\ UNCHANGED <<public, config, state, confused, alone, changes>>

\* What is stored of an answer.
OutcomeUnread(k) ==              \* mutant: a request that did not throw is a success
    IF k.answer = "lost" THEN [k.state EXCEPT !.lastStatus = "error"]
    ELSE [lastIp |-> k.ip, lastStatus |-> "ok"]
Outcome(k) ==
    IF k.answer = "ok" THEN [lastIp |-> k.ip, lastStatus |-> "ok"]
    ELSE [k.state EXCEPT !.lastStatus = "error"]

\* A success, of one check alone, for the host that is configured, settles all.
Record(c) ==
    LET k == checks[c]
    IN  /\ k.at = "answered"
        /\ state' = Outcome(k)
        /\ confused' = IF k.answer = "ok" /\ k.cfg.host = config.host /\ c \in alone
                       THEN {} ELSE confused
        /\ Ended(c)
        /\ UNCHANGED <<public, config, dns, alone, changes>>

\* The backend restarts.
Restart ==
    /\ Count
    /\ checks' = [c \in Checkers |-> Idle]
    /\ confused' = IF \E c \in Checkers : checks[c].at = "answered"
                   THEN confused \cup {"stopped"} ELSE confused
    /\ UNCHANGED <<public, config, state, dns, alone>>

-----------------------------------------------------------------------------
Init ==
    /\ public \in Addresses
    /\ config \in [enabled : {FALSE}, host : Hosts]
    /\ state = [lastIp |-> None, lastStatus |-> "never"]
    /\ dns = [h \in Hosts |-> None]
    /\ checks = [c \in Checkers |-> Idle]
    /\ confused = {} /\ alone = {} /\ changes = 0

Next ==
    \/ Restart
    \/ \E a \in Addresses : Move(a)
    \/ \E cfg \in Config : SetConfig(cfg)
    \/ \E c \in Checkers :
          \/ Begin(c) \/ Unknown(c) \/ Skip(c) \/ Ask(c) \/ Record(c)
          \/ \E answer \in {"ok", "refused", "lost"} : Push(c, answer)

\* The timer comes round again, awaits end, and some time the provider, and the
\* echoes, answer as they should.
Fairness ==
    /\ WF_ddnsVars(Begin(Timer))
    /\ \A c \in Checkers :
          /\ WF_ddnsVars(Record(c))
          /\ SF_ddnsVars(Skip(c)) /\ SF_ddnsVars(Ask(c)) /\ SF_ddnsVars(Push(c, "ok"))

FairSpec == Init /\ [][Next]_ddnsVars /\ Fairness

-----------------------------------------------------------------------------
\* The timer sends nothing while the state says that the provider has the line's
\* address, so the state had better be right: between pushes it is, unless the
\* host was renamed, checks crossed, or the backend stopped with an answer unread.
StoredIsServed ==
    (state.lastStatus = "ok" /\ confused = {} /\ \A c \in Checkers : checks[c].at # "answered")
        => dns[config.host] = state.lastIp

\* ddns.ts:6 says what this is for: "keeping a hostname pointed at a home
\* connection's changing IP". A host that was put in the settings after the last
\* address was sent is not pointed anywhere, as long as that address stays.
KeepsPointing == <>[]config.enabled => <>[](dns[config.host] = public)

=============================================================================
