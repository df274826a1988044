---------------------------- MODULE Certificates ----------------------------
(***************************************************************************)
(* The certificate of the web interface: two files, the certificate and    *)
(* its key, that an administrator's upload, a new self-signed pair and the *)
(* automatic issuance (system/acme-manager) all write, one after the       *)
(* other, before nginx is told.                                            *)
(*                                                                         *)
(* The daily check compares the names that are wanted with those it        *)
(* recorded of its last issuance, never with the certificate; of that it   *)
(* looks at the expiry.  A flag in memory keeps two issuances apart, and   *)
(* nothing keeps them from the other two ways.                             *)
(***************************************************************************)
EXTENDS Naturals

CONSTANTS
    NameSets,            \* lists of names a certificate may be wanted for
    Daily, Asked,        \* who issues: the daily check, "Request now"
    Admin,               \* who uploads or makes a self-signed pair
    MaxPairs, MaxFaults  \* bounds: pairs ever made; writes that fail and restarts

VARIABLES
    settings,  \* enabled, and the names wanted
    recorded,  \* acme_state's certDomains, and its status
    running,   \* an issuance is under way, in memory
    cert, key, \* the files: of which pair, and for which names
    due,       \* the certificate expires within a month
    jobs,      \* the handlers under way
    pairs,     \* pairs made so far
    source,    \* history: how the pair came; its writer, while there is half of one
    faults

certVars == <<settings, recorded, running, cert, key, due, jobs, pairs, source, faults>>

Issuers == {Daily, Asked}
Writers == Issuers \cup {Admin}
SelfSigned == {}                          \* the names of nobody's domain
Cert == [pair : Nat, names : NameSets \cup {SelfSigned}]
Idle == [at |-> "idle"]

TypeOK ==
    /\ settings \in [enabled : BOOLEAN, names : NameSets]
    /\ recorded \in [names : NameSets \cup {{}}, status : {"never", "running", "ok", "error"}]
    /\ running \in BOOLEAN /\ due \in BOOLEAN
    /\ cert \in Cert /\ key \in 0 .. pairs /\ cert.pair <= pairs
    /\ DOMAIN jobs = Writers /\ \A w \in Writers : jobs[w] = Idle \/ jobs[w].new \in Cert
    /\ pairs \in 0 .. MaxPairs /\ faults \in 0 .. MaxFaults
    /\ source \in {"issued", "recorded", "admin", "torn"} \cup Writers

Goto(w, what) == jobs' = [jobs EXCEPT ![w] = what]
Step(w, at) == Goto(w, [jobs[w] EXCEPT !.at = at])
Done(w) == Goto(w, Idle)
Fault == faults < MaxFaults /\ faults' = faults + 1

-----------------------------------------------------------------------------
(* Issuing *)

\* PUT /tls/acme.
PutAcme(enabled, names) ==
    /\ settings' = [enabled |-> enabled, names |-> names]
    /\ settings' # settings
    /\ UNCHANGED <<recorded, running, cert, key, due, jobs, pairs, source, faults>>

\* renewIfNeeded until it has read the certificate.
BeginCheck ==
    /\ jobs[Daily] = Idle /\ settings.enabled
    /\ Goto(Daily, [at |-> "checking", new |-> [pair |-> 0, names |-> settings.names]])
    /\ UNCHANGED <<settings, recorded, running, cert, key, due, pairs, source, faults>>

RunningForgotten == TRUE      \* mutant: two may run
NoneRunning == ~running

\* runIssuance, until the CA answers. The names are those that were read.
StartIssuance(w, names) ==
    /\ NoneRunning /\ running' = TRUE
    /\ recorded' = [recorded EXCEPT !.status = "running"]
    /\ Goto(w, [at |-> "issuing", new |-> [pair |-> 0, names |-> names],
                previous |-> recorded.names])
    /\ UNCHANGED <<settings, cert, key, due, pairs, source, faults>>

Wanted(names) == due \/ recorded.names # names

Renew ==
    /\ jobs[Daily].at = "checking" /\ Wanted(jobs[Daily].new.names)
    /\ StartIssuance(Daily, jobs[Daily].new.names)

\* Nothing to do, or an issuance under way.
Leave ==
    /\ jobs[Daily].at = "checking"
    /\ ~NoneRunning \/ ~Wanted(jobs[Daily].new.names)
    /\ Done(Daily)
    /\ UNCHANGED <<settings, recorded, running, cert, key, due, pairs, source, faults>>

\* POST /tls/acme/request.
Request ==
    /\ jobs[Asked] = Idle /\ settings.enabled
    /\ StartIssuance(Asked, settings.names)

Issued(w) ==
    /\ jobs[w].at = "issuing" /\ pairs < MaxPairs
    /\ pairs' = pairs + 1
    /\ Goto(w, [at |-> "first", new |-> [pair |-> pairs + 1, names |-> jobs[w].new.names],
                previous |-> jobs[w].previous])
    /\ UNCHANGED <<settings, recorded, running, cert, key, due, source, faults>>

Failed(w) ==
    /\ running' = FALSE
    /\ recorded' = [names |-> jobs[w].previous, status |-> "error"]
    /\ Done(w)

Refused(w) ==
    /\ jobs[w].at = "issuing"
    /\ Failed(w)
    /\ UNCHANGED <<settings, cert, key, due, pairs, source, faults>>

\* The certificate is installed, with the names it was asked for.
RecordIssued(w) == recorded' = [names |-> jobs[w].new.names, status |-> "ok"]

-----------------------------------------------------------------------------
(* Installing *)

\* POST /tls checks that key and certificate agree; the script makes a pair.
Replace(how, names) ==
    /\ jobs[Admin] = Idle /\ pairs < MaxPairs
    /\ how = "self" => names = SelfSigned
    /\ pairs' = pairs + 1
    /\ Goto(Admin, [at |-> "first", new |-> [pair |-> pairs + 1, names |-> names],
                    how |-> how])
    /\ UNCHANGED <<settings, recorded, running, cert, key, due, source, faults>>

\* openssl writes the key first, the backend the certificate.
KeyFirst(w) == w = Admin /\ jobs[w].how = "self"

WriteCert(w) ==
    /\ jobs[w].at \in {"first", "second"} /\ KeyFirst(w) = (jobs[w].at = "second")
    /\ cert' = jobs[w].new /\ due' = FALSE
    /\ Step(w, IF KeyFirst(w) THEN "reload" ELSE "second")
    /\ UNCHANGED <<settings, recorded, running, key, pairs, faults>>

WriteKey(w) ==
    /\ jobs[w].at \in {"first", "second"} /\ KeyFirst(w) = (jobs[w].at = "first")
    /\ key' = jobs[w].new.pair
    /\ Step(w, IF KeyFirst(w) THEN "second" ELSE "reload")
    /\ UNCHANGED <<settings, recorded, running, cert, due, pairs, faults>>

\* A pair is whole if nobody else wrote between its two files.
WriteFile(w) ==
    /\ WriteCert(w) \/ WriteKey(w)
    /\ source' = IF jobs[w].at = "first" THEN w
                 ELSE IF source # w THEN "torn"
                 ELSE IF w = Admin THEN "admin" ELSE "issued"

\* reloadWebProxy, and what follows it.
Finish(w) ==
    /\ jobs[w].at = "reload"
    /\ IF w = Admin THEN UNCHANGED <<recorded, running>>
       ELSE running' = FALSE /\ RecordIssued(w)
    /\ source' = IF source = "issued" /\ w # Admin THEN "recorded" ELSE source
    /\ Done(w)
    /\ UNCHANGED <<settings, cert, key, due, pairs, faults>>

\* A write fails; the files stay as they are.
WriteFails(w) ==
    /\ jobs[w].at \in {"first", "second"} /\ Fault
    /\ IF w = Admin THEN Done(w) /\ UNCHANGED <<recorded, running>> ELSE Failed(w)
    /\ UNCHANGED <<settings, cert, key, due, pairs, source>>

\* Two months pass.
Expire ==
    /\ ~due /\ due' = TRUE
    /\ UNCHANGED <<settings, recorded, running, cert, key, jobs, pairs, source, faults>>

\* The backend stops: "running" stays in the stored state, and means nothing.
Restart ==
    /\ Fault
    /\ running' = FALSE /\ jobs' = [w \in Writers |-> Idle]
    /\ UNCHANGED <<settings, recorded, cert, key, due, pairs, source>>

-----------------------------------------------------------------------------
\* The self-signed pair of the first boot.
Init ==
    /\ settings \in [enabled : {FALSE}, names : NameSets]
    /\ recorded = [names |-> {}, status |-> "never"]
    /\ running = FALSE
    /\ cert = [pair |-> 0, names |-> SelfSigned] /\ key = 0 /\ due = FALSE
    /\ jobs = [w \in Writers |-> Idle]
    /\ pairs = 0 /\ faults = 0 /\ source = "admin"

Next ==
    \/ BeginCheck \/ Renew \/ Leave \/ Request \/ Expire \/ Restart
    \/ \E enabled \in BOOLEAN, names \in NameSets : PutAcme(enabled, names)
    \/ \E names \in NameSets \cup {SelfSigned}, how \in {"own", "self"} : Replace(how, names)
    \/ \E w \in Issuers : Issued(w) \/ Refused(w)
    \/ \E w \in Writers : WriteFile(w) \/ Finish(w) \/ WriteFails(w)

-----------------------------------------------------------------------------
\* Whoever installs, fails, or is cut short: a pair nobody wrote into belongs
\* together. And what acme-manager recorded, which is all that the daily check goes
\* by, is what the issued certificate in use is for.
CertificateAsRecorded ==
    /\ source \in {"issued", "recorded", "admin"} => key = cert.pair
    /\ source = "recorded" => recorded.names = cert.names

=============================================================================
