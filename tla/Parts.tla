-------------------------------- MODULE Parts --------------------------------
(***************************************************************************)
(* Eight parts of one machine: five that look after something outside the  *)
(* backend (dynamic DNS, bans, disk alerts, the certificate, the identity  *)
(* provider), and three that run in the browser, with the ends they have   *)
(* in the backend (windows, live updates, the notification centre).        *)
(*                                                                         *)
(* The code keeps nothing in common between them, so a step of the whole   *)
(* is a step of one, which leaves the others as they are.  The bans are    *)
(* extended, the other parts are instances.                                *)
(***************************************************************************)
EXTENDS Integers, Bans

CONSTANTS
    None,                                    \* no address, key, socket, window
    Hosts, Publics, Timer, Buttons, MaxChanges,
    Disks, MaxUpsets,
    Users, Clients, MaxCodes,
    NameSets, Daily, Asked, Admin, MaxPairs, MaxFaults,
    Apps, Guarded, Silent, Sizes, Phone, Bar, Wide, High, Points, Gone, MaxMoves,
    Sockets, MaxMounts, MaxDrops,
    Keys, Cap, Limit, MaxNotices, MaxAsked, MaxMishaps

VARIABLES
    public, config, state, dns, checks, confused, alone, changes,
    health, mailing, reports, scan, told, unsure, upsets,
    users, clients, codes, tokens, issued, presented, honoured,
    settings, acme, running, cert, key, due, jobs, pairs, source, faults,
    view, win, above, focused, asked, strayed, slipped, moves,
    refCount, socket, connected, link, timers, served, starting, unsubscribe, leaked,
    known, hasty, streaming, subscribes, mounts, drops,
    rows, items, wire, online, hydrating, answer, requests, torn, made, sent, mishaps

Ddns == INSTANCE Ddns WITH Addresses <- Publics
Alerts == INSTANCE Alerts WITH state <- reports
IdProvider == INSTANCE IdProvider
Certificates == INSTANCE Certificates WITH recorded <- acme
Windows == INSTANCE Windows
Live == INSTANCE Live WITH MaxFaults <- MaxDrops, running <- streaming, faults <- drops
Notices == INSTANCE Notices WITH
    Once <- None, MaxUpsets <- MaxMishaps, asked <- requests, upsets <- mishaps

ddnsVars == <<public, config, state, dns, checks, confused, alone, changes>>
alertsVars == <<health, mailing, reports, scan, told, unsure, upsets>>
idpVars == <<users, clients, codes, tokens, issued, presented, honoured>>
certVars == <<settings, acme, running, cert, key, due, jobs, pairs, source, faults>>
outside == <<ddnsVars, alertsVars, idpVars, certVars>>

windowsVars == <<view, win, above, focused, asked, strayed, slipped, moves>>
liveVars == <<refCount, socket, connected, link, timers, served, starting, unsubscribe,
              leaked, known, hasty, streaming, subscribes, mounts, drops>>
noticesVars == <<rows, items, wire, online, hydrating, answer, requests, torn, made, sent,
                 mishaps>>
desktop == <<windowsVars, liveVars, noticesVars>>
partsVars == <<bansVars, outside, desktop>>

\* Sockets are numbered in the order they are opened. The name an issuance is known
\* by is not one of the ways a certificate is said to have come.
ASSUME PartsAssumption ==
    /\ Threshold \in Nat /\ MaxChanges \in Nat /\ MaxUpsets \in Nat /\ MaxCodes \in Nat
    /\ MaxPairs \in Nat /\ MaxFaults \in Nat /\ Admin \notin {Daily, Asked}
    /\ {Daily, Asked, Admin} \cap {"issued", "recorded", "admin", "torn"} = {}
    /\ Sockets \subseteq Nat /\ MaxMounts \in Nat /\ MaxDrops \in Nat

\* A screen no narrower than a phone has room for two halves side by side, and for
\* two rows below the bar. A window is not one of the marks for there being none.
ASSUME DesktopAssumption ==
    /\ Sizes \subseteq [w : Nat \ {0}, h : Nat] /\ Points \subseteq [x : Int, y : Int]
    /\ Phone \in Nat /\ Bar \in Nat /\ Wide \in Nat \ {0} /\ High \in Nat /\ MaxMoves \in Nat
    /\ \A v \in Sizes : v.w >= Phone => v.w >= 2 /\ v.h >= Bar + 2
    /\ {None, Gone} \cap Apps = {} /\ None \notin Windows!Window
    /\ Cap \in Nat /\ Limit \in Nat /\ None \notin Keys
    /\ MaxNotices \in Nat /\ MaxAsked \in Nat /\ MaxMishaps \in Nat

-----------------------------------------------------------------------------
PartsInit ==
    /\ Ddns!Init /\ Init /\ Alerts!Init /\ IdProvider!Init /\ Certificates!Init
    /\ Windows!Init /\ Live!Init /\ Notices!Init

RunDdns ==
    /\ Ddns!Next
    /\ UNCHANGED <<bansVars, alertsVars, idpVars, certVars, desktop>>
RunBans == Next /\ UNCHANGED <<outside, desktop>>
RunAlerts ==
    /\ Alerts!Next
    /\ UNCHANGED <<bansVars, ddnsVars, idpVars, certVars, desktop>>
RunIdProvider ==
    /\ IdProvider!Next
    /\ UNCHANGED <<bansVars, ddnsVars, alertsVars, certVars, desktop>>
RunCertificates ==
    /\ Certificates!Next
    /\ UNCHANGED <<bansVars, ddnsVars, alertsVars, idpVars, desktop>>
RunWindows == Windows!Next /\ UNCHANGED <<bansVars, outside, liveVars, noticesVars>>
RunLive == Live!Next /\ UNCHANGED <<bansVars, outside, windowsVars, noticesVars>>
RunNotices == Notices!Next /\ UNCHANGED <<bansVars, outside, windowsVars, liveVars>>

PartsNext ==
    \/ RunDdns \/ RunBans \/ RunAlerts \/ RunIdProvider \/ RunCertificates
    \/ RunWindows \/ RunLive \/ RunNotices

PartsFairness == Windows!Fairness /\ Live!Fairness
PartsSpec == PartsInit /\ [][PartsNext]_partsVars /\ PartsFairness

-----------------------------------------------------------------------------
\* What each part promises, with its type invariant; TrustedGetIn is of Bans.

\* The stored state of dynamic DNS is right about the provider.
StoredIsServed == Ddns!TypeOK /\ Ddns!StoredIsServed

\* A disk that counts as reported was reported (and the bans keep their types).
ReportedWasTold == TypeOK /\ Alerts!TypeOK /\ Alerts!ReportedWasTold

\* A code that was presented once is never honoured later.
CodesAreSingleUse == IdProvider!CodesAreSingleUse

\* The pair in use belongs together, and the record is of its names.
CertificateAsRecorded == Certificates!TypeOK /\ Certificates!CertificateAsRecorded

\* No window is lost off the screen, whatever the screen becomes, but for those left
\* beyond its left edge by hand or by their app; and the keyboard acts on the one in
\* front.
WindowsAtHand == Windows!TypeOK /\ Windows!Reachable /\ Windows!FocusIsInFront

\* A window whose app does not answer closes all the same.
CloseIsServed == Windows!CloseIsServed

\* The loop that samples the machine runs for those who listen.
ListenersAreConnections == Live!TypeOK /\ Live!ListenersAreConnections

\* A desktop that lost its connection gets another.
Reconnects == Live!Reconnects

\* What the notification centre shows includes every row, and a condition that
\* lasts is one row.
NoticesInOrder == Notices!TypeOK /\ Notices!ListHasRows /\ Notices!OneRowPerCondition

\* ws.ts:9, which the code does not keep: the loop stops when nobody listens.
IdleCostsNothing == Live!IdleCostsNothing
=============================================================================
