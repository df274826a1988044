------------------------------- MODULE MCParts -------------------------------
(***************************************************************************)
(* The parts that keep nothing in common, each checked for itself: an      *)
(* initial state picks the one that runs, and the others stand still.      *)
(***************************************************************************)
EXTENDS Parts

CONSTANTS
    h1, a1,
    Running   \* the parts that are run

VARIABLE part

\* A desktop, one that is no wider than a window, and a phone; a point beyond the top
\* right corner of each, one in the middle, and one beyond the left edge: a window as
\* wide as the desktop still reaches back from it.
Viewports == {[w |-> 5, h |-> 5], [w |-> 3, h |-> 4], [w |-> 2, h |-> 4]}
Pointers == {[x |-> 9, y |-> 0], [x |-> 2, y |-> 2], [x |-> -3, y |-> 2]}

\* A part that stands still does so in one of its initial states.
MCInit ==
    /\ part \in Running /\ PartsInit
    /\ part # "ddns" => public = a1 /\ config.host = h1
    /\ part # "alerts" => ~mailing
    /\ part # "certificates" => settings.names = {h1}
    /\ view.w = 5 \/ (part = "windows" /\ view.w = 2)
    /\ part # "live" => ~known

MCNext ==
    /\ \/ part = "ddns" /\ RunDdns
       \/ part = "bans" /\ RunBans
       \/ part = "alerts" /\ RunAlerts
       \/ part = "provider" /\ RunIdProvider
       \/ part = "certificates" /\ RunCertificates
       \/ part = "windows" /\ RunWindows
       \/ part = "live" /\ RunLive
       \/ part = "notices" /\ RunNotices
    /\ UNCHANGED part

\* In a part that stands still no fair action is enabled, so its fairness asks for
\* nothing.
MCSpec == MCInit /\ [][MCNext]_<<part, partsVars>> /\ PartsFairness
=============================================================================
