-------------------------------- MODULE Live --------------------------------
(***************************************************************************)
(* Live updates (ws.ts and store/system.ts): the one loop that samples the *)
(* machine for every desktop that listens, the sockets they listen on, and *)
(* the tab that opens, counts and reopens its socket.                      *)
(*                                                                         *)
(* What a sample says is left out.  A socket's two ends notice its close   *)
(* each in its own time.                                                   *)
(***************************************************************************)
EXTENDS Naturals

CONSTANTS
    Sockets,     \* numbers of the connections there can be at once
    None,        \* no socket
    MaxMounts,   \* bound: components that asked for updates
    MaxFaults    \* bound: connections lost, and chunks of other clients

VARIABLES
    refCount, socket, connected,  \* the tab's store
    link,       \* the tab's end of each connection
    timers,     \* reconnections that wait their 1.5 seconds
    served,     \* the backend's end of each connection
    starting,   \* runs of startStreaming that wait for the static facts
    unsubscribe,\* whether the loop holds a listener that the connection can remove
    leaked,     \* the listeners it holds that nobody can remove
    known,      \* the static facts are cached
    hasty,      \* history: a connection was accepted before they were, or asked to
                \* be sent the samples several times in one chunk
    running,    \* the loop's timer
    subscribes, \* "subscribe" messages on their way
    mounts, faults

liveVars == <<refCount, socket, connected, link, timers, served, starting, unsubscribe,
              leaked, known, hasty, running, subscribes, mounts, faults>>

\* Bound: of those who ask several times in one chunk, some ask twice.
Burst == 2

tabVars == <<refCount, socket, connected, timers>>
loopVars == <<starting, unsubscribe, leaked, running, known>>

TypeOK ==
    /\ refCount \in 0 .. MaxMounts /\ socket \in Sockets \cup {None} /\ connected \in BOOLEAN
    /\ link \in [Sockets -> {"free", "connecting", "open", "closing"}] /\ timers \in Nat
    /\ served \in [Sockets -> {"none", "up", "down"}]
    /\ starting \in [Sockets -> Nat] /\ leaked \in Nat
    /\ unsubscribe \in [Sockets -> BOOLEAN] /\ known \in BOOLEAN /\ running \in BOOLEAN
    /\ hasty \in BOOLEAN /\ subscribes \subseteq Sockets
    /\ mounts \in 0 .. MaxMounts /\ faults \in 0 .. MaxFaults

Fault == faults < MaxFaults /\ faults' = faults + 1
Free == {s \in Sockets : link[s] = "free" /\ served[s] # "up" /\ starting[s] = 0}
Lowest == CHOOSE s \in Free : \A t \in Free : s <= t

-----------------------------------------------------------------------------
\* open: a connection nobody uses becomes the tab's.
Open ==
    /\ Free # {}
    /\ socket' = Lowest
    /\ link' = [link EXCEPT ![Lowest] = "connecting"]
    /\ served' = [served EXCEPT ![Lowest] = "none"]

\* connect, when a component mounts.
Connect ==
    /\ mounts < MaxMounts /\ mounts' = mounts + 1
    /\ refCount' = refCount + 1
    /\ \/ socket = None /\ Open
       \/ socket # None /\ UNCHANGED <<socket, link, served>>
    /\ UNCHANGED <<connected, timers, loopVars, hasty, subscribes, faults>>

\* disconnect, when one unmounts: the last closes the socket.
Disconnect ==
    /\ refCount > 0
    /\ refCount' = refCount - 1
    /\ \/ /\ refCount = 1
          /\ link' = IF socket = None THEN link ELSE [link EXCEPT ![socket] = "closing"]
          /\ socket' = None /\ connected' = FALSE
       \/ refCount > 1 /\ UNCHANGED <<link, socket, connected>>
    /\ UNCHANGED <<timers, served, loopVars, hasty, subscribes, mounts, faults>>

\* onopen: the tab says that it wants the samples.
Opened(s) ==
    /\ link[s] = "connecting" /\ served[s] = "up"
    /\ link' = [link EXCEPT ![s] = "open"]
    /\ connected' = TRUE
    /\ subscribes' = subscribes \cup {s}
    /\ UNCHANGED <<refCount, socket, timers, served, loopVars, hasty, mounts, faults>>

\* onclose, of whichever socket: the store is told that there is none.
ClosedForGood(s) ==              \* mutant: nobody tries again
    /\ link[s] = "closing"
    /\ link' = [link EXCEPT ![s] = "free"]
    /\ connected' = FALSE /\ socket' = None
    /\ UNCHANGED <<refCount, timers, served, loopVars, hasty, subscribes, mounts, faults>>
Closed(s) ==
    /\ link[s] = "closing"
    /\ link' = [link EXCEPT ![s] = "free"]
    /\ connected' = FALSE /\ socket' = None
    /\ timers' = IF refCount > 0 THEN timers + 1 ELSE timers
    /\ UNCHANGED <<refCount, served, loopVars, hasty, subscribes, mounts, faults>>

\* The timer of a reconnection.
Reconnect ==
    /\ timers > 0 /\ timers' = timers - 1
    /\ \/ refCount > 0 /\ socket = None /\ Open
       \/ (refCount = 0 \/ socket # None) /\ UNCHANGED <<socket, link, served>>
    /\ UNCHANGED <<refCount, connected, loopVars, hasty, subscribes, mounts, faults>>

\* The network, or a restart of the server in front, drops a connection.
Drop(s) ==
    /\ Fault /\ link[s] \in {"connecting", "open"}
    /\ link' = [link EXCEPT ![s] = "closing"]
    /\ UNCHANGED <<tabVars, served, loopVars, hasty, subscribes, mounts>>

-----------------------------------------------------------------------------
\* `if (unsubscribe) return`: how many of n times startStreaming goes on.
GoesOnAnyhow(s, gone, n) == n    \* mutant: without asking whether it has started
GoesOn(s, gone, n) == IF unsubscribe[s] /\ ~gone THEN 0 ELSE n

\* What the connection hears in one chunk, handled in one go: that it should stop,
\* or nothing of the kind, and then n times to start. Each start awaits the facts. If
\* they are cached that is over when the chunk is, so that of several each adds
\* a listener, and only the last can be removed; if not, HelloSent goes on.
\* Removing the last listener stops the loop.
Hear(s, gone, n) ==
    LET asked == GoesOn(s, gone, n)
        holds == unsubscribe[s] /\ ~gone
        added == IF known THEN asked ELSE 0
    IN  /\ starting' = IF known THEN starting ELSE [starting EXCEPT ![s] = @ + asked]
        /\ unsubscribe' = [unsubscribe EXCEPT ![s] = holds \/ added > 0]
        /\ leaked' = IF added = 0 THEN leaked
                     ELSE IF holds THEN leaked + added ELSE leaked + added - 1
        /\ running' = IF added > 0 THEN TRUE
                      ELSE IF unsubscribe[s] /\ gone
                           THEN leaked > 0 \/ \E t \in Sockets : unsubscribe'[t]
                           ELSE running

\* The upgrade: streaming starts by itself.
Accept(s) ==
    /\ link[s] = "connecting" /\ served[s] = "none"
    /\ served' = [served EXCEPT ![s] = "up"]
    /\ hasty' = (hasty \/ ~known)
    /\ Hear(s, FALSE, 1)
    /\ UNCHANGED <<tabVars, link, known, subscribes, mounts, faults>>

\* The facts are there, or cannot be had, and the listener is added either way, to
\* whatever is left: a listener the connection had is forgotten, and one that is
\* closed is not asked again.
HelloSent(s) ==
    /\ starting[s] > 0
    /\ starting' = [starting EXCEPT ![s] = @ - 1]
    /\ known' \in {known, TRUE}
    /\ unsubscribe' = [unsubscribe EXCEPT ![s] = served[s] # "down"]
    /\ leaked' = IF unsubscribe[s] \/ served[s] = "down" THEN leaked + 1 ELSE leaked
    /\ running' = TRUE
    /\ UNCHANGED <<tabVars, link, served, hasty, subscribes, mounts, faults>>

\* The tab's message.
Subscribe(s) ==
    /\ s \in subscribes /\ subscribes' = subscribes \ {s}
    /\ IF served[s] = "up" THEN Hear(s, FALSE, 1)
       ELSE UNCHANGED <<starting, unsubscribe, leaked, running>>
    /\ UNCHANGED <<tabVars, link, served, known, hasty, mounts, faults>>

\* What any other client may say, whenever it likes and as often in one chunk.
Chatter(s, gone, n) ==
    /\ Fault /\ served[s] = "up" /\ link[s] = "open"
    /\ hasty' = (hasty \/ n > 1)
    /\ Hear(s, gone, n)
    /\ UNCHANGED <<tabVars, link, served, known, subscribes, mounts>>

\* teardown, on close or error.
Teardown(s) ==
    /\ served[s] = "up" /\ link[s] \in {"closing", "free"}
    /\ served' = [served EXCEPT ![s] = "down"]
    /\ Hear(s, TRUE, 0)
    /\ subscribes' = subscribes \ {s}
    /\ UNCHANGED <<tabVars, link, known, hasty, mounts, faults>>

-----------------------------------------------------------------------------
Init ==
    /\ refCount = 0 /\ socket = None /\ connected = FALSE /\ timers = 0
    /\ link = [s \in Sockets |-> "free"] /\ served = [s \in Sockets |-> "none"]
    /\ starting = [s \in Sockets |-> 0]  /\ leaked = 0
    /\ unsubscribe = [s \in Sockets |-> FALSE] /\ running = FALSE
    /\ known \in BOOLEAN /\ hasty = FALSE /\ subscribes = {}
    /\ mounts = 0 /\ faults = 0

Next ==
    \/ Connect \/ Disconnect \/ Reconnect
    \/ \E s \in Sockets :
          \/ Opened(s) \/ Closed(s) \/ Drop(s)
          \/ Accept(s) \/ HelloSent(s) \/ Subscribe(s) \/ Teardown(s)
          \/ \E gone \in BOOLEAN, n \in 0 .. Burst : Chatter(s, gone, n)

\* Timers fire, closes are noticed, connections are accepted.
Fairness ==
    /\ WF_liveVars(Reconnect)
    /\ \A s \in Sockets :
          /\ WF_liveVars(Opened(s)) /\ WF_liveVars(Closed(s)) /\ WF_liveVars(Accept(s))
          /\ WF_liveVars(HelloSent(s)) /\ WF_liveVars(Subscribe(s)) /\ WF_liveVars(Teardown(s))

FairSpec == Init /\ [][Next]_liveVars /\ Fairness

-----------------------------------------------------------------------------
\* The loop runs exactly while it has listeners; each connection is one at most
\* and none when it is gone, as long as the static facts were known by then and no
\* client asked several times in one chunk.
ListenersAreConnections ==
    /\ running = (leaked > 0 \/ \E s \in Sockets : unsubscribe[s])
    /\ \A s \in Sockets : unsubscribe[s] => served[s] = "up"
    /\ ~hasty => leaked = 0

\* ws.ts:11: the loop "only runs while at least one subscriber is listening, so an
\* idle desktop costs nothing".  A listener added after its connection was closed,
\* or a second time, is never removed.
IdleCostsNothing ==
    (\A s \in Sockets : served[s] # "up" /\ starting[s] = 0) => ~running

\* system.ts:16: connecting is "idempotent, ref-counted by mounted consumers": the
\* tab holds one connection.
OneConnection ==
    \A s, t \in Sockets : {link[s], link[t]} \subseteq {"connecting", "open"} => s = t

\* A desktop that wants updates gets its connection back, whatever was lost.
Reconnects == refCount > 0 ~> (connected \/ refCount = 0)

=============================================================================
