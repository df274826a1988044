------------------------------ MODULE Notices ------------------------------
(***************************************************************************)
(* The notification centre (db/notifications.ts, notifications/hub.ts and  *)
(* routes.ts, store/notifications.ts): the rows of one user, what is       *)
(* pushed over the socket, and the list an open desktop shows.             *)
(*                                                                         *)
(* Notices are numbered as they are created.  Items that only live in the  *)
(* tab, and what a notice says, are left out.                              *)
(***************************************************************************)
EXTENDS Naturals, FiniteSets, Sequences

CONSTANTS
    Keys,        \* keys of ongoing conditions
    Once,        \* a notice without a key
    Cap, Limit,  \* rows kept for a user, and items in a list; rows of one load
    MaxNotices,  \* bound: notices created
    MaxAsked,    \* bound: requests the tab sends
    MaxUpsets    \* bound: connections lost, requests lost, and reloads

VARIABLES
    rows,      \* the table
    items,     \* the list in the tab
    wire,      \* pushed, and not yet received
    online,    \* the tab's socket is registered with the hub
    hydrating, \* where the first load is: "asked", the answer under way, or "done"
    answer,    \* that answer
    asked,     \* requests under way
    torn,      \* history: why the list may lack a row
    made, sent, upsets

noticesVars == <<rows, items, wire, online, hydrating, answer, asked, torn, made, sent, upsets>>

Ids == 1 .. MaxNotices
Rows == [id : Ids, key : Keys \cup {Once}, read : BOOLEAN]
Items == [id : Ids, read : BOOLEAN]
Requests == [op : {"read", "clear"}] \cup [op : {"remove"}, id : Ids]

TypeOK ==
    /\ rows \subseteq Rows /\ items \subseteq Items /\ wire \in Seq(Ids) /\ online \in BOOLEAN
    /\ hydrating \in {"asked", "answered", "done"} /\ answer \subseteq Items
    /\ asked \subseteq Requests /\ torn \subseteq {"offline", "hydrate", "failed", "crowded"}
    /\ made \in 0 .. MaxNotices /\ sent \in 0 .. MaxAsked /\ upsets \in 0 .. MaxUpsets

IdsOf(records) == {r.id : r \in records}
Newest(records, n) == {r \in records : Cardinality({q \in records : q.id > r.id}) < n}
Upset == upsets < MaxUpsets /\ upsets' = upsets + 1

-----------------------------------------------------------------------------
\* notifyUser: createNotification in one transaction, and the push.
CreateKeeping(key) ==            \* mutant: the unread one of the same condition stays
    rows \cup {[id |-> made + 1, key |-> key, read |-> FALSE]}
Create(key) ==
    {r \in rows : key = Once \/ r.key # key \/ r.read}
        \cup {[id |-> made + 1, key |-> key, read |-> FALSE]}

Notify(key) ==
    /\ made < MaxNotices /\ made' = made + 1
    /\ rows' = Newest(Create(key), Cap)
    /\ wire' = IF online THEN Append(wire, made + 1) ELSE wire
    /\ torn' = torn \cup (IF online THEN {} ELSE {"offline"})
                    \cup (IF hydrating = "done" THEN {} ELSE {"hydrate"})
    /\ UNCHANGED <<items, online, hydrating, answer, asked, sent, upsets>>

\* GET /notifications: the rows as they are now, and the list some time later.
AnswerUnread ==                  \* mutant: what was read is not in the list
    /\ hydrating = "asked"
    /\ hydrating' = "answered"
    /\ answer' = {[id |-> r.id, read |-> FALSE] : r \in {q \in Newest(rows, Limit) : ~q.read}}
    /\ torn' = IF Cardinality(rows) <= Limit THEN torn ELSE torn \cup {"crowded"}
    /\ UNCHANGED <<rows, items, wire, online, asked, made, sent, upsets>>
AnswerHydrate ==
    /\ hydrating = "asked"
    /\ hydrating' = "answered"
    /\ answer' = {[id |-> r.id, read |-> r.read] : r \in Newest(rows, Limit)}
    /\ torn' = IF Cardinality(rows) <= Limit THEN torn ELSE torn \cup {"crowded"}
    /\ UNCHANGED <<rows, items, wire, online, asked, made, sent, upsets>>

\* hydrate: the answer replaces what came from the server meanwhile.
Hydrated ==
    /\ hydrating = "answered"
    /\ hydrating' = "done" /\ items' = answer /\ answer' = {}
    /\ UNCHANGED <<rows, wire, online, asked, torn, made, sent, upsets>>

HydrateFails ==
    /\ Upset /\ hydrating # "done"
    /\ hydrating' = "done" /\ answer' = {} /\ torn' = torn \cup {"failed"}
    /\ UNCHANGED <<rows, items, wire, online, asked, made, sent>>

\* receive: a notice that is in the list already is not added again.  A row that
\* another replaced is still in the list, and counts for what the list may hold.
Receive ==
    LET known == Head(wire) \in IdsOf(items)
        more == items \cup {[id |-> Head(wire), read |-> FALSE]}
    IN  /\ wire # <<>> /\ wire' = Tail(wire)
        /\ items' = IF known THEN items ELSE Newest(more, Cap)
        /\ torn' = IF known \/ Cardinality(more) <= Cap THEN torn ELSE torn \cup {"crowded"}
        /\ UNCHANGED <<rows, online, hydrating, answer, asked, made, sent, upsets>>

-----------------------------------------------------------------------------
Ask(request) ==
    /\ sent < MaxAsked /\ sent' = sent + 1
    /\ asked' = asked \cup {request}

\* markAllRead, remove and clear: the list at once, the rows when the request arrives.
MarkAllRead ==
    /\ \E i \in items : ~i.read
    /\ Ask([op |-> "read"])
    /\ items' = {[i EXCEPT !.read = TRUE] : i \in items}
    /\ UNCHANGED <<rows, wire, online, hydrating, answer, torn, made, upsets>>

RemoveItem(i) ==
    /\ i \in items
    /\ Ask([op |-> "remove", id |-> i.id])
    /\ items' = items \ {i}
    /\ UNCHANGED <<rows, wire, online, hydrating, answer, torn, made, upsets>>

Clear ==
    /\ items # {}
    /\ Ask([op |-> "clear"])
    /\ items' = {}
    /\ UNCHANGED <<rows, wire, online, hydrating, answer, torn, made, upsets>>

\* The routes, each one statement, whatever order the requests arrive in.
Arrived(request) ==
    /\ request \in asked /\ asked' = asked \ {request}
    /\ rows' = CASE request.op = "read" -> {[r EXCEPT !.read = TRUE] : r \in rows}
                 [] request.op = "remove" -> {r \in rows : r.id # request.id}
                 [] request.op = "clear" -> {}
    /\ UNCHANGED <<items, wire, online, hydrating, answer, torn, made, sent, upsets>>

\* A request that fails says nothing: what it removed is there on the next load.
Failed(request) ==
    /\ Upset /\ request \in asked /\ asked' = asked \ {request}
    /\ torn' = torn \cup {"failed"}
    /\ UNCHANGED <<rows, items, wire, online, hydrating, answer, made, sent>>

-----------------------------------------------------------------------------
\* subscribeUser, when the socket is up; and what its close drops.
Online ==
    /\ ~online /\ online' = TRUE
    /\ UNCHANGED <<rows, items, wire, hydrating, answer, asked, torn, made, sent, upsets>>

Offline ==
    /\ Upset /\ online
    /\ online' = FALSE /\ wire' = <<>>
    /\ torn' = IF wire = <<>> THEN torn ELSE torn \cup {"offline"}
    /\ UNCHANGED <<rows, items, hydrating, answer, asked, made, sent>>

\* The page is loaded again, with nothing of it under way.
Reload ==
    /\ Upset /\ asked = {}
    /\ items' = {} /\ wire' = <<>> /\ online' = FALSE
    /\ hydrating' = "asked" /\ answer' = {} /\ torn' = {}
    /\ UNCHANGED <<rows, asked, made, sent>>

-----------------------------------------------------------------------------
Init ==
    /\ rows = {} /\ items = {} /\ wire = <<>> /\ online = FALSE
    /\ hydrating = "asked" /\ answer = {} /\ asked = {} /\ torn = {}
    /\ made = 0 /\ sent = 0 /\ upsets = 0

Next ==
    \/ AnswerHydrate \/ Hydrated \/ HydrateFails \/ Receive
    \/ MarkAllRead \/ Clear \/ Online \/ Offline \/ Reload
    \/ \E key \in Keys \cup {Once} : Notify(key)
    \/ \E i \in items : RemoveItem(i)
    \/ \E request \in asked : Arrived(request) \/ Failed(request)

Spec == Init /\ [][Next]_noticesVars

-----------------------------------------------------------------------------
Settled == hydrating = "done" /\ wire = <<>> /\ asked = {}

\* What the desktop shows when nothing is under way includes every row, unless a
\* notice was raised while it was offline or loading, a request failed, or there were
\* too many.
ListHasRows == Settled /\ torn = {} => IdsOf(rows) \subseteq IdsOf(items)

\* db/notifications.ts:47: a condition that lasts is one unread row, and no more
\* than the cap is kept.
OneRowPerCondition ==
    /\ Cardinality(rows) <= Cap
    /\ \A key \in Keys : Cardinality({r \in rows : r.key = key /\ ~r.read}) <= 1

\* hub.ts:8: a notice is pushed "so an open desktop updates immediately". One that
\* is raised while the first load is under way is in no list until the next.
OpenDesktopUpdates ==
    Settled /\ torn \subseteq {"hydrate"} => IdsOf(rows) \subseteq IdsOf(items)

=============================================================================
