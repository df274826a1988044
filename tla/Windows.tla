------------------------------ MODULE Windows ------------------------------
(***************************************************************************)
(* The desktop's windows (store/windows.ts, Window.tsx, Desktop.tsx and    *)
(* the close guard of app-bridge.ts): where they are, which is in front,   *)
(* and the way a press of the close button takes.                          *)
(*                                                                         *)
(* An app has at most one window, so a window is named by its app.  One    *)
(* unit of length stands for the margin kept on screen, and Bar for the    *)
(* height of the taskbar.                                                  *)
(***************************************************************************)
EXTENDS Integers, FiniteSets

CONSTANTS
    Apps,
    Guarded, Silent,  \* apps that asked to be consulted; those that never answer
    Sizes,            \* sizes the viewport takes: records [w, h]
    Phone,            \* a viewport narrower than this is a phone's
    Bar,              \* TASKBAR_H
    Wide, High,       \* defaultWidth and defaultHeight of the apps
    Points,           \* where the pointer is taken
    None, Gone,       \* no window, geometry or focus; the id of a window that is no more
    MaxMoves          \* bound: drags, snaps, resizes of a window or the viewport

VARIABLES
    view,      \* the viewport
    win,       \* the window of each app
    above,     \* the windows by zIndex: pairs, the first in front of the second
    focused,   \* focusedId
    asked,     \* apps whose window waits for the answer of its close guard
    strayed,   \* history: windows put back where a larger screen had them
    slipped,   \* history: windows dragged, or left by their app, beyond the left edge
    moves

windowsVars == <<view, win, above, focused, asked, strayed, slipped, moves>>

Least(a, b) == IF a < b THEN a ELSE b
Most(a, b) == IF a > b THEN a ELSE b

Rect == [x : Int, y : Int, width : Nat \ {0}, height : Int]
Window == [rect : Rect, restore : Rect \cup {None},
           minimized : BOOLEAN, maximized : BOOLEAN, closing : BOOLEAN]
Open == {a \in Apps : win[a] # None}
Lively == {a \in Open : ~win[a].closing}
OnPhone(v) == v.w < Phone

TypeOK ==
    /\ view \in Sizes /\ win \in [Apps -> Window \cup {None}]
    /\ above \subseteq Open \X Open
    /\ \A a, b \in Open : <<a, b>> \in above <=> a # b /\ <<b, a>> \notin above
    /\ \A a, b, c \in Open : <<a, b>> \in above /\ <<b, c>> \in above => <<a, c>> \in above
    /\ focused \in Open \cup {None, Gone}
    /\ asked \subseteq Open /\ strayed \subseteq Open /\ slipped \subseteq Open
    /\ moves \in 0 .. MaxMoves

Moving == moves < MaxMoves /\ moves' = moves + 1
Behind(a) == {pair \in above : a \notin {pair[1], pair[2]}}
Raise(a) == Behind(a) \cup {<<a, b>> : b \in Open \ {a}}

\* topMost: the front one of some windows.
Front(a, ws) == \A b \in ws \ {a} : <<a, b>> \in above
TopMost(ws) ==
    IF \E a \in ws : Front(a, ws) THEN CHOOSE a \in ws : Front(a, ws) ELSE None

Shown(a) == a \in Open /\ ~win[a].minimized
NextFocus(a) == IF focused = a THEN TopMost({b \in Open \ {a} : Shown(b)}) ELSE focused

-----------------------------------------------------------------------------
\* phoneRect, and snapRect of a zone, on a viewport.
Sheet(v) == [x |-> 0, y |-> 0, width |-> v.w, height |-> v.h - Bar]
Filled(v) == [x |-> 0, y |-> Bar, width |-> v.w, height |-> v.h - Bar]
Zones == {"left", "right", "top-left", "top-right", "bottom-left", "bottom-right", "maximize"}
Half(n) == (n + 1) \div 2
SnapRect(zone, v) ==
    IF OnPhone(v) THEN Sheet(v)
    ELSE [x |-> IF zone \in {"right", "top-right", "bottom-right"} THEN v.w - Half(v.w) ELSE 0,
          y |-> IF zone \in {"bottom-left", "bottom-right"} THEN v.h - Half(v.h - Bar) ELSE Bar,
          width |-> IF zone = "maximize" THEN v.w ELSE Half(v.w),
          height |-> IF zone \in {"left", "right", "maximize"} THEN v.h - Bar
                     ELSE Half(v.h - Bar)]

\* placeWindow: one of the places of the cascade.
Places(v) ==
    IF OnPhone(v) THEN {Sheet(v)}
    ELSE {[x |-> k, y |-> Bar + k,
           width |-> Least(Wide, v.w - 1), height |-> Least(High, v.h - Bar - 1)]
          : k \in {0, 1}}

\* reflow of one window, to where it may go.
Clamped(r, v) ==
    [width |-> Least(r.width, v.w), height |-> Least(r.height, v.h - Bar),
     x |-> Most(0, Least(r.x, v.w - 1)),
     y |-> Most(Bar, Least(r.y, v.h - 1))]
ClampedAtTop(r, v) ==           \* mutant: a window may be left above the taskbar
    [Clamped(r, v) EXCEPT !.y = Most(0, Least(r.y, v.h - 1))]
Reflowed(w, v, leaving) ==
    IF leaving THEN {[w EXCEPT !.rect = r, !.maximized = FALSE] : r \in Places(v)}
    ELSE {[w EXCEPT !.rect = IF w.maximized THEN Filled(v) ELSE Clamped(w.rect, v)]}

-----------------------------------------------------------------------------
\* focus, which the pointer, the taskbar and the switcher call.
Focused(a) ==
    /\ focused' = a /\ above' = Raise(a)
    /\ win' = [win EXCEPT ![a].minimized = FALSE]

OpenApp(a) ==
    /\ \/ a \in Open /\ Focused(a)
       \/ /\ a \notin Open
          /\ \E r \in Places(view) :
                win' = [win EXCEPT ![a] = [rect |-> r, restore |-> None, minimized |-> FALSE,
                                           maximized |-> FALSE, closing |-> FALSE]]
          /\ above' = Raise(a) /\ focused' = a
    /\ UNCHANGED <<view, asked, strayed, slipped, moves>>

Focus(a) ==
    /\ a \in Open /\ (focused = a => win[a].minimized)
    /\ Focused(a)
    /\ UNCHANGED <<view, asked, strayed, slipped, moves>>

\* cycle: the next window, or the one before, of those that are shown.
Cycle(step) ==
    LET round == {a \in Lively : Shown(a)}
        Rank(a) == Cardinality({b \in round : <<a, b>> \in above})
        at == IF focused \in round THEN Rank(focused) ELSE -1
        n == Cardinality(round)
    IN  /\ \E a \in round \ {focused} :
              Rank(a) = (at + step + n) % n /\ Focused(a)
        /\ UNCHANGED <<view, asked, strayed, slipped, moves>>

MinimizeKeepingFocus(a) ==       \* mutant: the keyboard still acts on it
    /\ Shown(a)
    /\ win' = [win EXCEPT ![a].minimized = TRUE]
    /\ UNCHANGED <<view, above, focused, asked, strayed, slipped, moves>>
Minimize(a) ==
    /\ Shown(a)
    /\ win' = [win EXCEPT ![a].minimized = TRUE]
    /\ focused' = NextFocus(a)
    /\ UNCHANGED <<view, above, asked, strayed, slipped, moves>>

\* Where a window is, and where it was.
Put(a, rect, restore, maximized) ==
    win' = [win EXCEPT ![a] = [rect |-> rect, restore |-> restore, maximized |-> maximized,
                               minimized |-> win[a].minimized, closing |-> win[a].closing]]

\* toggleMaximize, which the app may ask for too, on a phone as well: what it
\* restores was saved on whatever screen there was then.
ToggleMaximize(a) ==
    /\ Moving /\ Shown(a)
    /\ \/ /\ win[a].maximized /\ win[a].restore # None
          /\ Put(a, win[a].restore, None, FALSE)
          /\ strayed' = IF win[a].restore = Clamped(win[a].restore, view)
                        THEN strayed ELSE strayed \cup {a}
       \/ /\ ~win[a].maximized \/ win[a].restore = None
          /\ Put(a, Filled(view), win[a].rect, TRUE)
          /\ strayed' = strayed \ {a}
    /\ slipped' = slipped \ {a}
    /\ UNCHANGED <<view, above, focused, asked>>

\* snap, at the end of a drag or from the keyboard, where a phone has it too.
Snap(a, zone) ==
    /\ Moving /\ a = focused /\ a \in Open
    /\ Put(a, SnapRect(zone, view),
           IF win[a].restore = None THEN win[a].rect ELSE win[a].restore, zone = "maximize")
    /\ strayed' = strayed \ {a} /\ slipped' = slipped \ {a}
    /\ UNCHANGED <<view, above, focused, asked>>

\* The title bar is not beyond the right edge, under the taskbar or below the screen;
\* and not beyond the left edge.
OnScreen(r) == r.x < view.w /\ Bar <= r.y /\ r.y < view.h
InSight(r) == 0 < r.x + r.width
Slip(a, r) == slipped' = IF InSight(r) THEN slipped \ {a} ELSE slipped \cup {a}

\* setRect, by hand: the press focuses the window first. One that strayed is back
\* once its title bar is on the screen.
Placed(a, r) ==
    /\ Moving /\ Shown(a) /\ ~win[a].maximized /\ ~OnPhone(view)
    /\ Put(a, r, None, FALSE)
    /\ focused' = a /\ above' = Raise(a)
    /\ strayed' = IF OnScreen(r) /\ InSight(r) THEN strayed \ {a} ELSE strayed
    /\ UNCHANGED <<view, asked>>

\* To the left there is no bound but where the pointer goes, and it is captured: it
\* may leave the screen.
Drag(a, p) ==
    /\ a \in Open
    /\ LET r == [win[a].rect EXCEPT
                   !.x = Least(view.w - 1, p.x),
                   !.y = Most(Bar, Least(view.h - 1, p.y))]
       IN  Placed(a, r) /\ Slip(a, r)

\* A pull at an edge, or at two, to where the pointer is.
Pulls == {{"n"}, {"s"}, {"e"}, {"w"}, {"n", "e"}, {"n", "w"}, {"s", "e"}, {"s", "w"}}
Stretched(r, p, dir) ==
    LET width == IF "e" \in dir THEN Most(1, p.x + 1 - r.x)
                 ELSE IF "w" \in dir THEN Most(1, r.x + r.width - p.x) ELSE r.width
        height == IF "s" \in dir THEN Most(1, p.y + 1 - r.y)
                  ELSE IF "n" \in dir THEN Most(1, r.y + r.height - p.y) ELSE r.height
    IN  [width |-> width, height |-> height,
         x |-> IF "w" \in dir THEN r.x + r.width - width ELSE r.x,
         y |-> IF "n" \in dir THEN Most(Bar, r.y + r.height - height) ELSE r.y]
Resize(a, p, dir) ==
    /\ p.x \in 0 .. view.w - 1 /\ p.y \in 0 .. view.h - 1
    /\ a \in Open
    /\ LET r == Stretched(win[a].rect, p, dir)
       IN  /\ Placed(a, r)
           /\ slipped' = IF InSight(r) THEN slipped \ {a} ELSE slipped

\* setRect, by the app in the window: its size, within the viewport's. It stays where
\* it is, so one that hangs over the left edge may be left beyond it.
RequestSize(a, size) ==
    /\ Moving /\ Shown(a)
    /\ LET r == [win[a].rect EXCEPT !.width = Least(size.w, view.w),
                                    !.height = Least(size.h, view.h - Bar)]
       IN  Put(a, r, None, FALSE) /\ Slip(a, r)
    /\ UNCHANGED <<view, above, focused, asked, strayed>>

\* The viewport changes, and Desktop's effect calls reflow at once.
ResizeViewport(v) ==
    /\ Moving /\ v # view
    /\ view' = v
    /\ \/ OnPhone(v) /\ UNCHANGED win
       \/ /\ ~OnPhone(v)
          /\ win' \in [Apps -> UNION {Reflowed(win[a], v, OnPhone(view)) : a \in Open} \cup {None}]
          /\ \A a \in Apps : IF a \in Open THEN win'[a] \in Reflowed(win[a], v, OnPhone(view))
                             ELSE win'[a] = None
    /\ strayed' = IF OnPhone(v) THEN strayed ELSE {}
    /\ slipped' = IF OnPhone(v) THEN slipped ELSE {}
    /\ UNCHANGED <<above, focused, asked>>

-----------------------------------------------------------------------------
\* The close button: requestWindowClose, and askBeforeClose of a guarded app.
PressClose(a) ==
    /\ Shown(a) /\ a \in Lively /\ a \notin asked
    /\ asked' = asked \cup {a}
    /\ UNCHANGED <<view, win, above, focused, strayed, slipped, moves>>

Closing(a) ==
    /\ win' = [win EXCEPT ![a].closing = TRUE]
    /\ focused' = NextFocus(a)
    /\ asked' = asked \ {a}
    /\ UNCHANGED <<view, above, strayed, slipped, moves>>

\* The app says yes, or there was nothing to ask.
Allowed(a) == a \in asked \ (Silent \cap Guarded) /\ Closing(a)

\* The app says no.
Declined(a) ==
    /\ a \in asked \cap (Guarded \ Silent)
    /\ asked' = asked \ {a}
    /\ UNCHANGED <<view, win, above, focused, strayed, slipped, moves>>

\* Nobody answered in time.
TimesOutKept(a) ==               \* mutant: no answer counts as a no
    /\ a \in asked \cap Guarded
    /\ asked' = asked \ {a}
    /\ UNCHANGED <<view, win, above, focused, strayed, slipped, moves>>
TimesOut(a) == a \in asked \cap Guarded /\ Closing(a)

\* The phone's switcher, and the end of a session, ask nobody.
CloseOutright(a) == a \in Lively /\ Closing(a)

\* The animation is over.
Removed(a) ==
    /\ a \in Open \ Lively
    /\ win' = [win EXCEPT ![a] = None]
    /\ above' = Behind(a)
    /\ focused' = IF focused = a THEN Gone ELSE focused
    /\ asked' = asked \ {a} /\ strayed' = strayed \ {a} /\ slipped' = slipped \ {a}
    /\ UNCHANGED <<view, moves>>

-----------------------------------------------------------------------------
Init ==
    /\ view \in Sizes
    /\ win = [a \in Apps |-> None]
    /\ above = {} /\ focused = None /\ asked = {} /\ strayed = {}
    /\ slipped = {} /\ moves = 0

Next ==
    \/ \E a \in Apps :
          \/ OpenApp(a) \/ Focus(a) \/ Minimize(a) \/ ToggleMaximize(a)
          \/ \E zone \in Zones : Snap(a, zone)
          \/ \E p \in Points : Drag(a, p) \/ \E dir \in Pulls : Resize(a, p, dir)
          \/ \E size \in Sizes : RequestSize(a, size)
          \/ PressClose(a) \/ Allowed(a) \/ Declined(a) \/ TimesOut(a)
          \/ CloseOutright(a) \/ Removed(a)
    \/ \E step \in {-1, 1} : Cycle(step)
    \/ \E v \in Sizes : ResizeViewport(v)

\* The two timers come to their end.
Fairness == \A a \in Apps : WF_windowsVars(TimesOut(a)) /\ WF_windowsVars(Removed(a))

FairSpec == Init /\ [][Next]_windowsVars /\ Fairness

-----------------------------------------------------------------------------
\* Desktop.tsx:40: "Keep every window reachable when the viewport changes".
\* Wherever windows were dragged, pulled, snapped or left by a phone, the title
\* bar of each is under no taskbar, and neither below the screen nor to the right
\* of it, except of one restored to where a larger screen, or a phone, had it. Nor is
\* it to the left, where Window.tsx:61 has no bound, except of one that was dragged
\* there with the pointer off the screen, or hung over the edge when its app made it
\* narrower. Of both exceptions none is left after the next change of the viewport.
Reachable ==
    ~OnPhone(view) => \A a \in Open \ strayed :
        Shown(a) => OnScreen(win[a].rect) /\ (a \in slipped \/ InSight(win[a].rect))

\* The same of every window: geometry saved before a change of the viewport is
\* restored after it as it was.
AlwaysReachable == ~OnPhone(view) => \A a \in Open : Shown(a) => OnScreen(win[a].rect)

\* The window that the keyboard acts on is the one in front of all that are shown,
\* those apart that are on their way out.
FocusIsInFront ==
    focused \in Lively => focused = TopMost({a \in Lively : Shown(a)})

\* app-bridge.ts:593: "An app that never answers must not be able to make its
\* window unclosable".
CloseIsServed == \A a \in Silent : (a \in asked) ~> (win[a] = None)

=============================================================================
