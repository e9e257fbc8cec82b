---------------------------- MODULE WindowHandover ----------------------------
(***************************************************************************)
(* How session tabs move between the windows of the application (App.tsx): *)
(* out of a window into one made for them (openSessionWindow), and from    *)
(* such a window into another (moveDetachedSessionToWindow), by a request, *)
(* an answer and a timer of five seconds.                                  *)
(*                                                                         *)
(* A window made for a session is labelled by it, so a window other than   *)
(* Main is named by the session it was made for.  Both calls end in        *)
(* detachSessionTab of the closure they were called from: it writes the    *)
(* list of tabs the window had then, less the one that moved.              *)
(***************************************************************************)
EXTENDS Naturals, FiniteSets

CONSTANTS Sessions,     \* terminals or file sessions, each shown by one tab at first
          Main,         \* the label of the main window
          MaxMoves      \* calls ever made

ASSUME HandoverAssumption ==
    Main \notin Sessions /\ IsFiniteSet(Sessions) /\ MaxMoves \in Nat

Windows == Sessions \cup {Main}
Quiet == [tab |-> Main, seen |-> {}, to |-> Main, step |-> "none"]

VARIABLES
    shown,      \* shown[w]: the sessions with a tab in w
    open,       \* the windows there are
    loading,    \* those of them that have not restored their session yet
    task,       \* task[w]: the call under way in w
    mail,       \* events on their way between windows
    live,       \* the sessions the backend has
    moves,      \* calls made so far
    doubled,    \* history: sessions a step may have left in two windows
    dropped     \* history: sessions a step left without a tab

handoverVars == <<shown, open, loading, task, mail, live, moves, doubled, dropped>>

HandoverInit ==
    /\ shown = [w \in Windows |-> IF w = Main THEN Sessions ELSE {}]
    /\ open = {Main}
    /\ loading = {}
    /\ task = [w \in Windows |-> Quiet]
    /\ mail = {}
    /\ live = Sessions
    /\ moves = 0
    /\ doubled = {}
    /\ dropped = {}

Begin(w, t) ==
    /\ task[w] = Quiet
    /\ moves < MaxMoves
    /\ moves' = moves + 1
    /\ task' = [task EXCEPT ![w] = t]

End(w) == task' = [task EXCEPT ![w] = Quiet]
UnderWay(s) == \E m \in mail : m.tab = s

-----------------------------------------------------------------------------
(* Faulty variants of what follows, for the properties to tell apart.      *)

\* The window gives its tab up when it has sent the request.
RequestLetsGo(w, t) ==
    /\ task[w].step = "aiming"
    /\ t \in open \ {w}
    /\ mail' = mail \cup {[kind |-> "request", from |-> w, to |-> t, tab |-> task[w].tab]}
    /\ task' = [task EXCEPT ![w].to = t, ![w].step = "asked"]
    /\ shown' = [shown EXCEPT ![w] = @ \ {task[w].tab}]
    /\ UNCHANGED <<open, loading, live, moves, doubled, dropped>>

-----------------------------------------------------------------------------
\* detachSessionTab of the captured closure, which trusts that window by shows the tab,
\* or was made to; a detached window whose captured list held one tab is destroyed,
\* whatever it shows by now.
LetGo(w, by) ==
    LET s == task[w].tab
        left == task[w].seen \ {s}
        ends == w # Main /\ Cardinality(task[w].seen) <= 1
    IN
    /\ shown' = [shown EXCEPT ![w] = IF ends THEN {} ELSE left]
    /\ open' = IF ends THEN open \ {w} ELSE open
    /\ loading' = IF ends THEN loading \ {w} ELSE loading
    /\ dropped' = dropped \cup (shown[w] \ task[w].seen) \cup (loading \ loading')
                          \cup (IF s \in shown[by] \/ (by = s /\ s \in loading) THEN {} ELSE {s})
    /\ doubled' = doubled \cup (left \ shown[w])
    /\ task' = [task EXCEPT ![w] = Quiet]

(* openSessionWindow.                                                      *)

StartOpening(w, s) ==
    /\ w \in open
    /\ s \in shown[w]
    /\ Begin(w, [tab |-> s, seen |-> shown[w], to |-> s, step |-> "looking"])
    /\ UNCHANGED <<shown, open, loading, mail, live, doubled, dropped>>

\* The session is in the window labelled by it already.
OpensItself(w) ==
    /\ task[w].step = "looking"
    /\ task[w].to = w
    /\ End(w)
    /\ UNCHANGED <<shown, open, loading, mail, live, moves, doubled, dropped>>

\* A window of that label exists: it is brought to the front, and is taken to show
\* the session.
FindsWindow(w) ==
    LET s == task[w].tab IN
    /\ task[w].step = "looking"
    /\ s \in open \ {w}
    /\ LetGo(w, s)
    /\ UNCHANGED <<mail, live, moves>>

MakesWindow(w) ==
    LET s == task[w].tab IN
    /\ task[w].step = "looking"
    /\ s \notin open
    /\ open' = open \cup {s}
    /\ loading' = loading \cup {s}
    /\ task' = [task EXCEPT ![w].step = "creating"]
    /\ UNCHANGED <<shown, mail, live, moves, doubled, dropped>>

WindowCreated(w) ==
    /\ task[w].step = "creating"
    /\ LetGo(w, task[w].tab)
    /\ UNCHANGED <<mail, live, moves>>

\* tauri://error: there is no window and the tab stays.
WindowFails(w) ==
    /\ task[w].step = "looking"
    /\ task[w].tab \notin open
    /\ End(w)
    /\ UNCHANGED <<shown, open, loading, mail, live, moves, doubled, dropped>>

\* restoreDetachedSessionTab in the new window; on an error it shows nothing.
Restores(s) ==
    /\ s \in loading
    /\ loading' = loading \ {s}
    /\ shown' = [shown EXCEPT ![s] = IF s \in live THEN {s} ELSE {}]
    /\ dropped' = dropped \cup (shown[s] \ {s})
    /\ UNCHANGED <<open, task, mail, live, moves, doubled>>

-----------------------------------------------------------------------------
(* moveDetachedSessionToWindow and the listener of the window it asks.     *)

StartMove(w, s) ==
    /\ w \in open \ {Main}
    /\ s \in shown[w]
    /\ Begin(w, [tab |-> s, seen |-> shown[w], to |-> Main, step |-> "aiming"])
    /\ UNCHANGED <<shown, open, loading, mail, live, doubled, dropped>>

\* The window under the pointer, or the main one.
Request(w, t) ==
    /\ task[w].step = "aiming"
    /\ t \in open \ {w}
    /\ mail' = mail \cup {[kind |-> "request", from |-> w, to |-> t, tab |-> task[w].tab]}
    /\ task' = [task EXCEPT ![w].to = t, ![w].step = "asked"]
    /\ UNCHANGED <<shown, open, loading, live, moves, doubled, dropped>>

\* attachDetachedSessionTab, then the answer.
Attach(m) ==
    LET ok == m.tab \in live IN
    /\ m.kind = "request"
    /\ m.to \in open
    /\ shown' = [shown EXCEPT ![m.to] = IF ok THEN @ \cup {m.tab} ELSE @]
    /\ mail' = (mail \ {m}) \cup {[kind |-> IF ok THEN "ok" ELSE "error",
                                   from |-> m.to, to |-> m.from, tab |-> m.tab]}
    /\ UNCHANGED <<open, loading, task, live, moves, doubled, dropped>>

\* The listener of the source knows the answer by the tab it names.
Answered(w, m) == m.to = w /\ m.tab = task[w].tab /\ task[w].step = "asked"

Moved(w, m) ==
    /\ Answered(w, m)
    /\ m.kind = "ok"
    /\ LetGo(w, m.from)
    /\ mail' = mail \ {m}
    /\ UNCHANGED <<live, moves>>

Refused(w, m) ==
    /\ Answered(w, m)
    /\ m.kind = "error"
    /\ End(w)
    /\ mail' = mail \ {m}
    /\ UNCHANGED <<shown, open, loading, live, moves, doubled, dropped>>

\* No answer within five seconds: the tab stays.
TimesOut(w) ==
    /\ task[w].step = "asked"
    /\ doubled' = IF UnderWay(task[w].tab) THEN doubled \cup {task[w].tab} ELSE doubled
    /\ End(w)
    /\ UNCHANGED <<shown, open, loading, mail, live, moves, dropped>>

\* An event for a window that is gone, or an answer nobody waits for.
Unheard(m) ==
    /\ m.to \notin open \/ (m.kind # "request" /\ ~Answered(m.to, m))
    /\ mail' = mail \ {m}
    /\ UNCHANGED <<shown, open, loading, task, live, moves, doubled, dropped>>

-----------------------------------------------------------------------------
\* The user closes a detached window, with the tabs it shows.
CloseWindow(w) ==
    /\ w \in open \ {Main}
    /\ open' = open \ {w}
    /\ loading' = loading \ {w}
    /\ task' = [task EXCEPT ![w] = Quiet]
    /\ shown' = [shown EXCEPT ![w] = {}]
    /\ dropped' = dropped \cup shown[w] \cup (loading \cap {w})
    /\ UNCHANGED <<mail, live, moves, doubled>>

\* The server or the user ends the session.
SessionEnds(s) ==
    /\ live' = live \ {s}
    /\ UNCHANGED <<shown, open, loading, task, mail, moves, doubled, dropped>>

HandoverNext ==
    \/ \E w \in Windows :
        \/ \E s \in Sessions : StartOpening(w, s) \/ StartMove(w, s)
        \/ OpensItself(w) \/ FindsWindow(w) \/ MakesWindow(w)
        \/ WindowCreated(w) \/ WindowFails(w)
        \/ \E t \in Windows : Request(w, t)
        \/ \E m \in mail : Moved(w, m) \/ Refused(w, m)
        \/ TimesOut(w) \/ CloseWindow(w)
    \/ \E s \in Sessions : Restores(s) \/ SessionEnds(s)
    \/ \E m \in mail : Attach(m) \/ Unheard(m)

HandoverSpec == HandoverInit /\ [][HandoverNext]_handoverVars

-----------------------------------------------------------------------------
Handing(w, s) == task[w].tab = s /\ task[w].step \in {"creating", "asked"}

\* At most one window shows a session, except while its old window is about to give
\* it up, or when a move was given up with its request or answer still on the way, or
\* an old list of tabs was written back.
ShownOnce ==
    \A s \in Sessions \ doubled : \A v, w \in Windows :
        v # w /\ s \in shown[v] \cap shown[w] => Handing(v, s) \/ Handing(w, s)

\* A live session is shown by some window, or one is loading it, unless its window was
\* closed or a step that trusts an old list or an old label dropped it.
SomewhereShown ==
    \A s \in live \ dropped :
        s \in loading \/ (\E w \in open : s \in shown[w])

\* A session that is handed over is shown in one window, and never in none.
HandedOver == ShownOnce /\ SomewhereShown
=============================================================================
