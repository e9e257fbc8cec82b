------------------------------ MODULE SessionTabs ------------------------------
(***************************************************************************)
(* The session tabs of one window: the handlers of usePortivaWorkspace     *)
(* that open, reconnect, close, split, detach and take back tabs, and what *)
(* they hold of the backend.                                               *)
(*                                                                         *)
(* A handler is a chain of awaits; a slot of Calls is one handler under    *)
(* way, with what its closure captured when it was called.  An action is   *)
(* the answer the handler awaits together with all it does up to its next  *)
(* await.  tabs is React's state: an updater function sees the latest      *)
(* value, a closure the value of the render it was made in.  Tabs are a    *)
(* set here; their order is the concern of AppTabs.                        *)
(***************************************************************************)
EXTENDS Naturals, FiniteSets

CONSTANTS Calls,        \* handlers under way at once
          Protocols,    \* the profiles: one of each protocol used
          MaxId,        \* connections, terminals and file sessions ever made
          MaxStarts,    \* handlers ever started
          MaxPanes      \* maximumSshTerminalPanes

ASSUME TabsAssumption ==
    /\ Protocols \subseteq {"ssh", "sftp", "raw", "shell"}  \* raw: telnet, raw-tcp
    /\ MaxId \in Nat /\ MaxStarts \in Nat
    /\ MaxPanes \in Nat

VARIABLES
    tabs,       \* sessionTabs
    active,     \* activeSessionTabId, 0 for none
    conns,      \* the connections open in the backend
    terms,      \* its terminals, as <<terminal, connection>>
    made,       \* the last id the backend handed out
    calls,      \* calls[i]: the handler in slot i
    starts,     \* handlers started so far
    away,       \* the tabs shown by other windows
    lost        \* history: what a handler dropped without releasing it

tabVars == <<tabs, active, conns, terms, made, calls, starts, away, lost>>

Tab(id, prof, file, conn, prim, parent) ==
    [id |-> id, prof |-> prof, file |-> file, conn |-> conn, up |-> TRUE,
     prim |-> prim, extra |-> {}, parent |-> parent]

NoTab == Tab(0, "shell", FALSE, 0, 0, 0)

\* op: what is awaited; goal: for which handler; seen, mine: sessionTabs and
\* "is the active tab" as captured; old, new: terminals.
Idle == [op |-> "idle", goal |-> "none", prof |-> "shell", tab |-> NoTab, side |-> NoTab,
         seen |-> {}, mine |-> FALSE, conn |-> 0, old |-> 0, new |-> 0]

Panes(t) == ({t.prim} \cup t.extra) \ {0}
HeldBy(ts) == UNION {{t.conn} \cup Panes(t) : t \in ts}
WithId(id) == {t \in tabs : t.id = id}
Overwritten(i) == HeldBy(tabs) \ HeldBy(calls[i].seen)

\* What a handler keeps of the tab it was called for.
Named(t) == [NoTab EXCEPT !.id = t.id, !.conn = t.conn]

Await(i, call) == calls' = [calls EXCEPT ![i] = call] /\ UNCHANGED starts

\* A handler is called, and runs until its first await.
Start(i, call) ==
    /\ calls[i] = Idle
    /\ starts < MaxStarts
    /\ calls' = [calls EXCEPT ![i] = call]
    /\ starts' = starts + 1
    /\ UNCHANGED <<tabs, active, conns, terms, made, away, lost>>

Disconnected(t) == [t EXCEPT !.up = FALSE, !.prim = 0, !.extra = {}]
MarkDisconnected(c) ==
    {IF t.conn = c \/ t.parent = c THEN Disconnected(t) ELSE t : t \in tabs}

\* terminal_close of the panes, then connection_close.
Released(c, panes) ==
    /\ conns' = conns \ {c}
    /\ terms' = {p \in terms : p[1] \notin panes /\ p[2] # c}

TabsInit ==
    /\ tabs = {}
    /\ active = 0
    /\ conns = {}
    /\ terms = {}
    /\ made = 0
    /\ calls = [i \in Calls |-> Idle]
    /\ starts = 0
    /\ away = {}
    /\ lost = {}

-----------------------------------------------------------------------------
(* Faulty variants of what follows, for the properties to tell apart.      *)

\* The tab reconnected is inserted beside the one it replaces.
ShowAgainInserts(i, new) ==
    /\ tabs' = {u \in tabs : u.parent # calls[i].tab.conn} \cup {new}
    /\ active' = calls[i].tab.id
    /\ calls' = [calls EXCEPT ![i] = Idle]
    /\ UNCHANGED <<starts, away, lost>>

-----------------------------------------------------------------------------
(* openProfileConnection, openLocalShellTab and openWslShellTab.           *)

Fresh(n) == made + n <= MaxId /\ made' = made + n

StartOpen(i, p) ==
    /\ p # "shell"
    /\ Start(i, [Idle EXCEPT !.op = "opening", !.goal = "new", !.prof = p])

StartShell(i) ==
    /\ "shell" \in Protocols
    /\ Start(i, [Idle EXCEPT !.op = "openingShell", !.goal = "new"])

\* connectionOpen answers, for any of the handlers that open a connection.
Opened(i) ==
    /\ calls[i].op = "opening"
    /\ Fresh(1)
    /\ conns' = conns \cup {made + 1}
    /\ Await(i, [calls[i] EXCEPT
                    !.op = IF calls[i].prof = "raw" THEN "attaching" ELSE "loggingIn",
                    !.conn = made + 1])
    /\ UNCHANGED <<tabs, active, terms, away, lost>>

OpenRefused(i) ==
    /\ calls[i].op \in {"opening", "openingShell"}
    /\ Await(i, Idle)
    /\ UNCHANGED <<tabs, active, conns, terms, made, away, lost>>

SignedIn(i) ==
    /\ calls[i].op = "loggingIn"
    /\ Await(i, [calls[i] EXCEPT
                    !.op = IF calls[i].prof = "sftp" \/ calls[i].goal = "files"
                           THEN "openingFiles" ELSE "attaching"])
    /\ UNCHANGED <<tabs, active, conns, terms, made, away, lost>>

\* A login or a file session fails: the catch closes the connection.
Fails(i) ==
    /\ calls[i].op \in {"loggingIn", "openingFiles"}
    /\ Await(i, [calls[i] EXCEPT !.op = "dropping"])
    /\ UNCHANGED <<tabs, active, conns, terms, made, away, lost>>

Dropped(i) ==
    /\ calls[i].op = "dropping"
    /\ Released(calls[i].conn, {})
    /\ Await(i, Idle)
    /\ UNCHANGED <<tabs, active, made, away, lost>>

\* The new tab is appended and made the active one.
Show(i, t) ==
    /\ tabs' = {u \in tabs : u.conn # t.conn} \cup {t}
    /\ active' = t.id
    /\ Await(i, Idle)
    /\ UNCHANGED <<away, lost>>

FilesOpened(i) ==
    LET c == calls[i].conn IN
    /\ calls[i].op = "openingFiles"
    /\ calls[i].goal = "new"
    /\ c \in conns
    /\ Show(i, Tab(c, "sftp", TRUE, c, 0, 0))
    /\ UNCHANGED <<conns, terms, made>>

Attached(i) ==
    LET c == calls[i].conn IN
    /\ calls[i].op = "attaching"
    /\ calls[i].goal = "new"
    /\ c \in conns
    /\ Fresh(1)
    /\ terms' = terms \cup {<<made + 1, c>>}
    /\ Show(i, Tab(c, calls[i].prof, FALSE, c, made + 1, 0))
    /\ UNCHANGED conns

\* An SSH tab is shown without its terminal.
AttachedLater(i) ==
    LET c == calls[i].conn IN
    /\ calls[i].op = "attaching"
    /\ calls[i].goal = "new"
    /\ calls[i].prof = "ssh"
    /\ Show(i, Tab(c, "ssh", FALSE, c, 0, 0))
    /\ UNCHANGED <<conns, terms, made>>

\* A telnet or raw TCP connection is nothing without its terminal.
AttachFails(i) ==
    /\ calls[i].op = "attaching"
    /\ calls[i].prof = "raw"
    /\ Await(i, [calls[i] EXCEPT !.op = "dropping"])
    /\ UNCHANGED <<tabs, active, conns, terms, made, away, lost>>

ShellOpened(i) ==
    /\ calls[i].op = "openingShell"
    /\ calls[i].goal = "new"
    /\ Fresh(2)
    /\ conns' = conns \cup {made + 1}
    /\ terms' = terms \cup {<<made + 2, made + 1>>}
    /\ Show(i, Tab(made + 1, "shell", FALSE, made + 1, made + 2, 0))

-----------------------------------------------------------------------------
(* reconnectSessionTab.                                                    *)

StartReconnect(i, t) ==
    /\ ~t.file
    /\ Start(i, [Idle EXCEPT !.op = "closingOld", !.goal = "again", !.prof = t.prof,
                             !.tab = t])

OldClosed(i) ==
    LET t == calls[i].tab IN
    /\ calls[i].op = "closingOld"
    /\ calls[i].goal = "again"
    /\ Released(t.conn, Panes(t))
    /\ tabs' = MarkDisconnected(t.conn)
    /\ Await(i, [calls[i] EXCEPT
                    !.op = IF t.prof = "shell" THEN "openingShell" ELSE "opening"])
    /\ UNCHANGED <<active, made, away, lost>>

\* The tab keeps its id and its place; the SFTP tabs of the old connection go.
\* What another handler had put in that place is lost.
ShowAgain(i, new) ==
    LET t == calls[i].tab IN
    /\ tabs' = {u \in tabs : u.id # t.id /\ u.parent # t.conn} \cup {new}
    /\ active' = t.id
    /\ lost' = lost \cup (HeldBy(WithId(t.id)) \ {t.conn})
    /\ Await(i, Idle)
    /\ UNCHANGED away

AttachedAgain(i) ==
    LET c == calls[i].conn IN
    /\ calls[i].op = "attaching"
    /\ calls[i].goal = "again"
    /\ c \in conns
    /\ Fresh(1)
    /\ terms' = terms \cup {<<made + 1, c>>}
    /\ ShowAgain(i, Tab(calls[i].tab.id, calls[i].prof, FALSE, c, made + 1, 0))
    /\ UNCHANGED conns

AttachedLaterAgain(i) ==
    /\ calls[i].op = "attaching"
    /\ calls[i].goal = "again"
    /\ calls[i].prof = "ssh"
    /\ ShowAgain(i, Tab(calls[i].tab.id, "ssh", FALSE, calls[i].conn, 0, 0))
    /\ UNCHANGED <<conns, terms, made>>

\* A shell has no SFTP tabs: only the tab itself is replaced.
ShellOpenedAgain(i) ==
    LET t == calls[i].tab IN
    /\ calls[i].op = "openingShell"
    /\ calls[i].goal = "again"
    /\ Fresh(2)
    /\ conns' = conns \cup {made + 1}
    /\ terms' = terms \cup {<<made + 2, made + 1>>}
    /\ tabs' = {u \in tabs : u.id # t.id}
                   \cup {Tab(t.id, "shell", FALSE, made + 1, made + 2, 0)}
    /\ active' = t.id
    /\ lost' = lost \cup (HeldBy(WithId(t.id)) \ {t.conn})
    /\ Await(i, Idle)
    /\ UNCHANGED away

-----------------------------------------------------------------------------
(* closeConnection.                                                        *)

StartClose(i, t) ==
    /\ Start(i, [Idle EXCEPT !.op = "closing", !.tab = t, !.seen = tabs,
                             !.mine = (active = t.id)])

\* The neighbour of a closed or detached active tab is the next one.
ActivateNext(i, remaining) ==
    IF ~calls[i].mine THEN UNCHANGED active
    ELSE IF remaining = {} THEN active' = 0
    ELSE \E n \in remaining : active' = n.id

\* What is left of the tabs the closure saw, an SSH tab taking its SFTP tabs along.
Remaining(i) ==
    {t \in calls[i].seen :
        t.id # calls[i].tab.id /\ (calls[i].tab.file \/ t.parent # calls[i].tab.conn)}

Closed(i) ==
    LET t == calls[i].tab IN
    /\ calls[i].op = "closing"
    /\ IF t.file /\ t.parent # 0 THEN UNCHANGED <<conns, terms>>
                                 ELSE Released(t.conn, Panes(t))
    /\ tabs' = Remaining(i)
    /\ ActivateNext(i, Remaining(i))
    /\ lost' = lost \cup Overwritten(i)
    /\ Await(i, Idle)
    /\ UNCHANGED <<made, away>>

\* connectionClose fails after the terminals were closed: the tab stays.
CloseFails(i) ==
    /\ calls[i].op = "closing"
    /\ terms' = {p \in terms : p[1] \notin Panes(calls[i].tab)}
    /\ Await(i, Idle)
    /\ UNCHANGED <<tabs, active, conns, made, away, lost>>

-----------------------------------------------------------------------------
(* Tabs in windows of their own: detachSessionTab called when App.tsx has  *)
(* opened the other window, attachDetachedSessionTab when it gives it back.*)

Restorable(t) ==
    IF t.parent # 0 THEN t.parent \in conns
    ELSE t.conn \in conns /\ \A x \in Panes(t) : <<x, t.conn>> \in terms

StartDetach(i, t) ==
    /\ t.up /\ (t.file \/ t.prim # 0)
    /\ Start(i, [Idle EXCEPT !.op = "detaching", !.tab = t, !.seen = tabs,
                             !.mine = (active = t.id)])

\* A window that is already there for the tab is shown as it is.
Detached(i) ==
    LET t == calls[i].tab
        left == calls[i].seen \ {t}
        there == \E a \in away : a.id = t.id
    IN
    /\ calls[i].op = "detaching"
    /\ tabs' = left
    /\ away' = IF there THEN away ELSE away \cup {t}
    /\ ActivateNext(i, left)
    /\ lost' = lost \cup Overwritten(i) \cup (IF there THEN HeldBy({t}) ELSE {})
    /\ Await(i, Idle)
    /\ UNCHANGED <<conns, terms, made>>

DetachFails(i) ==
    /\ calls[i].op = "detaching"
    /\ Await(i, Idle)
    /\ UNCHANGED <<tabs, active, conns, terms, made, away, lost>>

TakeBack(a) ==
    /\ tabs' = {u \in tabs : u.id # a.id} \cup {a}
    /\ active' = a.id
    /\ away' = away \ {a}
    /\ lost' = lost \cup HeldBy(WithId(a.id))
    /\ UNCHANGED <<conns, terms, made, calls, starts>>

\* The other window closes the tab.
AwayCloses(a) ==
    /\ IF a.parent # 0 THEN UNCHANGED <<conns, terms>> ELSE Released(a.conn, Panes(a))
    /\ away' = away \ {a}
    /\ UNCHANGED <<tabs, active, made, calls, starts, lost>>

\* restoreDetachedSessionTab fails in the other window: it shows no tab at all.
AwayFails(a) ==
    /\ ~Restorable(a)
    /\ away' = away \ {a}
    /\ lost' = lost \cup HeldBy({a})
    /\ UNCHANGED <<tabs, active, conns, terms, made, calls, starts>>

-----------------------------------------------------------------------------
(* The terminals of an SSH tab: splitSshTerminal, closeSshTerminalPane and *)
(* setSshX11Forwarding, which read the latest tabs from sessionTabsRef.    *)

StartSplit(i, t, x) ==
    /\ t.prof = "ssh" /\ t.prim # 0
    /\ Cardinality(Panes(t)) < MaxPanes
    /\ Start(i, [Idle EXCEPT !.op = "splitting", !.tab = Named(t), !.old = x])

HasRoom(t) == t.prim # 0 /\ Cardinality(Panes(t)) < MaxPanes

\* The pane to split is still there.
StillShown(i) == \E t \in WithId(calls[i].tab.id) : calls[i].old \in Panes(t)

\* A tab that filled up while the terminal was attached keeps its panes, and the
\* new terminal stays open behind it.
Insert(i, n) ==
    LET full == {t \in WithId(calls[i].tab.id) : ~HasRoom(t)} IN
    /\ terms' = terms \cup {<<n, calls[i].tab.conn>>}
    /\ tabs' = {IF t.id = calls[i].tab.id /\ t \notin full
                THEN [t EXCEPT !.extra = @ \cup {n}] ELSE t : t \in tabs}
    /\ lost' = lost \cup (IF full = {} THEN {} ELSE {n})

CloseAgain == UNCHANGED <<terms, tabs, lost>>

SplitAttached(i) ==
    /\ calls[i].op = "splitting"
    /\ calls[i].tab.conn \in conns
    /\ Fresh(1)
    /\ IF StillShown(i) THEN Insert(i, made + 1) ELSE CloseAgain
    /\ Await(i, Idle)
    /\ UNCHANGED <<active, conns, away>>

StartClosePane(i, t, x) ==
    LET promoted == IF x = t.prim THEN t.extra ELSE {0} IN
    /\ t.prof = "ssh"
    /\ Cardinality(Panes(t)) > 1
    /\ \E n \in promoted :
           Start(i, [Idle EXCEPT !.op = "closingPane", !.tab = Named(t), !.old = x, !.new = n])

\* The pane to promote was chosen before the await.
WithoutPane(t, x, promoted) ==
    IF t.prim = x /\ promoted # 0
    THEN [t EXCEPT !.prim = promoted, !.extra = @ \ {promoted}]
    ELSE [t EXCEPT !.extra = @ \ {x}]

PaneClosed(i) ==
    /\ calls[i].op = "closingPane"
    /\ terms' = {p \in terms : p[1] # calls[i].old}
    /\ tabs' = {IF t.id = calls[i].tab.id THEN WithoutPane(t, calls[i].old, calls[i].new)
                ELSE t : t \in tabs}
    /\ Await(i, Idle)
    /\ UNCHANGED <<active, conns, made, away, lost>>

StartX11(i, t, x) ==
    /\ t.prof = "ssh"
    /\ Start(i, [Idle EXCEPT !.op = "replacing", !.tab = Named(t), !.old = x])

X11Attached(i) ==
    LET still == \E t \in WithId(calls[i].tab.id) :
                     t.conn = calls[i].tab.conn /\ calls[i].old \in Panes(t)
    IN
    /\ calls[i].op = "replacing"
    /\ calls[i].tab.conn \in conns
    /\ Fresh(1)
    /\ IF still
       THEN /\ terms' = terms \cup {<<made + 1, calls[i].tab.conn>>}
            /\ Await(i, [calls[i] EXCEPT !.op = "closingReplaced", !.new = made + 1])
       ELSE /\ UNCHANGED terms
            /\ Await(i, Idle)
    /\ UNCHANGED <<tabs, active, conns, away, lost>>

WithPaneReplaced(t, x, n) ==
    [t EXCEPT !.prim = IF @ = x THEN n ELSE @,
              !.extra = {IF y = x THEN n ELSE y : y \in @}]

\* Nothing is replaced when the pane went while its terminal was being closed.
X11Replaced(i) ==
    LET x == calls[i].old
        n == calls[i].new
    IN
    /\ calls[i].op = "closingReplaced"
    /\ terms' = {p \in terms : p[1] # x}
    /\ tabs' = {IF t.id = calls[i].tab.id THEN WithPaneReplaced(t, x, n) ELSE t : t \in tabs}
    /\ lost' = lost \cup (IF StillShown(i) THEN {} ELSE {n})
    /\ Await(i, Idle)
    /\ UNCHANGED <<active, conns, made, away>>

\* No terminal was attached: the handler reports it and ends.
PaneCallFails(i) ==
    /\ calls[i].op \in {"splitting", "replacing"}
    /\ Await(i, Idle)
    /\ UNCHANGED <<tabs, active, conns, terms, made, away, lost>>

-----------------------------------------------------------------------------
(* openFileTransferTab and reconnectActiveFileTransfer.                    *)

FileTabOf(t) == {u \in tabs : u.file /\ u.up /\ (u.parent = t.conn \/ u.conn = t.conn)}

StartFiles(i, t) ==
    /\ t.prof = "ssh" /\ ~t.file /\ t.up
    /\ Start(i, [Idle EXCEPT !.op = "openingChild", !.tab = Named(t)])

\* Without forceNew the SFTP tab that is already there is shown.
ShowFiles(t) ==
    /\ t.prof = "ssh" /\ ~t.file /\ t.up
    /\ \E u \in FileTabOf(t) : active' = u.id
    /\ UNCHANGED <<tabs, conns, terms, made, calls, starts, away, lost>>

ChildOpened(i) ==
    LET c == calls[i].tab.conn IN
    /\ calls[i].op = "openingChild"
    /\ c \in conns
    /\ Fresh(1)
    /\ tabs' = tabs \cup {Tab(made + 1, "ssh", TRUE, made + 1, 0, c)}
    /\ active' = made + 1
    /\ Await(i, Idle)
    /\ UNCHANGED <<conns, terms, away, lost>>

ChildFails(i) ==
    /\ calls[i].op = "openingChild"
    /\ Await(i, Idle)
    /\ UNCHANGED <<tabs, active, conns, terms, made, away, lost>>

\* A refresh of the active SFTP tab failed; its SSH tab is looked up by the id of
\* the connection.
StartRefile(i, t) ==
    /\ t.file /\ t.id = active
    /\ \E s \in IF t.parent = 0 THEN {t} ELSE WithId(t.parent) :
           Start(i, [Idle EXCEPT !.op = "closingOld", !.goal = "files", !.prof = s.prof,
                                 !.tab = t, !.side = s])

RefileClosed(i) ==
    LET s == calls[i].side IN
    /\ calls[i].op = "closingOld"
    /\ calls[i].goal = "files"
    /\ Released(s.conn, {s.prim})
    /\ tabs' = MarkDisconnected(s.conn)
    /\ Await(i, [calls[i] EXCEPT !.op = "opening"])
    /\ UNCHANGED <<active, made, away, lost>>

\* The source and the file tab are replaced where they are; nothing is inserted.
\* n is the terminal of the source tab, f the new file session.
Refiled(i, n, f) ==
    LET t == calls[i].tab
        s == calls[i].side
        c == calls[i].conn
        newFile == IF t.parent = 0 THEN Tab(c, "sftp", TRUE, c, 0, 0)
                                   ELSE Tab(f, "ssh", TRUE, f, 0, c)
        newSource == [s EXCEPT !.id = c, !.conn = c, !.up = TRUE, !.prim = n]
        replaced == WithId(t.id) \cup WithId(s.id)
    IN
    /\ tabs' = {IF u.id = s.id /\ t.parent # 0 THEN newSource
                ELSE IF u.id = t.id THEN newFile ELSE u : u \in tabs}
    /\ active' = newFile.id
    /\ lost' = lost \cup (HeldBy(replaced) \ {s.conn})
                    \cup (IF WithId(s.id) = {} THEN {c, n} ELSE {})
    /\ Await(i, Idle)
    /\ UNCHANGED <<conns, away>>

RefiledRoot(i) ==
    /\ calls[i].op = "openingFiles"
    /\ calls[i].goal = "files"
    /\ calls[i].tab.parent = 0
    /\ calls[i].conn \in conns
    /\ Refiled(i, 0, 0)
    /\ UNCHANGED <<terms, made>>

RefiledChild(i) ==
    /\ calls[i].op = "openingFiles"
    /\ calls[i].goal = "files"
    /\ calls[i].tab.parent # 0
    /\ calls[i].conn \in conns
    /\ \/ /\ Fresh(2)
          /\ terms' = terms \cup {<<made + 2, calls[i].conn>>}
          /\ Refiled(i, made + 2, made + 1)
       \/ /\ Fresh(1)
          /\ UNCHANGED terms
          /\ Refiled(i, 0, made + 1)

-----------------------------------------------------------------------------
(* deleteProfile and switchSessionTab.                                     *)

StartDelete(i, p) ==
    /\ p # "shell"
    /\ Start(i, [Idle EXCEPT !.op = "deleting", !.prof = p])

\* The tabs of the profile go; their connections are not closed.
Deleted(i) ==
    LET gone == {t \in tabs : t.prof = calls[i].prof} IN
    /\ calls[i].op = "deleting"
    /\ tabs' = tabs \ gone
    /\ active' = 0
    /\ lost' = lost \cup HeldBy(gone)
    /\ Await(i, Idle)
    /\ UNCHANGED <<conns, terms, made, away>>

Switch(t) ==
    /\ active' = t.id
    /\ UNCHANGED <<tabs, conns, terms, made, calls, starts, away, lost>>

-----------------------------------------------------------------------------
OpenStep(i) ==
    \/ \E p \in Protocols : StartOpen(i, p)
    \/ StartShell(i) \/ Opened(i) \/ OpenRefused(i) \/ SignedIn(i) \/ Fails(i) \/ Dropped(i)
    \/ FilesOpened(i) \/ Attached(i) \/ AttachedLater(i) \/ AttachFails(i) \/ ShellOpened(i)

TabStep(i) ==
    \/ \E t \in tabs : \/ StartReconnect(i, t) \/ StartClose(i, t) \/ StartDetach(i, t)
                       \/ StartFiles(i, t) \/ StartRefile(i, t)
    \/ OldClosed(i) \/ AttachedAgain(i) \/ AttachedLaterAgain(i) \/ ShellOpenedAgain(i)
    \/ Closed(i) \/ CloseFails(i) \/ Detached(i) \/ DetachFails(i)
    \/ ChildOpened(i) \/ ChildFails(i) \/ RefileClosed(i) \/ RefiledRoot(i) \/ RefiledChild(i)
    \/ \E p \in Protocols : StartDelete(i, p)
    \/ Deleted(i)

PaneStep(i) ==
    \/ \E t \in tabs : \E x \in Panes(t) :
           StartSplit(i, t, x) \/ StartClosePane(i, t, x) \/ StartX11(i, t, x)
    \/ SplitAttached(i) \/ PaneClosed(i) \/ X11Attached(i) \/ X11Replaced(i) \/ PaneCallFails(i)

TabsNext ==
    \/ \E i \in Calls : OpenStep(i) \/ TabStep(i) \/ PaneStep(i)
    \/ \E a \in away : (Restorable(a) /\ TakeBack(a)) \/ AwayCloses(a) \/ AwayFails(a)
    \/ \E t \in tabs : ShowFiles(t) \/ Switch(t)

TabsSpec == TabsInit /\ [][TabsNext]_tabVars

-----------------------------------------------------------------------------
(* What must hold.                                                         *)

\* Whatever handlers overtake each other, and whichever of them writes back a list it
\* read before its awaits, no two tabs of the window have the same id or show the
\* same connection.
OneTabPerSession ==
    \A t, u \in tabs : t.id = u.id \/ t.conn = u.conn => t = u

Working(i) == {calls[i].conn, calls[i].new} \cup HeldBy({calls[i].tab, calls[i].side})

\* A connection or terminal of the backend is shown by a tab of this or another
\* window, or a handler is at work on it, or one of the handlers that overwrite,
\* replace or delete tabs without releasing them has dropped it: nothing else leaks.
OrphansAreDropped ==
    conns \cup {p[1] : p \in terms}
        \subseteq HeldBy(tabs \cup away) \cup (UNION {Working(i) : i \in Calls}) \cup lost

\* What is shown and what is connected agree, whatever calls overlap: no session has two
\* tabs, and none that was started is left without a tab, unless closing it failed.
TabsSound == OneTabPerSession /\ OrphansAreDropped
=============================================================================
