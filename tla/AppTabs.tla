-------------------------------- MODULE AppTabs --------------------------------
(***************************************************************************)
(* The tab bar of the main window (App.tsx, tabOrder.ts and                *)
(* TerminalWorkspace): the session tabs of the workspace and the pages of  *)
(* the application side by side, in the order the user gave them, dragging *)
(* a tab, and the page in a window of its own (the HTTP console).          *)
(*                                                                         *)
(* What the workspace awaits before a session tab comes or goes is in      *)
(* SessionTabs; here its answer is one step, but for one handler that      *)
(* writes back, late, the tabs of the render it was called in.             *)
(***************************************************************************)
EXTENDS Naturals, Sequences, SequencesExt, FiniteSets, Lists

CONSTANTS Pages,         \* the pages of ToolOrder that are used
          Distributions, \* WSL distributions with a file page
          SessionIds,    \* session tabs ever opened
          MaxSessions,   \* session tabs open at once
          MaxTabTurns    \* times a tab is opened, left, dragged or connected again

ToolOrder == <<"hosts", "http", "scan", "settings">>

ASSUME AppTabsAssumption ==
    /\ Pages \subseteq Range(ToolOrder) /\ "http" \in Pages
    /\ Distributions \cap SessionIds = {}
    /\ (Distributions \cup SessionIds) \cap (Range(ToolOrder) \cup {"none"}) = {}
    /\ MaxSessions \in Nat /\ MaxTabTurns \in Nat

VARIABLES
    sessionTabs,  \* the session tabs of the workspace
    opened,       \* those ever opened
    shells,       \* those of a local shell
    parents,      \* parentConnectionId of each: NoTabShown for none
    activeTab,    \* activeSessionTabId: NoTabShown for none
    unseated,     \* history: what was active went, and nothing took its place
    leaving,      \* a handler that will take a tab away, and the tabs it was called with
    tabTurns,     \* how often a tab was opened, left, dragged or connected again
    tools,        \* the pages that are open
    wslFiles,     \* wslFileDistributions
    shellTab,     \* activeShellTabId: NoTabShown for none
    bar,          \* appTabOrder
    shellOpens,   \* a local terminal is being opened
    tabDrag,      \* tabPointerDragRef
    postWindow    \* the HTTP console has a window of its own

appVars == <<sessionTabs, opened, shells, parents, activeTab, unseated, leaving, tabTurns,
             tools, wslFiles, shellTab, bar, shellOpens, tabDrag, postWindow>>

NoTabShown == "none"
NoTabDrag == [source |-> "none", active |-> FALSE, target |-> "none"]
NoLeaving == [id |-> NoTabShown, seen |-> <<>>, shown |-> NoTabShown, alone |-> FALSE]

AppInit ==
    /\ sessionTabs = <<>> /\ opened = {} /\ shells = {} /\ activeTab = NoTabShown
    /\ parents = [t \in SessionIds |-> NoTabShown] /\ unseated = FALSE /\ leaving = NoLeaving
    /\ tabTurns = 0
    /\ tools = {} /\ wslFiles = <<>> /\ shellTab = NoTabShown /\ bar = <<>>
    /\ shellOpens = FALSE /\ tabDrag = NoTabDrag /\ postWindow = FALSE

Place(order, t) == SelectInSeq(order, LAMBDA u : u = t)

\* The elements of a list that are in T, and those that are not.
Those(s, T) == Kept(s, {i \in DOMAIN s : s[i] \in T})
Others(s, T) == Kept(s, {i \in DOMAIN s : s[i] \notin T})

-----------------------------------------------------------------------------
(* Faulty variants of what follows, for the properties to tell apart.       *)

\* The order of what is open, the user's forgotten.
AppendInOrder(order, available) == available

-----------------------------------------------------------------------------
(* tabOrder.ts                                                              *)

\* appendMissingTabIds
AppendMissing(order, available) ==
    Those(order, Range(available)) \o Others(available, Range(order))

\* moveTabId
MoveTab(order, source, target, position) ==
    IF source = target \/ {source, target} \ Range(order) # {} THEN order
    ELSE LET rest == Others(order, {source})
             n    == Place(rest, target)
                       + (IF position = "after" THEN 1 ELSE 0)
         IN SubSeq(rest, 1, n - 1) \o <<source>> \o SubSeq(rest, n, Len(rest))

-----------------------------------------------------------------------------
(* What is shown.                                                           *)

\* appTabSourceIds
Sources == sessionTabs \o Those(ToolOrder, tools) \o wslFiles

\* appSessionTabs
Bar == AppendMissing(bar, Sources)

\* activeToolTabId
ActiveTool == IF shellTab \in tools \cup Range(wslFiles) THEN shellTab ELSE NoTabShown

\* fallbackAppTabId: a page only when there is no session.
Fallback ==
    IF activeTab # NoTabShown THEN activeTab
    ELSE LET all == Those(ToolOrder, tools) \o wslFiles IN
         IF all = <<>> THEN NoTabShown ELSE Head(all)

ActiveApp == IF ActiveTool # NoTabShown THEN ActiveTool ELSE Fallback

\* The effect that brings the order up to date after every change.
KeepOrder == bar' = AppendMissing(bar, Sources')

OpenSessions == <<sessionTabs, opened, shells, parents, activeTab, unseated, leaving>>
SessionSide == <<OpenSessions, tabTurns>>
PageSide == <<tools, wslFiles, shellTab>>

TabTurn == tabTurns < MaxTabTurns /\ tabTurns' = tabTurns + 1

-----------------------------------------------------------------------------
(* The pages of the application.                                            *)

\* openHttpConsoleTab and its like, by a button, the tray or a shortcut.
OpenPage(t) ==
    /\ tools' = tools \cup {t} /\ shellTab' = t /\ TabTurn
    /\ UNCHANGED <<OpenSessions, wslFiles, shellOpens, tabDrag, postWindow>> /\ KeepOrder

\* closeHttpConsoleTab and its like.
ClosePage(t) ==
    /\ t \in tools /\ tools' = tools \ {t}
    /\ shellTab' = IF shellTab = t THEN NoTabShown ELSE shellTab
    /\ UNCHANGED <<SessionSide, wslFiles, shellOpens, tabDrag, postWindow>> /\ KeepOrder

\* openWslFilesTab
OpenWslFiles(d) ==
    /\ wslFiles' = IF d \in Range(wslFiles) THEN wslFiles ELSE Append(wslFiles, d)
    /\ shellTab' = d /\ TabTurn
    /\ UNCHANGED <<OpenSessions, tools, shellOpens, tabDrag, postWindow>> /\ KeepOrder

\* closeAppSessionTab, the page of a distribution.
CloseWslFiles(d) ==
    LET remaining == Others(wslFiles, {d}) IN
    /\ d \in Range(wslFiles) /\ wslFiles' = remaining
    /\ shellTab' = IF shellTab # d THEN shellTab
                   ELSE IF activeTab # NoTabShown \/ remaining = <<>> THEN NoTabShown
                   ELSE Head(remaining)
    /\ UNCHANGED <<SessionSide, tools, shellOpens, tabDrag, postWindow>> /\ KeepOrder

\* openDetachedPostWindow: the window there is, or a new one.
MoveConsoleOut ==
    /\ "http" \in tools /\ postWindow' = TRUE
    /\ tools' = tools \ {"http"}
    /\ shellTab' = IF shellTab = "http" THEN NoTabShown ELSE shellTab
    /\ UNCHANGED <<SessionSide, wslFiles, shellOpens, tabDrag>> /\ KeepOrder

\* mergeDetachedPostWindow, and the listener of the main window.
MergeConsole ==
    /\ postWindow /\ postWindow' = FALSE
    /\ tools' = tools \cup {"http"} /\ shellTab' = "http"
    /\ UNCHANGED <<SessionSide, wslFiles, shellOpens, tabDrag>> /\ KeepOrder

\* closeDetachedPostWindow
CloseConsoleWindow ==
    /\ postWindow /\ postWindow' = FALSE
    /\ UNCHANGED <<SessionSide, PageSide, bar, shellOpens, tabDrag>>

-----------------------------------------------------------------------------
(* Session tabs.                                                            *)

\* A tab is the active one from now on.
Activate(id) == activeTab' = id /\ unseated' = FALSE

\* A connection that is made gets an id of its own, and its tab is the last.
Unused == SessionIds \ opened
NewId == CHOOSE id \in Unused : TRUE
NewSession ==
    /\ Unused # {} /\ Len(sessionTabs) < MaxSessions
    /\ opened' = opened \cup {NewId} /\ sessionTabs' = Append(sessionTabs, NewId)
    /\ Activate(NewId) /\ TabTurn /\ UNCHANGED leaving

\* openLocalTerminalTab: the page is left at once, ...
StartShellTab ==
    /\ ~shellOpens /\ Unused # {}
    /\ shellOpens' = TRUE /\ shellTab' = NoTabShown
    /\ UNCHANGED <<SessionSide, tools, wslFiles, bar, tabDrag, postWindow>>

\* ... the tab comes when the shell is there, or never.
ShellTabOpens ==
    /\ shellOpens /\ shellOpens' = FALSE
    /\ \/ NewSession /\ shells' = shells \cup {NewId} /\ UNCHANGED parents
       \/ UNCHANGED SessionSide
    /\ UNCHANGED <<PageSide, tabDrag, postWindow>> /\ KeepOrder

\* connectSavedConnection, once connected.
ConnectionOpens ==
    /\ NewSession /\ shellTab' = NoTabShown
    /\ UNCHANGED <<shells, parents, tools, wslFiles, shellOpens, tabDrag, postWindow>>
    /\ KeepOrder

\* openFileTransferTab, from the menu of a tab or from the page of the hosts, which is
\* left: the SFTP tab of a session, one that is there or a new one (the session may have
\* gone meanwhile).
FilesTabOpens(id) ==
    /\ id \in opened \ shells /\ parents[id] = NoTabShown
    /\ \/ \E c \in Range(sessionTabs) :
            /\ parents[c] = id /\ Activate(c) /\ TabTurn
            /\ UNCHANGED <<sessionTabs, opened, parents, leaving>>
       \/ NewSession /\ parents' = [parents EXCEPT ![NewId] = id]
    /\ shellTab' \in {shellTab, NoTabShown}
    /\ UNCHANGED <<shells, tools, wslFiles, shellOpens, tabDrag, postWindow>>
    /\ KeepOrder

\* attachDetachedSessionTab: a tab comes back from a window of its own, to the end.
SessionReturns(id) ==
    /\ id \in opened /\ Len(sessionTabs) < MaxSessions
    /\ sessionTabs' = Append(Others(sessionTabs, {id}), id) /\ Activate(id) /\ TabTurn
    /\ UNCHANGED <<opened, shells, parents, leaving, PageSide, shellOpens, tabDrag,
                   postWindow>>
    /\ KeepOrder

\* closeConnection takes the SFTP tabs of a session away with it; detachSessionTab does not.
Gone(id, alone) == {id} \cup (IF alone THEN {} ELSE {c \in SessionIds : parents[c] = id})

\* Which tab is next: the one before the n-th, or that in its place, or the last.
NextOf(rest, n) ==
    IF rest = <<>> THEN NoTabShown
    ELSE IF n - 1 \in DOMAIN rest THEN rest[n - 1]
    ELSE IF n \in DOMAIN rest THEN rest[n] ELSE rest[Len(rest)]

\* closeConnection and detachSessionTab, after what they await, with the tabs and the
\* active one of the render they were called in.
LeaveFrom(seen, shown, id, alone) ==
    LET rest == Others(seen, Gone(id, alone)) IN
    /\ sessionTabs' = rest
    /\ activeTab' = IF shown = id THEN NextOf(rest, Place(seen, id)) ELSE activeTab
    /\ UNCHANGED <<opened, shells, parents>>

\* An SFTP tab that goes with its session stays the active one.
Leaves(id, alone) ==
    /\ id \in Range(sessionTabs) /\ LeaveFrom(sessionTabs, activeTab, id, alone)
    /\ unseated' = (activeTab # id /\ (unseated \/ activeTab \in Gone(id, alone)))
    /\ TabTurn /\ UNCHANGED leaving

CloseSessionTab(id) ==
    /\ Leaves(id, FALSE)
    /\ UNCHANGED <<PageSide, shellOpens, tabDrag, postWindow>> /\ KeepOrder

\* The same, slowly.
StartLeaving(id, alone) ==
    /\ leaving = NoLeaving /\ id \in Range(sessionTabs)
    /\ leaving' = [id |-> id, seen |-> sessionTabs, shown |-> activeTab, alone |-> alone]
    /\ TabTurn /\ UNCHANGED <<sessionTabs, opened, shells, parents, activeTab, unseated,
                   PageSide, bar, shellOpens, tabDrag, postWindow>>

\* What came meanwhile is dropped, what went comes back.
LeavesLate ==
    /\ leaving # NoLeaving /\ leaving' = NoLeaving
    /\ LeaveFrom(leaving.seen, leaving.shown, leaving.id, leaving.alone)
    /\ unseated' = /\ leaving.shown # leaving.id
                   /\ activeTab \notin Range(sessionTabs')
                   /\ activeTab # NoTabShown \/ sessionTabs' # <<>>
    /\ UNCHANGED <<tabTurns, PageSide, shellOpens, tabDrag, postWindow>> /\ KeepOrder

\* The backend did not close it, or the window did not come.
LeavingFails ==
    /\ leaving # NoLeaving /\ leaving' = NoLeaving
    /\ UNCHANGED <<sessionTabs, opened, shells, parents, activeTab, unseated, tabTurns,
                   PageSide, bar, shellOpens, tabDrag, postWindow>>

\* deleteProfile: its tabs go, and none is active, whichever was.
DeleteProfile ==
    /\ \E gone \in SUBSET Range(sessionTabs) :
         /\ \A c \in Range(sessionTabs) : parents[c] \in gone => c \in gone
         /\ sessionTabs' = Others(sessionTabs, gone)
    /\ activeTab' = NoTabShown /\ unseated' = (sessionTabs' # <<>>) /\ TabTurn
    /\ UNCHANGED <<opened, shells, parents, leaving, PageSide, shellOpens, tabDrag, postWindow>>
    /\ KeepOrder

\* reconnectSessionTab, once connected: in the place it had when it was called, even if it
\* was closed meanwhile; its SFTP tabs go.
Reconnects(id) ==
    /\ id \in opened /\ parents[id] = NoTabShown
    /\ \E n \in 1 .. Len(sessionTabs) + 1 :
         LET rest  == Others(sessionTabs, Gone(id, FALSE))
             place == IF n <= Len(rest) + 1 THEN n ELSE Len(rest) + 1
         IN /\ Len(rest) < MaxSessions
            /\ sessionTabs' = SubSeq(rest, 1, place - 1) \o <<id>> \o SubSeq(rest, place, Len(rest))
    /\ Activate(id) /\ TabTurn /\ UNCHANGED <<opened, shells, parents, leaving>>

ReconnectTab(id) ==
    /\ Reconnects(id)
    /\ UNCHANGED <<PageSide, shellOpens, tabDrag, postWindow>> /\ KeepOrder

\* reconnectActiveFileTransfer: an SFTP tab gets the id of its new connection.
FilesReconnect(id) ==
    /\ id \in Range(sessionTabs) \ shells /\ parents[id] = NoTabShown /\ Unused # {}
    /\ opened' = opened \cup {NewId}
    /\ sessionTabs' =
         [i \in DOMAIN sessionTabs |-> IF sessionTabs[i] = id THEN NewId ELSE sessionTabs[i]]
    /\ Activate(NewId) /\ TabTurn
    /\ UNCHANGED <<shells, parents, leaving, PageSide, shellOpens, tabDrag, postWindow>>
    /\ KeepOrder

\* The shell of a tab ends, and the tab goes by itself.
ShellEnds(id) == id \in shells /\ CloseSessionTab(id)

\* The keys of a tab whose terminal ended, when it is the one shown: R connects it again,
\* Enter closes it.
DisconnectedKeys ==
    /\ ActiveApp \in Range(sessionTabs)
    /\ CloseSessionTab(ActiveApp) \/ ReconnectTab(ActiveApp)

\* The closeTab shortcut is the workspace's closeActiveConnection.
CloseShortcut == activeTab # NoTabShown /\ CloseSessionTab(activeTab)

\* selectAppSessionTab
SelectTab(t) ==
    /\ IF t \in Range(sessionTabs) THEN shellTab' = NoTabShown /\ Activate(t)
       ELSE shellTab' = t /\ UNCHANGED <<activeTab, unseated>>
    /\ UNCHANGED <<sessionTabs, opened, shells, parents, leaving, tabTurns, tools,
                   wslFiles, bar, shellOpens, tabDrag, postWindow>>

-----------------------------------------------------------------------------
(* Dragging a tab.                                                          *)

\* startTabPointerDrag.  A drag whose tab went has no end: it lasts until here.
StartTabDrag(t) ==
    /\ t \in Range(Bar) /\ tabDrag.source \notin Range(Bar)
    /\ tabDrag' = [NoTabDrag EXCEPT !.source = t] /\ TabTurn
    /\ UNCHANGED <<OpenSessions, PageSide, bar, shellOpens, postWindow>>

\* updateTabPointerDrag, far enough: over another tab, or over none.
DragOver ==
    /\ tabDrag # NoTabDrag
    /\ \E t \in (Range(Bar) \ {tabDrag.source}) \cup {NoTabShown} :
         tabDrag' = [tabDrag EXCEPT !.active = TRUE, !.target = t]
    /\ UNCHANGED <<SessionSide, PageSide, bar, shellOpens, postWindow>>

\* resolveTabPointerTarget: before the target, or after the last of the others.
Positions(source, target) ==
    {"before"} \cup
    {p \in {"after"} : \A t \in Range(Bar) \ {source} : Place(Bar, t) <= Place(Bar, target)}

\* reorderAppSessionTabs: the order of the bar, and that of the sessions when
\* both are sessions.
Reorder(source, target, position) ==
    /\ sessionTabs' = MoveTab(sessionTabs, source, target, position)
    /\ bar' = MoveTab(Bar, source, target, position)

\* finishTabPointerDrag: a click, a drop on a tab, or a drop far from the bar.
EndTabDrag ==
    LET source == tabDrag.source IN
    /\ source \in Range(Bar) /\ tabDrag' = NoTabDrag
    /\ CASE ~tabDrag.active ->
              /\ IF source \in Range(sessionTabs) THEN shellTab' = NoTabShown /\ Activate(source)
                 ELSE shellTab' = source /\ UNCHANGED <<activeTab, unseated>>
              /\ UNCHANGED <<sessionTabs, opened, shells, parents, leaving, tabTurns,
                             tools, wslFiles, bar>>
         [] tabDrag.active /\ tabDrag.target # NoTabShown ->
              /\ \E p \in Positions(source, tabDrag.target) : Reorder(source, tabDrag.target, p)
              /\ UNCHANGED <<opened, shells, parents, activeTab, unseated, leaving,
                             tabTurns, PageSide>>
         [] OTHER ->
              \/ UNCHANGED <<SessionSide, PageSide, bar>>
              \/ Leaves(source, TRUE) /\ UNCHANGED PageSide /\ KeepOrder
    /\ UNCHANGED <<shellOpens, postWindow>>

CancelTabDrag ==
    /\ tabDrag.source \in Range(Bar) /\ tabDrag' = NoTabDrag
    /\ UNCHANGED <<SessionSide, PageSide, bar, shellOpens, postWindow>>

-----------------------------------------------------------------------------
AppNext ==
    \/ \E t \in Pages : OpenPage(t) \/ ClosePage(t)
    \/ \E d \in Distributions : OpenWslFiles(d) \/ CloseWslFiles(d)
    \/ MoveConsoleOut \/ MergeConsole \/ CloseConsoleWindow
    \/ StartShellTab \/ ShellTabOpens \/ ConnectionOpens
    \/ \E id \in SessionIds :
         \/ CloseSessionTab(id) \/ ShellEnds(id) \/ FilesTabOpens(id) \/ SessionReturns(id)
         \/ ReconnectTab(id) \/ FilesReconnect(id)
         \/ \E alone \in BOOLEAN : StartLeaving(id, alone)
    \/ LeavesLate \/ LeavingFails \/ DeleteProfile \/ DisconnectedKeys \/ CloseShortcut
    \/ \E t \in Range(Bar) : SelectTab(t) \/ StartTabDrag(t)
    \/ DragOver \/ EndTabDrag \/ CancelTabDrag

AppSpec == AppInit /\ [][AppNext]_appVars

\* Every open session and page has its tab, once, and the one shown is among them,
\* whatever was closed, ended, connected again or moved out meanwhile; but for the time
\* after the active tab went with its session, with its profile or under the hands of a
\* late handler, until another is chosen or comes.
ShownIsOneOfTheTabs ==
    /\ IsInjective(Bar) /\ Range(Bar) = Range(Sources)
    /\ Bar # <<>> /\ ~unseated => ActiveApp \in Range(Bar)

Before(order, t, u) == \E i, j \in DOMAIN order : i < j /\ order[i] = t /\ order[j] = u

\* Two tabs that stay keep the order the user gave them, whatever comes or
\* goes around them; a drop moves the tab that was dragged and no other.
OrderStays ==
    [][\A t, u \in Range(bar) \cap Range(bar') :
         \/ Before(bar, t, u) <=> Before(bar', t, u)
         \/ tabDrag.source \in {t, u} /\ tabDrag' # tabDrag]_bar

\* docs/easypost_http_integration.md:102: the HTTP console is a tool of which one is open
\* at a time.  Refuted: the page can be opened beside the window of its request panel.
OneHttpConsole == ~(postWindow /\ "http" \in tools)

\* The bar is sound: the tabs are those of what is open, and stay in the user's order.
BarSound == []ShownIsOneOfTheTabs /\ OrderStays
=============================================================================
