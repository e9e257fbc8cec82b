------------------------------- MODULE HttpTree -------------------------------
(***************************************************************************)
(* The tree of the HTTP console (HttpConsolePanel.tsx): workspaces with    *)
(* requests and projects of requests, what of it is selected, the tabs of  *)
(* the open requests, the environment and the sharing page, the dialog     *)
(* that asks before something is deleted, the dragging of a node, and the  *)
(* load that replaces the whole tree while the panel is already in use.    *)
(*                                                                         *)
(* A node is its id (makeId), a number; what a request says and what nodes *)
(* are called is left out.  Of the tree only the active workspace is       *)
(* drawn, so that what the user points at is in it.                        *)
(***************************************************************************)
EXTENDS Naturals, Sequences, SequencesExt, FiniteSets, Lists

CONSTANTS MaxNode,      \* the largest id ever given
          FirstNode,    \* ids up to it are taken: the default workspace is 1
          StoredTrees   \* the trees the disk may hold, <<>> when it holds none

None == 0

\* HttpWorkspaceDraft and HttpProjectDraft.  List 0 of a workspace is its own, list j
\* that of its j-th project.
Projects == [id : Nat, requests : Seq(Nat)]
Workspaces == [id : Nat, requests : Seq(Nat), projects : Seq(Projects)]
NthList(ws, j) == IF j = 0 THEN ws.requests ELSE ws.projects[j].requests

\* No request is at two places of a tree.
EachAtOnePlace(t) ==
    \A i, m \in DOMAIN t : \A j \in 0 .. Len(t[i].projects), n \in 0 .. Len(t[m].projects) :
        \A k \in DOMAIN NthList(t[i], j), l \in DOMAIN NthList(t[m], n) :
            NthList(t[i], j)[k] = NthList(t[m], n)[l] => i = m /\ j = n /\ k = l

\* The nodes of a tree have ids of their own (makeId), up to n.
IdsApart(t, n) ==
    /\ \A i, m \in DOMAIN t : t[i].id = t[m].id => i = m
    /\ \A i \in DOMAIN t : \A j, m \in DOMAIN t[i].projects :
          t[i].projects[j].id = t[i].projects[m].id => j = m
    /\ \A i \in DOMAIN t :
          /\ t[i].id \in 1 .. n
          /\ \A j \in DOMAIN t[i].projects : t[i].projects[j].id \in 1 .. n
          /\ \A j \in 0 .. Len(t[i].projects) : \A k \in DOMAIN NthList(t[i], j) :
                NthList(t[i], j)[k] \in 1 .. n

\* What is stored was saved by this panel.
ASSUME TreeAssumption ==
    /\ FirstNode \in Nat \ {0} /\ MaxNode \in Nat
    /\ \A t \in StoredTrees :
          t \in Seq(Workspaces) /\ EachAtOnePlace(t) /\ IdsApart(t, FirstNode)

NoAsk == [type |-> "none", w |-> None, p |-> None, r |-> None]
NoDrag == [type |-> "none", w |-> None, p |-> None, node |-> None, over |-> NoAsk]

VARIABLES
    tree,       \* workspaces
    activeW,    \* activeWorkspaceId
    activeP,    \* activeProjectId, None for null
    activeR,    \* activeRequestId, None for ""
    view,       \* activeMainView
    closed,     \* closedRequestTabIds
    envOpen,    \* environmentTabOpen
    shareOpen,  \* shareTabOpen
    asking,     \* deleteConfirm
    drag,       \* pointerTreeDragRef and, in over, treeDropTargetRef
    ready,      \* storageReady
    nodes,      \* ids given so far
    kept        \* history: the requests made, loaded or imported and not deleted since

selection == <<activeW, activeP, activeR, view>>
treeVars == <<tree, selection, closed, envOpen, shareOpen, asking, drag, ready, nodes, kept>>

-----------------------------------------------------------------------------
ItemAt(s, id) == CHOOSE x \in ToSet(s) : x.id = id
HasItem(s, id) == \E x \in ToSet(s) : x.id = id
Drop(s, x) == Kept(s, {i \in DOMAIN s : s[i] # x})
DropId(s, id) == Kept(s, {i \in DOMAIN s : s[i].id # id})
IndexIn(s, x) == CHOOSE i \in DOMAIN s : s[i] = x
First(s) == IF s = <<>> THEN None ELSE s[1]

WorkspaceRequests(ws) ==
    ToSet(ws.requests) \cup UNION {ToSet(p.requests) : p \in ToSet(ws.projects)}
TreeRequests(t) == UNION {WorkspaceRequests(ws) : ws \in ToSet(t)}

\* activeWorkspace, activeProject, activeRequestList, activeRequest and
\* openRequestTabs, as every render derives them.
Workspace == IF HasItem(tree, activeW) THEN ItemAt(tree, activeW) ELSE tree[1]
Project == IF activeP # None /\ HasItem(Workspace.projects, activeP) THEN activeP ELSE None
HasList(ws, p) == p = None \/ HasItem(ws.projects, p)
ListOf(ws, p) == IF p = None THEN ws.requests ELSE ItemAt(ws.projects, p).requests
List == ListOf(Workspace, Project)
Request == IF activeR \in ToSet(List) THEN activeR ELSE None
OpenTabs == Kept(List, {i \in DOMAIN List : List[i] \notin closed})

\* The tree with workspace w changed, a workspace with the list of p changed.
OnWorkspace(w, F(_)) == [i \in DOMAIN tree |-> IF tree[i].id = w THEN F(tree[i]) ELSE tree[i]]
OnList(ws, p, F(_)) ==
    IF p = None THEN [ws EXCEPT !.requests = F(@)]
    ELSE [ws EXCEPT !.projects =
            [i \in DOMAIN ws.projects |->
                IF ws.projects[i].id = p
                THEN [ws.projects[i] EXCEPT !.requests = F(@)] ELSE ws.projects[i]]]

Show(w, p, r, v) == activeW' = w /\ activeP' = p /\ activeR' = r /\ view' = v
Reopen(r) == closed' = closed \ {r}

-----------------------------------------------------------------------------
(* Faulty variants of what follows, for the properties to tell apart.      *)

\* The list dropped into is read before the request is taken out of its own.
MovedTwice(ws, d, t, after) ==
    LET to == IF t.type = "workspace" THEN None ELSE t.p
    IN  IF HasList(ws, d.p) /\ HasList(ws, to) /\ d.node \in ToSet(ListOf(ws, d.p))
        THEN OnList(OnList(ws, d.p, LAMBDA q : Drop(q, d.node)), to,
                    LAMBDA q : Append(ListOf(ws, to), d.node))
        ELSE ws

\* The answer is applied to the workspace on the screen.
DeletedShown(w) == DropId(tree, Workspace.id)

-----------------------------------------------------------------------------
TreeInit ==
    /\ tree = <<[id |-> 1, requests |-> <<>>, projects |-> <<>>]>>
    /\ activeW = 1 /\ activeP = None /\ activeR = None /\ view = "blank"
    /\ closed = {}
    /\ envOpen = FALSE /\ shareOpen = FALSE
    /\ asking = NoAsk
    /\ drag = NoDrag
    /\ ready = FALSE
    /\ nodes = FirstNode
    /\ kept = {}

\* The effect that reads the stored workspaces.  It takes whatever the panel
\* shows by then away, and leaves dialogs, tabs and a drag as they are.
Load(t) ==
    /\ ~ready
    /\ ready' = TRUE
    /\ IF t = <<>>
       THEN UNCHANGED <<tree, selection, kept>>
       ELSE LET ws == t[1]
                p == IF ws.requests # <<>> \/ ws.projects = <<>> THEN None ELSE ws.projects[1].id
                r == First(ListOf(ws, p))
            IN  /\ tree' = t
                /\ kept' = TreeRequests(t)
                /\ Show(ws.id, p, r, IF r = None THEN "blank" ELSE "request")
    /\ UNCHANGED <<closed, envOpen, shareOpen, asking, drag, nodes>>

\* Clicks reach the panel while no dialog is open and nothing is dragged.
Usable == asking = NoAsk /\ drag = NoDrag

SelectFirst(w, p, list) ==
    /\ Show(w, p, First(list), IF list = <<>> THEN "blank" ELSE "request")
    /\ Reopen(First(list))

selectWorkspace(w) ==
    /\ Usable
    /\ HasItem(tree, w)
    /\ SelectFirst(w, None, ItemAt(tree, w).requests)
    /\ UNCHANGED <<tree, envOpen, shareOpen, asking, drag, ready, nodes, kept>>

selectProject(p) ==
    /\ Usable
    /\ HasItem(Workspace.projects, p)
    /\ SelectFirst(activeW, p, ListOf(Workspace, p))
    /\ UNCHANGED <<tree, envOpen, shareOpen, asking, drag, ready, nodes, kept>>

selectRequest(p, r) ==
    /\ Usable
    /\ HasList(Workspace, p)
    /\ r \in ToSet(ListOf(Workspace, p))
    /\ Show(activeW, p, r, "request")
    /\ Reopen(r)
    /\ UNCHANGED <<tree, envOpen, shareOpen, asking, drag, ready, nodes, kept>>

createWorkspace ==
    /\ Usable
    /\ nodes < MaxNode
    /\ nodes' = nodes + 1
    /\ tree' = Append(tree, [id |-> nodes', requests |-> <<>>, projects |-> <<>>])
    /\ Show(nodes', None, None, "blank")
    /\ UNCHANGED <<closed, envOpen, shareOpen, asking, drag, ready, kept>>

createProject ==
    /\ Usable
    /\ nodes < MaxNode
    /\ nodes' = nodes + 1
    /\ tree' = OnWorkspace(Workspace.id, LAMBDA ws :
                  [ws EXCEPT !.projects = Append(@, [id |-> nodes', requests |-> <<>>])])
    /\ Show(Workspace.id, nodes', None, "blank")
    /\ UNCHANGED <<closed, envOpen, shareOpen, asking, drag, ready, kept>>

createRequest(p) ==
    /\ Usable
    /\ nodes < MaxNode
    /\ HasList(Workspace, p)
    /\ nodes' = nodes + 1
    /\ kept' = kept \cup {nodes'}
    /\ tree' = OnWorkspace(Workspace.id, LAMBDA ws :
                  OnList(ws, p, LAMBDA q : Append(q, nodes')))
    /\ Show(Workspace.id, p, nodes', "request")
    /\ Reopen(nodes')
    /\ UNCHANGED <<envOpen, shareOpen, asking, drag, ready>>

duplicateRequest(p, r) ==
    /\ Usable
    /\ nodes < MaxNode
    /\ HasList(Workspace, p)
    /\ r \in ToSet(ListOf(Workspace, p))
    /\ nodes' = nodes + 1
    /\ kept' = kept \cup {nodes'}
    /\ tree' = OnWorkspace(Workspace.id, LAMBDA ws :
                  OnList(ws, p, LAMBDA q : InsertAt(q, IndexIn(q, r) + 1, nodes')))
    /\ Show(Workspace.id, p, nodes', "request")
    /\ Reopen(nodes')
    /\ UNCHANGED <<envOpen, shareOpen, asking, drag, ready>>

-----------------------------------------------------------------------------
(* Dragging.                                                                *)

\* startTreePointerDrag: the node under the pointer.
startDrag(type, p, n) ==
    /\ Usable
    /\ \/ type = "project" /\ p = n /\ HasItem(Workspace.projects, n)
       \/ type = "request" /\ HasList(Workspace, p) /\ n \in ToSet(ListOf(Workspace, p))
    /\ drag' = [NoDrag EXCEPT !.type = type, !.w = Workspace.id, !.p = p, !.node = n]
    /\ UNCHANGED <<tree, selection, closed, envOpen, shareOpen, asking, ready, nodes, kept>>

\* The rows a node can be dropped on.
Targets ==
    LET w == Workspace.id
    IN  {[type |-> "workspace", w |-> w, p |-> None, r |-> None]}
        \cup {[type |-> "project", w |-> w, p |-> p.id, r |-> None] : p \in ToSet(Workspace.projects)}
        \cup {[type |-> "request", w |-> w, p |-> None, r |-> r] : r \in ToSet(Workspace.requests)}
        \cup UNION {{[type |-> "request", w |-> w, p |-> p.id, r |-> r] : r \in ToSet(p.requests)} :
                    p \in ToSet(Workspace.projects)}

canDropTreeNode(d, t) ==
    /\ t # NoAsk
    /\ d.w = t.w
    /\ IF d.type = "project"
       THEN t.type = "workspace" \/ (t.type = "project" /\ t.p # d.node)
       ELSE t.type = "request" => t.r # d.node

\* moveTreePointerDrag: remembers the row under the pointer, or that there is none.
dragOver(t) ==
    /\ drag # NoDrag
    /\ t \in Targets => canDropTreeNode(drag, t)
    /\ drag' = [drag EXCEPT !.over = t]
    /\ UNCHANGED <<tree, selection, closed, envOpen, shareOpen, asking, ready, nodes, kept>>

\* moveRequest on the workspace: taken out of its list, put into another or
\* the same, before or after the request dropped on.
Moved(ws, d, t, after) ==
    LET to == IF t.type = "workspace" THEN None ELSE t.p
        out == OnList(ws, d.p, LAMBDA q : Drop(q, d.node))
        into == ListOf(out, to)
        at == IF t.type = "request" /\ t.r \in ToSet(into)
              THEN IndexIn(into, t.r) + after ELSE Len(into) + 1
    IN  IF HasList(ws, d.p) /\ HasList(ws, to) /\ d.node \in ToSet(ListOf(ws, d.p))
        THEN OnList(out, to, LAMBDA q : InsertAt(q, at, d.node))
        ELSE ws

\* moveProject on the workspace.
MovedProject(ws, d, t, after) ==
    LET rest == DropId(ws.projects, d.node)
        at == IF t.type = "project"
              THEN (CHOOSE i \in DOMAIN rest : rest[i].id = t.p) + after ELSE Len(rest) + 1
    IN  IF HasItem(ws.projects, d.node) /\ (t.type = "project" => HasItem(rest, t.p))
        THEN [ws EXCEPT !.projects = InsertAt(rest, at, ItemAt(ws.projects, d.node))]
        ELSE ws

\* finishTreePointerDrag: the row under the pointer, or else the one it was
\* last seen over, which may be gone.  A moved request is selected, found or not.
finishDrag(under, after) ==
    LET t == IF under \in Targets /\ canDropTreeNode(drag, under) THEN under ELSE drag.over
    IN  /\ drag # NoDrag
        /\ drag' = NoDrag
        /\ CASE ~canDropTreeNode(drag, t) -> UNCHANGED <<tree, selection>>
             [] drag.type = "project" /\ canDropTreeNode(drag, t) ->
                  /\ tree' = OnWorkspace(drag.w, LAMBDA ws : MovedProject(ws, drag, t, after))
                  /\ UNCHANGED selection
             [] drag.type = "request" /\ canDropTreeNode(drag, t) ->
                  /\ tree' = OnWorkspace(drag.w, LAMBDA ws : Moved(ws, drag, t, after))
                  /\ Show(drag.w, IF t.type = "workspace" THEN None ELSE t.p, drag.node, "request")
        /\ UNCHANGED <<closed, envOpen, shareOpen, asking, ready, nodes, kept>>

\* cancelTreePointerDrag
cancelDrag ==
    /\ drag # NoDrag
    /\ drag' = NoDrag
    /\ UNCHANGED <<tree, selection, closed, envOpen, shareOpen, asking, ready, nodes, kept>>

-----------------------------------------------------------------------------
(* Deleting: the dialog names a node, the answer comes later.               *)

Ask(type, w, p, r) ==
    /\ Usable
    /\ asking' = [type |-> type, w |-> w, p |-> p, r |-> r]
    /\ UNCHANGED <<tree, selection, closed, envOpen, shareOpen, drag, ready, nodes, kept>>

requestDeleteWorkspace == Len(tree) > 1 /\ Ask("workspace", Workspace.id, None, None)

requestDeleteProject(p) ==
    HasItem(Workspace.projects, p) /\ Ask("project", Workspace.id, p, None)

requestDeleteRequest(p, r) ==
    /\ HasList(Workspace, p) /\ r \in ToSet(ListOf(Workspace, p))
    /\ Ask("request", Workspace.id, p, r)

cancelDelete ==
    /\ asking # NoAsk
    /\ asking' = NoAsk
    /\ UNCHANGED <<tree, selection, closed, envOpen, shareOpen, drag, ready, nodes, kept>>

\* The checks deleteWorkspace makes again, and what is left.
Deletable(w) == Len(tree) > 1 /\ HasItem(tree, w)
Deleted(w) == DropId(tree, w)

deleteWorkspace ==
    LET w == asking.w
        i == CHOOSE j \in DOMAIN tree : tree[j].id = w
        next == tree[IF i = 1 THEN IF Len(tree) > 1 THEN 2 ELSE 1 ELSE i - 1]
    IN  /\ asking.type = "workspace"
        /\ asking' = NoAsk
        /\ IF ~Deletable(w)
           THEN UNCHANGED <<tree, selection, closed, kept>>
           ELSE /\ tree' = Deleted(w)
                /\ kept' = kept \ WorkspaceRequests(ItemAt(tree, w))
                /\ IF Workspace.id = w
                   THEN SelectFirst(next.id, None, next.requests)
                   ELSE UNCHANGED <<selection, closed>>
        /\ UNCHANGED <<envOpen, shareOpen, drag, ready, nodes>>

\* The view stays: a project that goes while its request is shown may leave
\* the request view with none to show.
deleteProject ==
    /\ asking.type = "project"
    /\ asking' = NoAsk
    /\ IF HasItem(tree, asking.w) /\ HasItem(ItemAt(tree, asking.w).projects, asking.p)
       THEN LET ws == ItemAt(tree, asking.w)
            IN  /\ tree' = OnWorkspace(asking.w, LAMBDA x :
                              [x EXCEPT !.projects = DropId(@, asking.p)])
                /\ kept' = kept \ ToSet(ListOf(ws, asking.p))
                /\ IF Workspace.id = asking.w /\ Project = asking.p
                   THEN Show(activeW, None, First(ws.requests), view)
                   ELSE UNCHANGED selection
       ELSE UNCHANGED <<tree, selection, kept>>
    /\ UNCHANGED <<closed, envOpen, shareOpen, drag, ready, nodes>>

\* The neighbour that is selected instead may be one whose tab is closed.
deleteRequest ==
    LET ws == ItemAt(tree, asking.w)
        siblings == IF HasList(ws, asking.p) THEN ListOf(ws, asking.p) ELSE ws.requests
        i == IndexIn(siblings, asking.r)
        rest == Drop(siblings, asking.r)
        at == IF i = 1 THEN 1 ELSE i - 1
        next == IF at \in DOMAIN rest THEN rest[at] ELSE None
    IN  /\ asking.type = "request"
        /\ asking' = NoAsk
        /\ IF HasItem(tree, asking.w) /\ asking.r \in ToSet(siblings)
           THEN /\ tree' = OnWorkspace(asking.w, LAMBDA x :
                              OnList(x, asking.p, LAMBDA q : Drop(q, asking.r)))
                /\ kept' = kept \ {asking.r}
                /\ closed' = closed \ {asking.r}
                /\ IF Workspace.id = asking.w /\ Project = asking.p /\ Request = asking.r
                   THEN Show(activeW, activeP, next,
                             IF next # None THEN "request" ELSE IF envOpen THEN "environment"
                             ELSE IF shareOpen THEN "share" ELSE "blank")
                   ELSE UNCHANGED selection
           ELSE UNCHANGED <<tree, selection, closed, kept>>
        /\ UNCHANGED <<envOpen, shareOpen, drag, ready, nodes>>

-----------------------------------------------------------------------------
(* Tabs.                                                                    *)

openEnvironmentTab ==
    /\ Usable
    /\ envOpen' = TRUE
    /\ Show(activeW, activeP, activeR, "environment")
    /\ UNCHANGED <<tree, closed, shareOpen, asking, drag, ready, nodes, kept>>

openShareTab ==
    /\ Usable
    /\ shareOpen' = TRUE
    /\ Show(activeW, activeP, activeR, "share")
    /\ UNCHANGED <<tree, closed, envOpen, asking, drag, ready, nodes, kept>>

\* closeEnvironmentTab and closeShareTab fall back to an open request, or
\* else to the other of the two pages.
FallBack(otherOpen, other) ==
    LET next == IF activeR \in ToSet(OpenTabs) THEN activeR ELSE First(OpenTabs)
    IN  Show(activeW, activeP, next,
             IF next # None THEN "request" ELSE IF otherOpen THEN other ELSE "blank")

closeEnvironmentTab ==
    /\ Usable
    /\ envOpen
    /\ envOpen' = FALSE
    /\ FallBack(shareOpen, "share")
    /\ UNCHANGED <<tree, closed, shareOpen, asking, drag, ready, nodes, kept>>

closeShareTab ==
    /\ Usable
    /\ shareOpen
    /\ shareOpen' = FALSE
    /\ FallBack(envOpen, "environment")
    /\ UNCHANGED <<tree, closed, envOpen, asking, drag, ready, nodes, kept>>

closeRequestTab(r) ==
    LET i == IndexIn(OpenTabs, r)
        rest == Drop(OpenTabs, r)
        next == IF i \in DOMAIN rest THEN rest[i] ELSE IF i > 1 THEN rest[i - 1] ELSE None
    IN  /\ Usable
        /\ r \in ToSet(OpenTabs)
        /\ closed' = closed \cup {r}
        /\ IF view = "request" /\ activeR = r
           THEN Show(activeW, activeP, next,
                     IF next # None THEN "request" ELSE IF envOpen THEN "environment" ELSE "blank")
           ELSE UNCHANGED selection
        /\ UNCHANGED <<tree, envOpen, shareOpen, asking, drag, ready, nodes, kept>>

-----------------------------------------------------------------------------
(* importShareJson, of a document with one request.                         *)

importNew ==
    /\ Usable
    /\ view = "share"
    /\ nodes + 2 <= MaxNode
    /\ nodes' = nodes + 2
    /\ kept' = kept \cup {nodes'}
    /\ tree' = Append(tree, [id |-> nodes + 1, requests |-> <<nodes'>>, projects |-> <<>>])
    /\ Show(nodes + 1, None, nodes', "share")
    /\ closed' = {}
    /\ UNCHANGED <<envOpen, shareOpen, asking, drag, ready>>

\* Into the active workspace, as a new request of it.
importAdds ==
    /\ Usable
    /\ view = "share"
    /\ nodes < MaxNode
    /\ nodes' = nodes + 1
    /\ kept' = kept \cup {nodes'}
    /\ tree' = OnWorkspace(Workspace.id, LAMBDA ws : [ws EXCEPT !.requests = Append(@, nodes')])
    /\ Show(Workspace.id, None, nodes', "share")
    /\ Reopen(nodes')
    /\ UNCHANGED <<envOpen, shareOpen, asking, drag, ready>>

\* Over the request of the active workspace with the same address.
importOverwrites(p, r) ==
    /\ Usable
    /\ view = "share"
    /\ HasList(Workspace, p) /\ r \in ToSet(ListOf(Workspace, p))
    /\ Show(Workspace.id, p, r, "share")
    /\ Reopen(r)
    /\ UNCHANGED <<tree, envOpen, shareOpen, asking, drag, ready, nodes, kept>>

-----------------------------------------------------------------------------
Ids == 1 .. MaxNode
ListIds == {None} \cup {p.id : p \in ToSet(Workspace.projects)}

TreeNext ==
    \/ \E t \in StoredTrees : Load(t)
    \/ \E w \in {x.id : x \in ToSet(tree)} : selectWorkspace(w)
    \/ \E p \in ListIds : selectProject(p) \/ createRequest(p) \/ requestDeleteProject(p)
                        \/ startDrag("project", p, p)
    \/ \E p \in ListIds, r \in Ids :
          selectRequest(p, r) \/ duplicateRequest(p, r) \/ requestDeleteRequest(p, r)
          \/ startDrag("request", p, r) \/ importOverwrites(p, r)
    \/ createWorkspace
    \/ createProject
    \/ \E t \in Targets \cup {NoAsk} : dragOver(t)
    \/ \E t \in Targets \cup {NoAsk}, after \in {0, 1} : finishDrag(t, after)
    \/ cancelDrag
    \/ requestDeleteWorkspace
    \/ cancelDelete
    \/ deleteWorkspace
    \/ deleteProject
    \/ deleteRequest
    \/ openEnvironmentTab
    \/ openShareTab
    \/ closeEnvironmentTab
    \/ closeShareTab
    \/ \E r \in Ids : closeRequestTab(r)
    \/ importNew
    \/ importAdds

TreeSpec == TreeInit /\ [][TreeNext]_treeVars

-----------------------------------------------------------------------------
\* Every request that was made, loaded, copied or imported and that nobody
\* deleted is in the tree, at one place: no drag, however late and wherever it
\* ends, loses or doubles one.
RequestsKept ==
    /\ TreeRequests(tree) = kept
    /\ EachAtOnePlace(tree)

\* The panel reads workspaces[0] in every render, so the last workspace stays,
\* also when the tree was replaced between the question and the answer.
AWorkspaceStays == tree # <<>>

TreeNodes == TreeRequests(tree) \cup {ws.id : ws \in ToSet(tree)}
             \cup UNION {{p.id : p \in ToSet(ws.projects)} : ws \in ToSet(tree)}
\* The nodes a deletion that was asked for stands for.
Named ==
    {asking.w, asking.p, asking.r}
    \cup (IF asking.type = "workspace" /\ HasItem(tree, asking.w)
          THEN LET ws == ItemAt(tree, asking.w)
               IN  WorkspaceRequests(ws) \cup {p.id : p \in ToSet(ws.projects)} ELSE {})
    \cup (IF asking.type = "project" /\ HasItem(tree, asking.w)
             /\ HasItem(ItemAt(tree, asking.w).projects, asking.p)
          THEN ToSet(ListOf(ItemAt(tree, asking.w), asking.p)) ELSE {})

\* What leaves the tree is what the dialog named and what is under it, unless
\* the stored tree replaces all of it.
DeletesOnlyAsked == [][ready' = ready => TreeNodes \ TreeNodes' \subseteq Named]_treeVars

\* The tree is kept: no request is lost or doubled, and a workspace is left.
TreeSound == RequestsKept /\ AWorkspaceStays
=============================================================================
