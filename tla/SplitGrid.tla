------------------------------ MODULE SplitGrid ------------------------------
(***************************************************************************)
(* The terminals of one SSH page and how they share it: the layout of      *)
(* terminalSplits.ts, the handlers that split, close, replace and resize,  *)
(* and the grid (TerminalWorkspace, SshTerminalGrid) that shows them.      *)
(*                                                                         *)
(* A layout is a binary tree, given by the paths of its leaves and of its  *)
(* branches: 0 goes to the first half, 1 to the second.  A leaf has a      *)
(* terminal, a branch a ratio, in percent; which way a branch divides does *)
(* not matter here.                                                        *)
(***************************************************************************)
EXTENDS Naturals, Sequences, SequencesExt, FiniteSets, Lists

CONSTANTS MaxGridPanes,   \* maximumSshTerminalPanes: 4, and no layout has a shape for more
          MaxTerminals,   \* terminals ever attached
          Ratios,         \* where a divider may be dropped, in percent
          MaxClosings     \* panes being closed at once

ASSUME GridAssumption ==
    /\ MaxGridPanes \in 1 .. 4 /\ MaxTerminals \in Nat \ {0} /\ MaxClosings \in Nat
    /\ Ratios \subseteq 0 .. 100

VARIABLES
    panes,      \* terminalPanesForTab: the primary terminal, then the others
    layout,     \* terminalLayout, NoLayout for none
    attached,   \* terminals attached so far
    splitting,  \* the split under way: target 0 for none
    closings,   \* the panes being closed, with the pane promoted for them
    replacing,  \* the terminal that X11 forwarding replaces: old 0 for none
    focused,    \* focusedSshTerminalByTab
    dragging    \* the divider being dragged: its path, or none

gridVars == <<panes, layout, attached, splitting, closings, replacing, focused, dragging>>

NoLayout == [leaf |-> <<>>, ratio |-> <<>>]
NoDrag == <<2>>
NoSplit == [target |-> 0, stage |-> "none"]
NoReplace == [old |-> 0, new |-> 0]

GridInit ==
    /\ panes = <<1>> /\ layout = NoLayout /\ attached = 1
    /\ splitting = NoSplit /\ closings = {} /\ replacing = NoReplace
    /\ focused = 0 /\ dragging = NoDrag

Shown(id) == id \in Range(panes)

-----------------------------------------------------------------------------
(* Faulty variants of what follows, for the properties to tell apart.       *)

\* The layout of the tab is used as it is.
MatchesAlways(l, ids) == l # NoLayout

-----------------------------------------------------------------------------
(* terminalSplits.ts                                                        *)

PaneIds(l) == {l.leaf[p] : p \in DOMAIN l.leaf}
PathOf(l, id) == CHOOSE p \in DOMAIN l.leaf : l.leaf[p] = id

\* layoutMatchesTerminalIds
Matches(l, ids) ==
    /\ l # NoLayout
    /\ Cardinality(DOMAIN l.leaf) = Len(ids)
    /\ PaneIds(l) = Range(ids)

\* createDefaultTerminalSplitLayout: the leaves of the first terminals, and the branches.
DefaultLeaves(n) ==
    CASE n = 1 -> <<<<>>>>
      [] n = 2 -> <<<<0>>, <<1>>>>
      [] n = 3 -> <<<<0>>, <<1, 0>>, <<1, 1>>>>
      [] OTHER -> <<<<0, 0>>, <<0, 1>>, <<1, 0>>, <<1, 1>>>>
DefaultBranches(n) ==
    CASE n = 1 -> {} [] n = 2 -> {<<>>} [] n = 3 -> {<<>>, <<1>>} [] OTHER -> {<<>>, <<0>>, <<1>>}

Default(ids) ==
    LET leaves == DefaultLeaves(Len(ids))
    IN  [leaf  |-> [p \in Range(leaves) |-> ids[CHOOSE n \in DOMAIN leaves : leaves[n] = p]],
         ratio |-> [p \in DefaultBranches(Len(ids)) |-> 50]]

\* resolveTerminalSplitLayout
Resolved(l, ids) == IF Matches(l, ids) THEN l ELSE Default(ids)

\* splitTerminalLayout: the target's leaf becomes a branch of the two.
SplitLayout(l, target, new) ==
    IF target \notin PaneIds(l) THEN l
    ELSE LET p == PathOf(l, target) IN
         [leaf  |-> [q \in (DOMAIN l.leaf \ {p}) \cup {p \o <<0>>, p \o <<1>>} |->
                       IF q = p \o <<0>> THEN target
                       ELSE IF q = p \o <<1>> THEN new ELSE l.leaf[q]],
          ratio |-> [q \in DOMAIN l.ratio \cup {p} |-> IF q = p THEN 50 ELSE l.ratio[q]]]

\* A path below the half that stays leads there without the step to it.
Lifted(q, branch, other) ==
    IF IsPrefix(other, q) THEN branch \o SubSeq(q, Len(other) + 1, Len(q)) ELSE q

\* removeTerminalFromLayout: the other half takes the place of the branch.
RemoveLayout(l, id) ==
    IF id \notin PaneIds(l) THEN l
    ELSE IF DOMAIN l.leaf = {<<>>} THEN NoLayout
    ELSE LET p       == PathOf(l, id)
             branch  == Front(p)
             lift(q) == Lifted(q, branch, branch \o <<1 - Last(p)>>)
             without(f) == LET rest == DOMAIN f \ {p, branch}
                           IN  [q \in {lift(r) : r \in rest} |-> f[CHOOSE r \in rest : lift(r) = q]]
         IN [leaf |-> without(l.leaf), ratio |-> without(l.ratio)]

\* replaceTerminalInLayout
ReplaceLayout(l, id, new) ==
    [l EXCEPT !.leaf = [p \in DOMAIN l.leaf |-> IF l.leaf[p] = id THEN new ELSE l.leaf[p]]]

\* clampTerminalSplitRatio
Clamp(r) == IF r < 22 THEN 22 ELSE IF r > 78 THEN 78 ELSE r

\* updateTerminalSplitRatio: nothing for a path that leads to no branch.
RatioLayout(l, path, r) ==
    IF path \in DOMAIN l.ratio THEN [l EXCEPT !.ratio[path] = Clamp(r)] ELSE l

\* isTerminalSplitLayout, what another window accepts.
Accepted(l) ==
    /\ Cardinality(DOMAIN l.leaf) <= MaxGridPanes
    /\ \A p \in DOMAIN l.leaf : Len(p) <= MaxGridPanes
    /\ \A p \in DOMAIN l.ratio : 10 <= l.ratio[p] /\ l.ratio[p] <= 90

-----------------------------------------------------------------------------
(* splitSshTerminal                                                         *)

\* The buttons of the grid: neither while a split is under way.
StartGridSplit ==
    /\ splitting = NoSplit /\ Len(panes) < MaxGridPanes /\ attached < MaxTerminals
    /\ \E id \in Range(panes) : splitting' = [target |-> id, stage |-> "attaching"]
    /\ UNCHANGED <<panes, layout, attached, closings, replacing, focused, dragging>>

\* A terminal that nobody waits for any more is closed, one too many is not.
GridSplit ==
    LET l == Resolved(layout, panes) IN
    /\ splitting # NoSplit /\ splitting' = NoSplit
    /\ attached' = attached + 1
    /\ IF Shown(splitting.target) /\ Len(panes) < MaxGridPanes
       THEN /\ panes' = Append(panes, attached')
            /\ layout' = SplitLayout(l, splitting.target, attached')
       ELSE UNCHANGED <<panes, layout>>
    /\ UNCHANGED <<closings, replacing, focused, dragging>>

GridSplitFails ==
    /\ splitting # NoSplit /\ splitting' = NoSplit
    /\ UNCHANGED <<panes, layout, attached, closings, replacing, focused, dragging>>

-----------------------------------------------------------------------------
(* closeSshTerminalPane                                                     *)

StartGridClose ==
    /\ splitting = NoSplit /\ Len(panes) > 1
    /\ Cardinality(closings) < MaxClosings
    /\ \E id \in Range(panes) :
         /\ \A c \in closings : c.id # id
         /\ closings' = closings \cup
              {[id |-> id, promoted |-> IF id = panes[1] THEN panes[2] ELSE 0]}
    /\ UNCHANGED <<panes, layout, attached, splitting, replacing, focused, dragging>>

\* The pane goes; for the primary one, the pane promoted when the call was
\* made takes its place.  The primary terminal is not one of those removed.
WithoutGridPane(c) ==
    LET promotes == c.promoted # 0 /\ panes[1] = c.id
        gone     == IF promotes THEN c.promoted ELSE c.id
        others   == Tail(panes)
    IN  <<IF promotes THEN c.promoted ELSE panes[1]>>
          \o Kept(others, {n \in DOMAIN others : others[n] # gone})

GridClosed ==
    /\ \E c \in closings :
         /\ closings' = closings \ {c}
         /\ panes' = WithoutGridPane(c)
         /\ layout' = RemoveLayout(Resolved(layout, panes), c.id)
         /\ focused' = IF focused = c.id THEN 0 ELSE focused
    /\ UNCHANGED <<attached, splitting, replacing, dragging>>

GridCloseFails ==
    /\ \E c \in closings : closings' = closings \ {c}
    /\ UNCHANGED <<panes, layout, attached, splitting, replacing, focused, dragging>>

-----------------------------------------------------------------------------
(* setSshX11Forwarding                                                      *)

StartReplace ==
    /\ replacing = NoReplace /\ attached < MaxTerminals
    /\ \E id \in Range(panes) : replacing' = [old |-> id, new |-> 0]
    /\ UNCHANGED <<panes, layout, attached, splitting, closings, focused, dragging>>

\* The new terminal is there; the old one is closed if the page still has it.
ReplacementAttached ==
    /\ replacing.old # 0 /\ replacing.new = 0
    /\ attached < MaxTerminals /\ attached' = attached + 1
    /\ replacing' = IF Shown(replacing.old) THEN [replacing EXCEPT !.new = attached'] ELSE NoReplace
    /\ UNCHANGED <<panes, layout, splitting, closings, focused, dragging>>

Replaced ==
    /\ replacing.new # 0 /\ replacing' = NoReplace
    /\ panes' = [n \in DOMAIN panes |-> IF panes[n] = replacing.old THEN replacing.new ELSE panes[n]]
    /\ layout' = ReplaceLayout(Resolved(layout, panes), replacing.old, replacing.new)
    /\ focused' = replacing.new
    /\ UNCHANGED <<attached, splitting, closings, dragging>>

ReplaceFails ==
    /\ replacing # NoReplace /\ replacing' = NoReplace
    /\ UNCHANGED <<panes, layout, attached, splitting, closings, focused, dragging>>

-----------------------------------------------------------------------------
(* The grid.                                                                *)

Focus ==
    /\ \E id \in Range(panes) : focused' = id
    /\ UNCHANGED <<panes, layout, attached, splitting, closings, replacing, dragging>>

\* startResize keeps the path of the divider it was called for ...
StartDrag ==
    /\ dragging = NoDrag
    /\ \E p \in DOMAIN Resolved(layout, panes).ratio : dragging' = p
    /\ UNCHANGED <<panes, layout, attached, splitting, closings, replacing, focused>>

\* ... until the pointer is let go.
EndDrag ==
    /\ dragging # NoDrag /\ dragging' = NoDrag
    /\ \E r \in Ratios : layout' = RatioLayout(Resolved(layout, panes), dragging, r)
    /\ UNCHANGED <<panes, attached, splitting, closings, replacing, focused>>

\* The page goes to another window and is shown there: its terminals, and its
\* layout if that is accepted.
MoveGrid ==
    /\ splitting = NoSplit /\ closings = {} /\ replacing = NoReplace
    /\ layout' = IF Accepted(layout) THEN layout ELSE NoLayout
    /\ focused' = 0 /\ dragging' = NoDrag
    /\ UNCHANGED <<panes, attached, splitting, closings, replacing>>

-----------------------------------------------------------------------------
GridNext ==
    \/ StartGridSplit \/ GridSplit \/ GridSplitFails
    \/ StartGridClose \/ GridClosed \/ GridCloseFails
    \/ StartReplace \/ ReplacementAttached \/ Replaced \/ ReplaceFails
    \/ Focus \/ StartDrag \/ EndDrag \/ MoveGrid

GridSpec == GridInit /\ [][GridNext]_gridVars

\* What is shown has a place for every terminal of the page and nothing else,
\* whatever calls crossed each other.
PanesHaveAPlace ==
    LET l == Resolved(layout, panes) IN
    /\ PaneIds(l) = Range(panes)
    /\ \A p, q \in DOMAIN l.leaf : l.leaf[p] = l.leaf[q] => p = q

\* Whatever the user did to the page, another window takes it as it is.
LayoutIsAccepted == layout # NoLayout => Accepted(layout)

\* The grid shows the terminals it has, in a layout the reader of stored ones accepts.
GridSound == PanesHaveAPlace /\ LayoutIsAccepted
=============================================================================
