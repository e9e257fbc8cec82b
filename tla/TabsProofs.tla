------------------------------ MODULE TabsProofs ------------------------------
(***************************************************************************)
(* What holds of SessionTabs for any number of handlers, tabs, terminals   *)
(* and connections.  A handler acts on what it captured before its awaits, *)
(* so the invariant is about everything that is known of a tab, by the     *)
(* window, by other windows or by a handler: its frame (id, connection,    *)
(* kind, parent) and its claims (which terminal is of which tab and        *)
(* connection).  However old a copy is, it agrees with the others in these;*)
(* a connection that a handler has just opened is in none of them.         *)
(***************************************************************************)
EXTENDS SessionTabs, TLAPS

Protocol == {"ssh", "sftp", "raw", "shell"}
TabRecords ==
    [id : Nat, prof : Protocol, file : BOOLEAN, conn : Nat, up : BOOLEAN, prim : Nat,
     extra : SUBSET Nat, parent : Nat]
Reserving == {"loggingIn", "attaching", "openingFiles", "dropping"}
PaneOps == {"splitting", "replacing", "closingPane", "closingReplaced"}
Ops == {"idle", "opening", "openingShell", "closingOld", "closing", "detaching",
        "openingChild", "deleting"} \cup Reserving \cup PaneOps
Goals == {"none", "new", "again", "files"}
CallRecords ==
    [op : Ops, goal : Goals, prof : Protocol, tab : TabRecords, side : TabRecords,
     seen : SUBSET TabRecords, mine : BOOLEAN, conn : Nat, old : Nat, new : Nat]

TabTypes ==
    /\ tabs \subseteq TabRecords /\ away \subseteq TabRecords
    /\ calls \in [Calls -> CallRecords] /\ made \in Nat
    /\ conns \subseteq 1..made /\ terms \subseteq (1..made) \X (1..made)

\* What a handler may still show, or compare with what is shown.
CallTabs(c) == c.seen \cup (IF c.goal = "again" THEN {c.tab} ELSE {})
                      \cup (IF c.goal = "files" THEN {c.side} ELSE {})
\* The panes it knows, each with the tab and the connection it takes them to be of.
CallClaims(c) ==
    (IF c.op \in PaneOps THEN {<<c.old, c.tab.id, c.tab.conn>>} ELSE {})
      \cup (IF c.op \in {"closingPane", "closingReplaced"} /\ c.new # 0
            THEN {<<c.new, c.tab.id, c.tab.conn>>} ELSE {})
\* The connection it has opened and no tab shows, the terminal likewise, and the
\* connection whose SFTP tab it opens.
CallConn(c) == IF c.op \in Reserving THEN {c.conn} ELSE {}
CallTerm(c) == IF c.op = "closingReplaced" THEN {c.new} ELSE {}
CallFather(c) == IF c.op = "openingChild" THEN {c.tab.conn} ELSE {}

Known == tabs \cup away \cup UNION {CallTabs(calls[j]) : j \in Calls}
Frame(t) == <<t.id, t.conn, t.file, t.parent>>
Frames == {Frame(t) : t \in Known}
TabClaims(t) == {<<x, t.id, t.conn>> : x \in Panes(t)}
Claims == (UNION {TabClaims(t) : t \in Known}) \cup (UNION {CallClaims(calls[j]) : j \in Calls})
Reservations == UNION {{<<j, n>> : n \in CallConn(calls[j])} : j \in Calls}
Fathers == UNION {CallFather(calls[j]) : j \in Calls}
Terminals == {p[1] : p \in terms}

Apart(ts) == \A t, u \in ts : t.id = u.id \/ t.conn = u.conn => t = u

\* Connections and terminals have ids of their own, and a terminal an open connection.
BackendFits ==
    /\ \A p \in terms : p[1] \notin conns /\ p[2] \in conns
    /\ \A p, q \in terms : p[1] = q[1] => p = q

\* Tabs of one connection have one id and tabs of one id are of a kind; an SFTP tab of an
\* SSH tab has a session that is no connection, and no other SFTP tab for its SSH tab.
FramesFit ==
    /\ \A f \in Frames : /\ f[1] \in 1..made /\ f[2] \in 1..made /\ f[4] \in 0..made
                         /\ f[4] # 0 => f[3] /\ f[2] \notin conns
                         /\ f[3] => f[1] = f[2]
                         /\ f[2] \notin Terminals
    /\ \A f, g \in Frames : /\ f[2] = g[2] => f[1] = g[1]
                            /\ f[1] = g[1] => f[3] = g[3]
                            /\ f[4] # 0 /\ f[4] = g[1] => ~g[3]
    /\ \A c \in Fathers : c \in 1..made /\ \A g \in Frames : g[1] = c => ~g[3]

\* A connection that a handler has opened is known to no tab and no other handler.
ReservedOnce ==
    /\ \A r \in Reservations : /\ r[2] \in 1..made /\ r[2] \notin Terminals /\ r[2] \notin Fathers
                               /\ \A f \in Frames : r[2] # f[1] /\ r[2] # f[2] /\ r[2] # f[4]
                               /\ \A k \in Claims : r[2] # k[2]
    /\ \A r, q \in Reservations : r[2] = q[2] => r = q

\* A pane is of the connection of its tab, whichever copy of the tab it is, and no SFTP
\* tab has one.
PanesFit ==
    /\ \A k \in Claims : /\ k[1] \in 1..made /\ k[1] \notin conns /\ k[2] \in 1..made
                         /\ \A p \in terms : p[1] = k[1] => p[2] = k[3]
                         /\ \A f \in Frames : f[1] = k[2] => ~f[3]
    /\ \A k, l \in Claims : k[1] = l[1] /\ k[2] = l[2] => k[3] = l[3]

TabsFit == BackendFits /\ FramesFit /\ ReservedOnce /\ PanesFit

CallFits(c, cs) ==
    /\ c.goal = "again" /\ c.op # "closingOld" => c.tab.conn \notin cs
    /\ c.goal = "again" => ~c.tab.file
    /\ c.goal = "files" /\ c.op # "closingOld" => c.side.conn \notin cs
    /\ c.goal = "files" => IF c.tab.parent = 0 THEN c.side = c.tab ELSE ~c.side.file
    /\ c.op \in {"closing", "detaching"} => c.tab \in c.seen
    /\ Apart(c.seen)
CallsFit == \A i \in Calls : CallFits(calls[i], conns)

OwnOf(c) == CallConn(c) \cup CallTerm(c)
Own == UNION {OwnOf(calls[j]) : j \in Calls}
OwnedOrLost == conns \cup Terminals \subseteq HeldBy(tabs \cup away) \cup Own \cup lost

TabsInv == TabTypes /\ TabsFit /\ Apart(tabs) /\ CallsFit /\ OwnedOrLost

-----------------------------------------------------------------------------
\* What a step does to the handlers' knowledge, when at most one of them goes on, as c.
LEMMA Views ==
    ASSUME NEW c, \A j \in Calls : calls'[j] \in {calls[j], c},
           NEW F, NEW D,
           \A t \in tabs' \cup away' \cup CallTabs(c) :
               Frame(t) \in Frames \cup F /\ TabClaims(t) \subseteq Claims \cup D,
           CallClaims(c) \subseteq Claims \cup D
    PROVE  Frames' \subseteq Frames \cup F /\ Claims' \subseteq Claims \cup D
<1>1. ASSUME NEW t \in Known'
      PROVE  t \in tabs' \cup away' \cup CallTabs(c) \/ t \in Known
  <2>1. CASE t \in tabs' \cup away'
    BY <2>1
  <2>2. CASE \E j \in Calls : t \in CallTabs(calls'[j])
    BY <2>2 DEF Known
  <2>3. QED
    BY <1>1, <2>1, <2>2 DEF Known
<1>2. \A t \in Known : Frame(t) \in Frames /\ TabClaims(t) \subseteq Claims
  BY DEF Frames, Claims
<1>3. \A t \in Known' : Frame(t) \in Frames \cup F /\ TabClaims(t) \subseteq Claims \cup D
  BY <1>1, <1>2
<1>4. \A j \in Calls : CallClaims(calls'[j]) \subseteq Claims \cup D
  <2>1. \A j \in Calls : CallClaims(calls[j]) \subseteq Claims
    BY DEF Claims
  <2>2. QED
    BY <2>1
<1>5. Frames' \subseteq Frames \cup F
  BY <1>3 DEF Frames
<1>6. Claims' \subseteq Claims \cup D
  BY <1>3, <1>4 DEF Claims
<1>7. QED
  BY <1>5, <1>6

\* The same for what it has opened and for what it waits to open.
LEMMA Slots ==
    ASSUME NEW i \in Calls, NEW c, calls \in [Calls -> CallRecords],
           calls' = [calls EXCEPT ![i] = c]
    PROVE  /\ \A j \in Calls : calls'[j] \in {calls[j], c}
           /\ \A r \in Reservations' : \/ r \in Reservations /\ r[1] # i
                                       \/ \E n \in CallConn(c) : r = <<i, n>>
           /\ Fathers' \subseteq Fathers \cup CallFather(c)
           /\ Own \subseteq Own' \cup OwnOf(calls[i])
           /\ OwnOf(c) \subseteq Own'
<1>1. \A j \in Calls : calls'[j] = IF j = i THEN c ELSE calls[j]
  OBVIOUS
<1>2. \A r \in Reservations' : \/ r \in Reservations /\ r[1] # i
                               \/ \E n \in CallConn(c) : r = <<i, n>>
  <2> SUFFICES ASSUME NEW j \in Calls, NEW n \in CallConn(calls'[j])
               PROVE  \/ <<j, n>> \in Reservations /\ j # i
                      \/ j = i /\ n \in CallConn(c)
    BY DEF Reservations
  <2>1. QED
    BY <1>1 DEF Reservations
<1>3. Fathers' \subseteq Fathers \cup CallFather(c)
  BY <1>1 DEF Fathers
<1>4. Own \subseteq Own' \cup OwnOf(calls[i])
  BY <1>1 DEF Own
<1>5. OwnOf(c) \subseteq Own'
  BY <1>1 DEF Own
<1>6. QED
  BY <1>1, <1>2, <1>3, <1>4, <1>5

\* A step that is not of a handler.
LEMMA SameSlots ==
    ASSUME UNCHANGED calls
    PROVE  /\ \A j \in Calls : calls'[j] \in {calls[j], Idle}
           /\ Reservations' = Reservations /\ Fathers' = Fathers /\ Own' = Own
  BY DEF Reservations, Fathers, Own

\* A slot without a handler knows, has and waits for nothing.
LEMMA IdleKnowsNothing ==
    /\ CallTabs(Idle) = {} /\ CallClaims(Idle) = {} /\ CallConn(Idle) = {}
    /\ CallFather(Idle) = {} /\ OwnOf(Idle) = {}
  BY DEF Idle, CallTabs, CallClaims, CallConn, CallFather, CallTerm, OwnOf, Reserving, PaneOps

\* What is known are tabs.
LEMMA KnownTabs ==
    ASSUME TabTypes
    PROVE  Known \subseteq TabRecords /\ \A f \in Frames : f[3] \in BOOLEAN
<1>1. ASSUME NEW j \in Calls, NEW t \in CallTabs(calls[j])
      PROVE  t \in TabRecords
  <2>1. calls[j] \in CallRecords
    BY DEF TabTypes
  <2>2. calls[j].seen \subseteq TabRecords /\ {calls[j].tab, calls[j].side} \subseteq TabRecords
    BY <2>1 DEF CallRecords
  <2>3. QED
    BY <1>1, <2>2 DEF CallTabs
<1>2. Known \subseteq TabRecords
  BY <1>1 DEF Known, TabTypes
<1>3. \A t \in TabRecords : Frame(t)[3] \in BOOLEAN
  BY DEF Frame, TabRecords
<1>4. QED
  BY <1>2, <1>3 DEF Frames

-----------------------------------------------------------------------------
\* Nothing new is known, opened or waited for.
LEMMA LessFits ==
    ASSUME TabTypes, made' \in Nat, made <= made', TabsFit,
           Frames' \subseteq Frames, Claims' \subseteq Claims,
           \A r \in Reservations' : r \in Reservations, Fathers' \subseteq Fathers,
           conns' \subseteq conns, terms' \subseteq terms, \A p \in terms' : p[2] \in conns'
    PROVE  TabsFit'
<1>1. Terminals' \subseteq Terminals /\ 1..made \subseteq 1..made' /\ 0..made \subseteq 0..made'
  BY DEF Terminals, TabTypes
<1>2. BackendFits'
  BY DEF TabsFit, BackendFits
<1>3. FramesFit'
  BY <1>1 DEF TabsFit, FramesFit
<1>4. ReservedOnce'
  BY <1>1 DEF TabsFit, ReservedOnce
<1>5. PanesFit'
  BY <1>1 DEF TabsFit, PanesFit
<1>6. QED
  BY <1>2, <1>3, <1>4, <1>5 DEF TabsFit

\* A handler opens a connection.
LEMMA OpeningFits ==
    ASSUME TabTypes, made' = made + 1, TabsFit, NEW i,
           Frames' \subseteq Frames, Claims' \subseteq Claims, Fathers' \subseteq Fathers,
           \A r \in Reservations' : r \in Reservations \/ r = <<i, made + 1>>,
           conns' = conns \cup {made + 1}, terms' = terms
    PROVE  TabsFit'
<1>1. /\ Terminals' = Terminals /\ 1..made \subseteq 1..made' /\ 0..made \subseteq 0..made'
      /\ made \in Nat /\ made + 1 \in 1..made' /\ made + 1 \notin 0..made
      /\ Terminals \subseteq 1..made
  BY DEF Terminals, TabTypes
<1>2. BackendFits'
  <2>1. \A p \in terms' : p[1] # made + 1
    BY <1>1 DEF Terminals
  <2>2. QED
    BY <2>1 DEF TabsFit, BackendFits
<1>3. FramesFit'
  <2>1. \A f \in Frames' : f[2] # made + 1
    BY <1>1 DEF TabsFit, FramesFit
  <2>2. QED
    BY <1>1, <2>1 DEF TabsFit, FramesFit
<1>4. ReservedOnce'
  <2>1. \A f \in Frames' : made + 1 # f[1] /\ made + 1 # f[2] /\ made + 1 # f[4]
    BY <1>1 DEF TabsFit, FramesFit
  <2>2. \A k \in Claims' : made + 1 # k[2]
    BY <1>1 DEF TabsFit, PanesFit
  <2>3. made + 1 \notin Fathers' /\ made + 1 \notin Terminals'
    BY <1>1 DEF TabsFit, FramesFit
  <2>4. \A r \in Reservations' :
           /\ r[2] \in 1..made' /\ r[2] \notin Terminals' /\ r[2] \notin Fathers'
           /\ \A f \in Frames' : r[2] # f[1] /\ r[2] # f[2] /\ r[2] # f[4]
           /\ \A k \in Claims' : r[2] # k[2]
    BY <1>1, <2>1, <2>2, <2>3 DEF TabsFit, ReservedOnce
  <2>5. ASSUME NEW r \in Reservations', NEW q \in Reservations', r[2] = q[2]
        PROVE  r = q
    <3>1. \A s \in Reservations : s[2] # made + 1
      BY <1>1 DEF TabsFit, ReservedOnce
    <3>2. QED
      BY <2>5, <3>1 DEF TabsFit, ReservedOnce
  <2>6. QED
    BY <2>4, <2>5 DEF ReservedOnce
<1>5. PanesFit'
  BY <1>1 DEF TabsFit, PanesFit
<1>6. QED
  BY <1>2, <1>3, <1>4, <1>5 DEF TabsFit

\* A handler waits for an SFTP session of a connection that some SSH tab has.
LEMMA AskingFits ==
    ASSUME TabTypes, made' = made, TabsFit, NEW g \in Frames, ~g[3],
           Frames' \subseteq Frames, Claims' \subseteq Claims,
           \A r \in Reservations' : r \in Reservations, Fathers' \subseteq Fathers \cup {g[2]},
           conns' = conns, terms' = terms
    PROVE  TabsFit'
<1>1. Terminals' = Terminals
  BY DEF Terminals
<1>2. BackendFits'
  BY DEF TabsFit, BackendFits
<1>3. FramesFit'
  BY <1>1 DEF TabsFit, FramesFit
<1>4. ReservedOnce'
  BY <1>1 DEF TabsFit, FramesFit, ReservedOnce
<1>5. PanesFit'
  BY <1>1 DEF TabsFit, PanesFit
<1>6. QED
  BY <1>2, <1>3, <1>4, <1>5 DEF TabsFit

\* Connection c, which a handler had opened or opens now, becomes that of a tab, with a
\* new terminal or none.
LEMMA ShowingFits ==
    ASSUME TabTypes, made' \in Nat, made <= made', TabsFit, NEW i, NEW t \in TabRecords, NEW n,
           \/ <<i, t.conn>> \in Reservations /\ conns' = conns
           \/ t.conn = made + 1 /\ made < made' /\ conns' = conns \cup {t.conn},
           t.id = t.conn \/ (~t.file /\ \E f \in Frames : f[1] = t.id /\ ~f[3]),
           t.parent = 0, Frames' \subseteq Frames \cup {Frame(t)},
           \/ terms' = terms /\ Claims' \subseteq Claims
           \/ /\ terms' = terms \cup {<<n, t.conn>>}
              /\ Claims' \subseteq Claims \cup {<<n, t.id, t.conn>>}
              /\ ~t.file /\ n \in (made + 1)..made' /\ n # t.conn /\ t.conn \in conns',
           \A r \in Reservations' : r \in Reservations /\ r[1] # i,
           Fathers' \subseteq Fathers
    PROVE  TabsFit'
<1> DEFINE c == t.conn
           id == t.id
           file == t.file
<1>1. Frame(t) = <<id, c, file, 0>> /\ file \in BOOLEAN
  BY DEF Frame, TabRecords
<1>2. /\ 1..made \subseteq 1..made' /\ 0..made \subseteq 0..made' /\ Terminals \subseteq 1..made
      /\ Terminals' \subseteq Terminals \cup {n} /\ conns \subseteq 1..made
      /\ c \notin Terminals' /\ c \in 1..made' /\ c # 0
      /\ (c \in 1..made \/ c = made + 1)
  BY DEF Terminals, TabTypes, TabsFit, ReservedOnce
<1>3. /\ \A f \in Frames : c # f[1] /\ c # f[2] /\ c # f[4]
      /\ \A k \in Claims : c # k[2]
      /\ \A r \in Reservations' : c # r[2]
      /\ c \notin Fathers
  <2>1. CASE <<i, c>> \in Reservations
    <3>1. \A r \in Reservations' : c # r[2]
      BY <2>1 DEF TabsFit, ReservedOnce
    <3>2. /\ \A f \in Frames : c # f[1] /\ c # f[2] /\ c # f[4]
          /\ \A k \in Claims : c # k[2]
          /\ c \notin Fathers
      BY <2>1 DEF TabsFit, ReservedOnce
    <3>3. QED
      BY <3>1, <3>2
  <2>2. CASE c = made + 1
    <3>1. c \notin 0..made /\ c \notin 1..made
      BY <2>2 DEF TabTypes
    <3>2. \A f \in Frames : c # f[1] /\ c # f[2] /\ c # f[4]
      BY <3>1 DEF TabsFit, FramesFit
    <3>3. \A k \in Claims : c # k[2]
      BY <3>1 DEF TabsFit, PanesFit
    <3>4. \A r \in Reservations' : c # r[2]
      BY <3>1 DEF TabsFit, ReservedOnce
    <3>5. c \notin Fathers
      BY <3>1 DEF TabsFit, FramesFit
    <3>6. QED
      BY <3>2, <3>3, <3>4, <3>5
  <2>3. QED
    BY <2>1, <2>2
<1>4. /\ id \in 1..made' /\ \A f \in Frames : f[1] = id => f[3] = file
      /\ \A f \in Frames : f[4] # 0 /\ f[4] = id => ~file
      /\ id \in Fathers => ~file
      /\ \A r \in Reservations' : id # r[2]
  <2>1. CASE id = c
    BY <2>1, <1>2, <1>3
  <2>2. ASSUME ~file, NEW f \in Frames, f[1] = id, ~f[3]
        PROVE  /\ id \in 1..made' /\ \A g \in Frames : g[1] = id => g[3] = file
               /\ \A r \in Reservations' : id # r[2]
    <3>1. id \in 1..made' /\ \A g \in Frames : g[1] = id => ~g[3]
      BY <2>2, <1>2 DEF TabsFit, FramesFit
    <3>2. \A r \in Reservations' : id # r[2]
      BY <2>2 DEF TabsFit, ReservedOnce
    <3>3. \A g \in Frames : g[3] \in BOOLEAN
      BY KnownTabs
    <3>4. QED
      BY <1>1, <2>2, <3>1, <3>2, <3>3
  <2>3. QED
    BY <2>1, <2>2
<1>5. BackendFits'
  BY <1>2 DEF TabsFit, BackendFits, Terminals, TabTypes
<1>6. FramesFit'
  <2>1. \A f \in Frames' : f \in Frames \/ f = <<id, c, file, 0>>
    BY <1>1
  <2>2. \A f \in Frames' : /\ f[1] \in 1..made' /\ f[2] \in 1..made' /\ f[4] \in 0..made'
                           /\ f[4] # 0 => f[3] /\ f[2] \notin conns'
                           /\ f[3] => f[1] = f[2]
                           /\ f[2] \notin Terminals'
    <3>1. ASSUME NEW f \in Frames
          PROVE  /\ f[1] \in 1..made' /\ f[2] \in 1..made' /\ f[4] \in 0..made'
                 /\ f[4] # 0 => f[3] /\ f[2] \notin conns'
                 /\ f[3] => f[1] = f[2]
                 /\ f[2] \notin Terminals'
      <4>1. /\ f[1] \in 1..made /\ f[2] \in 1..made /\ f[4] \in 0..made
            /\ f[4] # 0 => f[3] /\ f[2] \notin conns
            /\ f[3] => f[1] = f[2]
            /\ f[2] \notin Terminals
        BY DEF TabsFit, FramesFit
      <4>2. f[2] \notin Terminals'
        <5>1. n \in (made + 1)..made' => f[2] # n
          BY <4>1 DEF TabTypes
        <5>2. QED
          BY <4>1, <5>1 DEF Terminals
      <4>3. f[4] # 0 => f[2] \notin conns'
        BY <4>1, <1>3
      <4>4. QED
        BY <4>1, <4>2, <4>3, <1>2
    <3>2. QED
      BY <2>1, <3>1, <1>2, <1>4
  <2>3. \A f, g \in Frames : /\ f[2] = g[2] => f[1] = g[1]
                             /\ f[1] = g[1] => f[3] = g[3]
                             /\ f[4] # 0 /\ f[4] = g[1] => ~g[3]
    BY DEF TabsFit, FramesFit
  <2>4. \A f, g \in Frames' : f[2] = g[2] => f[1] = g[1]
    BY <2>1, <2>3, <1>3
  <2>5. \A f, g \in Frames' : f[1] = g[1] => f[3] = g[3]
    BY <2>1, <2>3, <1>4
  <2>6. \A f, g \in Frames' : f[4] # 0 /\ f[4] = g[1] => ~g[3]
    BY <2>1, <2>3, <1>4
  <2>7. \A d \in Fathers' : d \in 1..made' /\ \A g \in Frames' : g[1] = d => ~g[3]
    BY <2>1, <1>2, <1>3, <1>4 DEF TabsFit, FramesFit
  <2>8. QED
    BY <2>2, <2>7, <2>4, <2>5, <2>6 DEF FramesFit
<1>7. ReservedOnce'
  <2>1. \A r \in Reservations' : /\ r[2] \in 1..made' /\ r[2] \notin Fathers'
                                 /\ r[2] \in 1..made /\ r[2] \notin Terminals
    BY <1>2 DEF TabsFit, ReservedOnce
  <2>2. \A r \in Reservations' : r[2] \notin Terminals'
    <3>1. CASE terms' = terms
      BY <2>1, <3>1 DEF Terminals
    <3>2. CASE n \in (made + 1)..made'
      BY <2>1, <3>2, <1>2 DEF TabTypes
    <3>3. QED
      BY <3>1, <3>2
  <2>3. \A r \in Reservations', f \in Frames' : r[2] # f[1] /\ r[2] # f[2] /\ r[2] # f[4]
    <3>1. \A r \in Reservations', f \in Frames : r[2] # f[1] /\ r[2] # f[2] /\ r[2] # f[4]
      BY DEF TabsFit, ReservedOnce
    <3>2. \A r \in Reservations' : r[2] # id /\ r[2] # c /\ r[2] # 0
      BY <1>3, <1>4, <2>1
    <3>3. QED
      BY <1>1, <3>1, <3>2
  <2>4. \A r \in Reservations', k \in Claims' : r[2] # k[2]
    <3>1. \A r \in Reservations', k \in Claims : r[2] # k[2]
      BY DEF TabsFit, ReservedOnce
    <3>2. \A k \in Claims' : k \in Claims \/ k[2] = id
      OBVIOUS
    <3>3. QED
      BY <3>1, <3>2, <1>4
  <2>5. \A r, q \in Reservations' : r[2] = q[2] => r = q
    BY DEF TabsFit, ReservedOnce
  <2>6. QED
    BY <2>1, <2>2, <2>3, <2>4, <2>5 DEF ReservedOnce
<1>8. PanesFit'
  <2>1. \A f \in Frames' : f \in Frames \/ f = <<id, c, file, 0>>
    BY <1>1
  <2>2. \A k \in Claims, f \in Frames' : f[1] = k[2] => ~f[3]
    <3>1. \A k \in Claims, f \in Frames : f[1] = k[2] => ~f[3]
      BY DEF TabsFit, PanesFit
    <3>2. \A k \in Claims : id = k[2] => ~file
      BY <1>3
    <3>3. QED
      BY <2>1, <3>1, <3>2
  <2>3. \A k \in Claims : k[1] \in 1..made /\ k[1] \notin conns'
    <3>1. \A k \in Claims : k[1] \in 1..made /\ k[1] \notin conns
      BY DEF TabsFit, PanesFit
    <3>2. made + 1 \notin 1..made
      BY DEF TabTypes
    <3>3. QED
      BY <3>1, <3>2
  <2>4. CASE terms' = terms /\ Claims' \subseteq Claims
    BY <1>2, <2>2, <2>4, <2>3 DEF TabsFit, PanesFit
  <2>5. CASE /\ terms' = terms \cup {<<n, c>>} /\ Claims' \subseteq Claims \cup {<<n, id, c>>}
             /\ ~file /\ n \in (made + 1)..made' /\ n # c /\ c \in conns'
    <3>1. n \notin 1..made /\ n \in 1..made'
      BY <2>5 DEF TabTypes
    <3>2. \A k \in Claims' : k \in Claims \/ k = <<n, id, c>>
      BY <2>5
    <3>3. \A p \in terms' : (p \in terms /\ p[1] \in 1..made) \/ p = <<n, c>>
      BY <2>5 DEF TabTypes
    <3>4. \A k \in Claims : /\ k[1] \in 1..made /\ k[2] \in 1..made
                            /\ \A p \in terms : p[1] = k[1] => p[2] = k[3]
      BY DEF TabsFit, PanesFit
    <3>5. \A k \in Claims' : /\ k[1] \in 1..made' /\ k[2] \in 1..made'
                             /\ \A p \in terms' : p[1] = k[1] => p[2] = k[3]
      BY <3>1, <3>2, <3>3, <3>4, <1>2, <1>4
    <3>6. \A f \in Frames' : f[1] = id => ~f[3]
      BY <2>1, <2>5, <1>4
    <3>7. \A k, l \in Claims' : k[1] = l[1] /\ k[2] = l[2] => k[3] = l[3]
      BY <3>1, <3>2, <3>4 DEF TabsFit, PanesFit
    <3>8. n \notin conns'
      BY <2>5, <3>1, <1>2
    <3>9. QED
      BY <2>2, <2>3, <3>2, <3>5, <3>6, <3>7, <3>8 DEF PanesFit
  <2>6. QED
    BY <2>4, <2>5
<1>9. QED
  BY <1>5, <1>6, <1>7, <1>8 DEF TabsFit

\* A tab gets a further terminal of its connection.
LEMMA PaneAddedFits ==
    ASSUME TabTypes, made' = made + 1, TabsFit, NEW k \in Claims, k[3] \in conns,
           Frames' \subseteq Frames, Claims' \subseteq Claims \cup {<<made + 1, k[2], k[3]>>},
           \A r \in Reservations' : r \in Reservations, Fathers' \subseteq Fathers,
           conns' = conns, terms' = terms \cup {<<made + 1, k[3]>>}
    PROVE  TabsFit'
<1> DEFINE n == made + 1
<1>1. /\ 1..made \subseteq 1..made' /\ 0..made \subseteq 0..made' /\ Terminals \subseteq 1..made
      /\ Terminals' \subseteq Terminals \cup {n} /\ conns \subseteq 1..made
      /\ n \notin 1..made /\ n \in 1..made'
  <2>1. Terminals' \subseteq Terminals \cup {n}
    BY DEF Terminals
  <2>2. Terminals \subseteq 1..made
    BY DEF Terminals, TabTypes
  <2>3. QED
    BY <2>1, <2>2 DEF TabTypes
<1>2. BackendFits'
  BY <1>1 DEF TabsFit, BackendFits, Terminals
<1>3. FramesFit'
  <2>1. \A f \in Frames' : f[2] # n
    BY <1>1 DEF TabsFit, FramesFit
  <2>2. QED
    BY <2>1, <1>1 DEF TabsFit, FramesFit
<1>4. ReservedOnce'
  <2>1. \A r \in Reservations' : r[2] # n
    BY <1>1 DEF TabsFit, ReservedOnce
  <2>2. \A r \in Reservations', l \in Claims' : r[2] # l[2]
    BY DEF TabsFit, ReservedOnce
  <2>3. QED
    BY <2>1, <2>2, <1>1 DEF TabsFit, ReservedOnce
<1>5. PanesFit'
  <2>1. \A l \in Claims' : l \in Claims \/ (l[1] = n /\ l[2] = k[2] /\ l[3] = k[3])
    OBVIOUS
  <2>2. \A p \in terms' : (p \in terms /\ p[1] \in 1..made) \/ (p[1] = n /\ p[2] = k[3])
    BY DEF TabTypes
  <2>3. \A l \in Claims : /\ l[1] \in 1..made /\ l[2] \in 1..made
                          /\ \A p \in terms : p[1] = l[1] => p[2] = l[3]
                          /\ \A f \in Frames : f[1] = l[2] => ~f[3]
    BY DEF TabsFit, PanesFit
  <2>4. \A l \in Claims' : /\ l[1] \in 1..made' /\ l[2] \in 1..made'
                           /\ \A p \in terms' : p[1] = l[1] => p[2] = l[3]
                           /\ \A f \in Frames' : f[1] = l[2] => ~f[3]
    BY <1>1, <2>1, <2>2, <2>3
  <2>5. \A l, m \in Claims' : l[1] = m[1] /\ l[2] = m[2] => l[3] = m[3]
    BY <1>1, <2>1, <2>3 DEF TabsFit, PanesFit
  <2>6. \A l \in Claims' : l[1] \notin conns'
    BY <1>1, <2>1 DEF TabsFit, PanesFit
  <2>7. QED
    BY <2>4, <2>5, <2>6 DEF PanesFit
<1>6. QED
  BY <1>2, <1>3, <1>4, <1>5 DEF TabsFit

\* An SFTP tab is opened for a connection that has a tab, with a session of its own.
LEMMA ChildFits ==
    ASSUME TabTypes, made' = made + 1, TabsFit, NEW t \in TabRecords,
           t.id = made + 1, t.conn = made + 1, t.file, t.parent \in Fathers,
           Frames' \subseteq Frames \cup {Frame(t)},
           Claims' \subseteq Claims, \A r \in Reservations' : r \in Reservations,
           Fathers' \subseteq Fathers, conns' = conns, terms' = terms
    PROVE  TabsFit'
<1> DEFINE n == made + 1
           c == t.parent
<1>1. /\ 1..made \subseteq 1..made' /\ 0..made \subseteq 0..made' /\ Terminals' = Terminals
      /\ Terminals \subseteq 1..made /\ conns \subseteq 1..made
      /\ n \notin 0..made /\ n \notin 1..made /\ n \in 1..made'
      /\ c \in 1..made /\ c \in 0..made' /\ c # 0
  BY DEF Terminals, TabTypes, TabsFit, FramesFit
<1>2. BackendFits'
  BY <1>1 DEF TabsFit, BackendFits
<1>3. \A f \in Frames' : f \in Frames \/ (f[1] = n /\ f[2] = n /\ f[3] /\ f[4] = c)
  <2>1. Frame(t)[1] = n /\ Frame(t)[2] = n /\ Frame(t)[4] = c
    BY DEF Frame
  <2>2. Frame(t)[3]
    BY DEF Frame
  <2>3. \A f \in Frames' : f \in Frames \/ f = Frame(t)
    OBVIOUS
  <2>4. QED
    BY <2>1, <2>2, <2>3
<1>4. FramesFit'
  <2>1. \A f \in Frames : /\ f[1] # n /\ f[2] # n /\ f[4] # n
                          /\ f[1] = c => ~f[3]
    BY <1>1 DEF TabsFit, FramesFit
  <2>2. \A d \in Fathers : d # n
    BY <1>1 DEF TabsFit, FramesFit
  <2>3. \A f \in Frames' : /\ f[1] \in 1..made' /\ f[2] \in 1..made' /\ f[4] \in 0..made'
                           /\ f[4] # 0 => f[3] /\ f[2] \notin conns'
                           /\ f[3] => f[1] = f[2]
                           /\ f[2] \notin Terminals'
    BY <1>1, <1>3 DEF TabsFit, FramesFit
  <2>4. \A f, g \in Frames' : f[2] = g[2] => f[1] = g[1]
    BY <1>3, <2>1 DEF TabsFit, FramesFit
  <2>5. \A f, g \in Frames' : f[1] = g[1] => f[3] = g[3]
    <3>1. \A f, g \in Frames : f[1] = g[1] => f[3] = g[3]
      BY DEF TabsFit, FramesFit
    <3>2. QED
      BY <3>1, <2>1, <1>3
  <2>6. \A f, g \in Frames' : f[4] # 0 /\ f[4] = g[1] => ~g[3]
    BY <1>1, <1>3, <2>1 DEF TabsFit, FramesFit
  <2>7. \A d \in Fathers' : d \in 1..made' /\ \A g \in Frames' : g[1] = d => ~g[3]
    BY <1>1, <1>3, <2>2 DEF TabsFit, FramesFit
  <2>8. QED
    BY <2>3, <2>4, <2>5, <2>6, <2>7 DEF FramesFit
<1>5. ReservedOnce'
  <2>1. \A r \in Reservations' : r[2] # n /\ r[2] # c
    BY <1>1 DEF TabsFit, ReservedOnce
  <2>2. QED
    BY <2>1, <1>1, <1>3 DEF TabsFit, ReservedOnce
<1>6. PanesFit'
  <2>1. \A k \in Claims' : k[2] # n
    BY <1>1 DEF TabsFit, PanesFit
  <2>2. QED
    BY <2>1, <1>1, <1>3 DEF TabsFit, PanesFit
<1>7. QED
  BY <1>2, <1>4, <1>5, <1>6 DEF TabsFit

\* An SSH tab, with panes of which the backend knows nothing and new ones, comes to be of
\* a connection that a handler had opened, and an SFTP tab gets a new session of it.
LEMMA RefilingFits ==
    ASSUME TabTypes, made' \in Nat, made < made', TabsFit, NEW i,
           NEW s \in TabRecords, NEW t \in TabRecords,
           <<i, s.conn>> \in Reservations, s.conn \in conns, s.id = s.conn, ~s.file,
           s.parent = 0,
           t.id = made + 1, t.conn = made + 1, t.file, t.parent = s.conn,
           Frames' \subseteq Frames \cup {Frame(s), Frame(t)},
           \A k \in Claims' : \/ k \in Claims
                              \/ /\ k[1] \in 1..made' /\ k[1] \notin conns
                                 /\ k[2] = s.conn /\ k[3] = s.conn
                                 /\ \A p \in terms' : p[1] = k[1] => p[2] = s.conn,
           \A r \in Reservations' : r \in Reservations /\ r[1] # i, Fathers' \subseteq Fathers,
           conns' = conns, \A p, q \in terms' : p[1] = q[1] => p = q,
           \A p \in terms' : p \in terms \/ (p[1] \in (made + 2)..made' /\ p[2] = s.conn)
    PROVE  TabsFit'
<1> DEFINE m == made + 1
           c == s.conn
<1>1. /\ 1..made \subseteq 1..made' /\ 0..made \subseteq 0..made' /\ Terminals \subseteq 1..made
      /\ conns \subseteq 1..made /\ 1..made \subseteq 0..m
      /\ m \notin 0..made /\ m \notin 1..made /\ m \in 1..made'
      /\ c \in 1..made /\ c \in 0..made' /\ c # 0 /\ c # m /\ c \notin Terminals
  <2>1. made \in Nat /\ conns \subseteq 1..made /\ Terminals \subseteq 1..made
    BY DEF Terminals, TabTypes
  <2>2. c \in 1..made /\ c \notin Terminals
    BY <2>1 DEF TabsFit, ReservedOnce
  <2>3. QED
    BY <2>1, <2>2
<1>2. /\ \A p \in terms' : \/ p \in terms /\ p[1] \in 1..made
                           \/ p[1] \notin 0..m /\ p[2] = c
      /\ \A x \in Terminals' : x \in Terminals \/ x \notin 0..m
  <2>1. \A x \in (made + 2)..made' : x \notin 0..m
    BY DEF TabTypes
  <2>2. \A p \in terms' : \/ p \in terms /\ p[1] \in 1..made
                          \/ p[1] \notin 0..m /\ p[2] = c
    BY <2>1 DEF TabTypes
  <2>3. QED
    BY <2>2 DEF Terminals
<1>3. \A f \in Frames' : \/ f \in Frames
                         \/ f[1] = c /\ f[2] = c /\ ~f[3] /\ f[4] = 0
                         \/ f[1] = m /\ f[2] = m /\ f[3] /\ f[4] = c
  <2>1. Frame(t)[1] = m /\ Frame(t)[2] = m /\ Frame(t)[4] = c
    BY DEF Frame
  <2>2. Frame(t)[3]
    BY DEF Frame
  <2>3. Frame(s)[1] = c /\ Frame(s)[2] = c /\ Frame(s)[4] = 0
    BY DEF Frame
  <2>4. ~Frame(s)[3]
    BY DEF Frame
  <2>5. \A f \in Frames' : f \in Frames \/ f = Frame(s) \/ f = Frame(t)
    OBVIOUS
  <2>6. QED
    BY <2>1, <2>2, <2>3, <2>4, <2>5
<1>4. /\ \A f \in Frames : /\ c # f[1] /\ c # f[2] /\ c # f[4]
                           /\ m # f[1] /\ m # f[2] /\ m # f[4]
      /\ \A k \in Claims : c # k[2] /\ m # k[2]
      /\ \A r \in Reservations' : c # r[2] /\ m # r[2]
      /\ c \notin Fathers /\ m \notin Fathers
  <2>1. /\ \A f \in Frames : c # f[1] /\ c # f[2] /\ c # f[4]
        /\ \A k \in Claims : c # k[2]
        /\ c \notin Fathers
    BY DEF TabsFit, ReservedOnce
  <2>2. \A r \in Reservations' : c # r[2]
    BY DEF TabsFit, ReservedOnce
  <2>3. \A f \in Frames : m # f[1] /\ m # f[2] /\ m # f[4]
    BY <1>1 DEF TabsFit, FramesFit
  <2>4. \A k \in Claims : m # k[2]
    BY <1>1 DEF TabsFit, PanesFit
  <2>5. \A r \in Reservations' : m # r[2]
    BY <1>1 DEF TabsFit, ReservedOnce
  <2>6. m \notin Fathers
    BY <1>1 DEF TabsFit, FramesFit
  <2>7. QED
    BY <2>1, <2>2, <2>3, <2>4, <2>5, <2>6
<1>5. BackendFits'
  <2>1. \A p \in terms' : p[1] \notin conns' /\ p[2] \in conns'
    BY <1>1, <1>2 DEF TabsFit, BackendFits
  <2>2. QED
    BY <2>1 DEF BackendFits
<1>6. FramesFit'
  <2>1. \A f \in Frames : /\ f[1] \in 1..made /\ f[2] \in 1..made /\ f[4] \in 0..made
                          /\ f[4] # 0 => f[3] /\ f[2] \notin conns
                          /\ f[3] => f[1] = f[2]
                          /\ f[2] \notin Terminals
    BY DEF TabsFit, FramesFit
  <2>2. \A f \in Frames' : /\ f[1] \in 1..made' /\ f[2] \in 1..made' /\ f[4] \in 0..made'
                           /\ f[4] # 0 => f[3] /\ f[2] \notin conns'
                           /\ f[3] => f[1] = f[2]
                           /\ f[2] \notin Terminals'
    BY <1>1, <1>2, <1>3, <2>1
  <2>3. \A f, g \in Frames : /\ f[2] = g[2] => f[1] = g[1]
                             /\ f[1] = g[1] => f[3] = g[3]
                             /\ f[4] # 0 /\ f[4] = g[1] => ~g[3]
    BY DEF TabsFit, FramesFit
  <2>4. \A f, g \in Frames' : f[2] = g[2] => f[1] = g[1]
    BY <1>1, <1>3, <1>4, <2>3
  <2>5. \A f, g \in Frames' : f[1] = g[1] => f[3] = g[3]
    <3>1. Frame(s)[3] \in BOOLEAN /\ Frame(t)[3] \in BOOLEAN
      BY DEF Frame, TabRecords
    <3>2. \A f \in Frames' : f[3] \in BOOLEAN
      BY <3>1, KnownTabs
    <3>3. QED
      BY <1>1, <1>3, <1>4, <2>3, <3>2
  <2>6. \A f, g \in Frames' : f[4] # 0 /\ f[4] = g[1] => ~g[3]
    BY <1>1, <1>3, <1>4, <2>3
  <2>7. \A d \in Fathers' : d \in 1..made' /\ \A g \in Frames' : g[1] = d => ~g[3]
    BY <1>1, <1>3, <1>4 DEF TabsFit, FramesFit
  <2>8. QED
    BY <2>2, <2>4, <2>5, <2>6, <2>7 DEF FramesFit
<1>7. ReservedOnce'
  <2>1. \A r \in Reservations' :
           /\ r[2] \in 1..made /\ r[2] \notin Terminals' /\ r[2] \notin Fathers'
    BY <1>1, <1>2 DEF TabsFit, ReservedOnce
  <2>2. \A r \in Reservations', f \in Frames : r[2] # f[1] /\ r[2] # f[2] /\ r[2] # f[4]
    BY DEF TabsFit, ReservedOnce
  <2>3. \A r \in Reservations', f \in Frames' : r[2] # f[1] /\ r[2] # f[2] /\ r[2] # f[4]
    BY <1>1, <1>3, <1>4, <2>1, <2>2
  <2>4. \A r \in Reservations', k \in Claims' : r[2] # k[2]
    BY <1>4 DEF TabsFit, ReservedOnce
  <2>5. \A r, q \in Reservations' : r[2] = q[2] => r = q
    BY DEF TabsFit, ReservedOnce
  <2>6. QED
    BY <1>1, <2>1, <2>3, <2>4, <2>5 DEF ReservedOnce
<1>8. PanesFit'
  <2>1. \A k \in Claims : /\ k[1] \in 1..made /\ k[2] \in 1..made
                          /\ \A p \in terms : p[1] = k[1] => p[2] = k[3]
                          /\ \A f \in Frames : f[1] = k[2] => ~f[3]
    BY DEF TabsFit, PanesFit
  <2>2. \A k \in Claims' : /\ k[1] \in 1..made' /\ k[2] \in 1..made'
                           /\ \A p \in terms' : p[1] = k[1] => p[2] = k[3]
    <3>1. ASSUME NEW k \in Claims', k \in Claims
          PROVE  /\ k[1] \in 1..made' /\ k[2] \in 1..made'
                 /\ \A p \in terms' : p[1] = k[1] => p[2] = k[3]
      BY <3>1, <1>1, <1>2, <2>1
    <3>2. QED
      BY <3>1, <1>1
  <2>3. \A k \in Claims' : k \in Claims \/ (k[2] = c /\ k[1] \notin conns)
    OBVIOUS
  <2>4. \A k \in Claims', f \in Frames' : f[1] = k[2] => ~f[3]
    BY <1>1, <1>3, <1>4, <2>1, <2>3
  <2>5. \A k, l \in Claims' : k[1] = l[1] /\ k[2] = l[2] => k[3] = l[3]
    BY <1>4, <2>3 DEF TabsFit, PanesFit
  <2>6. \A k \in Claims' : k[1] \notin conns'
    BY <1>1, <2>3 DEF TabsFit, PanesFit
  <2>7. QED
    BY <2>2, <2>4, <2>5, <2>6 DEF PanesFit
<1>9. QED
  BY <1>5, <1>6, <1>7, <1>8 DEF TabsFit

-----------------------------------------------------------------------------
\* An idle handler is one that fits any others.
LEMMA IdleIsCall == Idle \in CallRecords /\ \A cs : CallFits(Idle, cs)
  BY DEF Idle, CallRecords, NoTab, Tab, TabRecords, Ops, Goals, Protocol, CallFits, Apart

\* What tabs hold, tab by tab.
LEMMA HeldByIs ==
    ASSUME NEW ts, NEW x
    PROVE  x \in HeldBy(ts) <=> \E t \in ts : x = t.conn \/ x \in Panes(t)
  BY DEF HeldBy

\* The handlers that do not go on stay what they are, whatever is opened.
LEMMA CallsStayFit ==
    ASSUME TabTypes, TabsFit, CallsFit, NEW c, \A j \in Calls : calls'[j] \in {calls[j], c},
           CallFits(c, conns'), \A x \in conns' : x \in conns \/ x \notin 1..made
    PROVE  CallsFit'
<1>1. ASSUME NEW j \in Calls
      PROVE  CallFits(calls[j], conns')
  <2>1. \A t \in CallTabs(calls[j]) : t.conn \in 1..made
    <3>1. \A t \in CallTabs(calls[j]) : Frame(t) \in Frames /\ Frame(t)[2] = t.conn
      BY DEF Frames, Known, Frame
    <3>2. QED
      BY <3>1 DEF TabsFit, FramesFit
  <2>2. calls[j].goal = "again" => calls[j].tab.conn \in 1..made
    BY <2>1 DEF CallTabs
  <2>3. calls[j].goal = "files" => calls[j].side.conn \in 1..made
    BY <2>1 DEF CallTabs
  <2>4. QED
    BY <2>2, <2>3 DEF CallsFit, CallFits
<1>2. QED
  BY <1>1 DEF CallsFit

\* A step that opens nothing keeps what fits, and all it has to see to is that the tabs
\* stay apart and that nothing is dropped in silence.
LEMMA LessStays ==
    ASSUME TabsInv, TabTypes', made <= made',
           NEW c, \A j \in Calls : calls'[j] \in {calls[j], c}, CallFits(c, conns'),
           \A t \in tabs' \cup away' \cup CallTabs(c) :
               Frame(t) \in Frames /\ TabClaims(t) \subseteq Claims,
           CallClaims(c) \subseteq Claims,
           \A r \in Reservations' : r \in Reservations, Fathers' \subseteq Fathers,
           conns' \subseteq conns, terms' \subseteq terms, \A p \in terms' : p[2] \in conns',
           Apart(tabs'),
           \A x \in conns' \cup Terminals' :
               x \in HeldBy(tabs \cup away) \cup Own \cup lost
                  => x \in HeldBy(tabs' \cup away') \cup Own' \cup lost'
    PROVE  TabsInv'
<1>1. Frames' \subseteq Frames /\ Claims' \subseteq Claims
  <2>1. Frames' \subseteq Frames \cup {} /\ Claims' \subseteq Claims \cup {}
    <3>1. /\ \A t \in tabs' \cup away' \cup CallTabs(c) :
                Frame(t) \in Frames \cup {} /\ TabClaims(t) \subseteq Claims \cup {}
          /\ CallClaims(c) \subseteq Claims \cup {}
      OBVIOUS
    <3>2. QED
      BY <3>1, Views
  <2>2. QED
    BY <2>1
<1>2. TabsFit'
  BY <1>1, LessFits DEF TabsInv, TabTypes
<1>3. CallsFit'
  BY CallsStayFit DEF TabsInv
<1>4. OwnedOrLost'
  BY DEF TabsInv, OwnedOrLost, Terminals
<1>5. QED
  BY <1>2, <1>3, <1>4 DEF TabsInv

\* The same, when handler i goes on as c.
LEMMA LessKeeps ==
    ASSUME TabsInv, TabTypes', made <= made', NEW i \in Calls, NEW c,
           calls' = [calls EXCEPT ![i] = c], CallFits(c, conns'),
           \A t \in tabs' \cup away' \cup CallTabs(c) :
               Frame(t) \in Frames /\ TabClaims(t) \subseteq Claims,
           CallClaims(c) \subseteq Claims,
           CallConn(c) \subseteq CallConn(calls[i]), CallFather(c) = {},
           conns' \subseteq conns, terms' \subseteq terms, \A p \in terms' : p[2] \in conns',
           Apart(tabs'),
           \A x \in conns' \cup Terminals' :
               x \in HeldBy(tabs \cup away) \cup OwnOf(calls[i]) \cup lost
                  => x \in HeldBy(tabs' \cup away') \cup OwnOf(c) \cup lost'
    PROVE  TabsInv'
<1>1. calls \in [Calls -> CallRecords]
  BY DEF TabsInv, TabTypes
<1>2. /\ \A j \in Calls : calls'[j] \in {calls[j], c}
      /\ \A r \in Reservations' : \/ r \in Reservations /\ r[1] # i
                                  \/ \E n \in CallConn(c) : r = <<i, n>>
      /\ Fathers' \subseteq Fathers \cup CallFather(c)
      /\ Own \subseteq Own' \cup OwnOf(calls[i])
      /\ OwnOf(c) \subseteq Own'
  BY <1>1, Slots
<1>3. \A r \in Reservations' : r \in Reservations
  <2>1. \A n \in CallConn(calls[i]) : <<i, n>> \in Reservations
    BY DEF Reservations
  <2>2. QED
    BY <1>2, <2>1
<1>4. QED
  BY <1>2, <1>3, LessStays

\* The same, when all that changes is the handler.
LEMMA Continues ==
    ASSUME TabsInv, NEW i \in Calls, NEW c \in CallRecords,
           calls' = [calls EXCEPT ![i] = c], UNCHANGED <<tabs, away, conns, terms, made, lost>>,
           CallTabs(c) \subseteq Known, CallClaims(c) \subseteq Claims,
           CallConn(c) \subseteq CallConn(calls[i]), CallFather(c) = {},
           OwnOf(calls[i]) \subseteq OwnOf(c), CallFits(c, conns)
    PROVE  TabsInv'
<1>1. TabTypes'
  BY DEF TabsInv, TabTypes
<1>2. \A t \in tabs' \cup away' \cup CallTabs(c) :
          Frame(t) \in Frames /\ TabClaims(t) \subseteq Claims
  BY DEF Frames, Claims, Known
<1>3. made <= made' /\ \A p \in terms' : p[2] \in conns'
  BY DEF TabsInv, TabTypes, TabsFit, BackendFits
<1>4. Apart(tabs') /\ CallFits(c, conns')
  BY DEF TabsInv
<1>5. QED
  BY <1>1, <1>2, <1>3, <1>4, LessKeeps DEF Terminals

\* A tab of the window is known.
LEMMA TabIsKnown ==
    ASSUME TabTypes, NEW t \in tabs
    PROVE  /\ t \in Known /\ t \in TabRecords /\ Frame(t) \in Frames
           /\ \A x \in Panes(t) : <<x, t.id, t.conn>> \in Claims
  BY DEF TabTypes, Known, Frames, Claims, TabClaims

\* A handler starts with what it captured of the tabs.
LEMMA StartKeeps ==
    ASSUME TabsInv, NEW i \in Calls, NEW c \in CallRecords, Start(i, c),
           CallTabs(c) \subseteq tabs, CallClaims(c) \subseteq Claims,
           CallConn(c) = {}, CallFather(c) = {}, CallFits(c, conns)
    PROVE  TabsInv'
<1>1. OwnOf(calls[i]) = {}
  BY IdleKnowsNothing DEF Start
<1>2. CallTabs(c) \subseteq Known
  BY DEF Known
<1>3. QED
  BY <1>1, <1>2, Continues DEF Start

\* A handler for a profile starts with nothing.
LEMMA FreshStartsKeep ==
    ASSUME TabsInv, NEW i \in Calls, NEW p \in Protocols,
           StartOpen(i, p) \/ StartShell(i) \/ StartDelete(i, p)
    PROVE  TabsInv'
<1>1. ASSUME NEW c \in CallRecords, Start(i, c), c.op \in {"opening", "openingShell", "deleting"},
             c.goal \in {"none", "new"}, c.seen = {}
      PROVE  TabsInv'
  <2>1. /\ CallTabs(c) = {} /\ CallClaims(c) = {} /\ CallConn(c) = {} /\ CallFather(c) = {}
    BY <1>1 DEF CallTabs, CallClaims, CallConn, CallFather, Reserving, PaneOps
  <2>2. CallFits(c, conns)
    BY <1>1 DEF CallFits, Apart
  <2>3. QED
    BY <1>1, <2>1, <2>2, StartKeeps
<1>2. p \in Protocol
  BY TabsAssumption DEF Protocol
<1>3. CASE StartOpen(i, p)
  <2> DEFINE c == [Idle EXCEPT !.op = "opening", !.goal = "new", !.prof = p]
  <2>1. c \in CallRecords /\ c.op = "opening" /\ c.goal = "new" /\ c.seen = {}
    BY <1>2, IdleIsCall DEF Idle, CallRecords, Ops, Goals
  <2>2. QED
    BY <1>1, <1>3, <2>1 DEF StartOpen
<1>4. CASE StartShell(i)
  <2> DEFINE c == [Idle EXCEPT !.op = "openingShell", !.goal = "new"]
  <2>1. c \in CallRecords /\ c.op = "openingShell" /\ c.goal = "new" /\ c.seen = {}
    BY IdleIsCall DEF Idle, CallRecords, Ops, Goals
  <2>2. QED
    BY <1>1, <1>4, <2>1 DEF StartShell
<1>5. CASE StartDelete(i, p)
  <2> DEFINE c == [Idle EXCEPT !.op = "deleting", !.prof = p]
  <2>1. c \in CallRecords /\ c.op = "deleting" /\ c.goal = "none" /\ c.seen = {}
    BY <1>2, IdleIsCall DEF Idle, CallRecords, Ops
  <2>2. QED
    BY <1>1, <1>5, <2>1 DEF StartDelete
<1>6. QED
  BY <1>3, <1>4, <1>5

\* A handler for a tab knows that tab, or all there are.
LEMMA TabStartsKeep ==
    ASSUME TabsInv, NEW i \in Calls, NEW t \in tabs,
           StartReconnect(i, t) \/ StartClose(i, t) \/ StartDetach(i, t)
    PROVE  TabsInv'
<1>1. t \in TabRecords /\ NoTab \in TabRecords /\ tabs \in SUBSET TabRecords /\ Apart(tabs)
  BY TabIsKnown, IdleIsCall DEF TabsInv, TabTypes, Idle, CallRecords
<1>2. CASE StartReconnect(i, t)
  <2> DEFINE c == [Idle EXCEPT !.op = "closingOld", !.goal = "again", !.prof = t.prof, !.tab = t]
  <2>1. Start(i, c) /\ ~t.file
    BY <1>2 DEF StartReconnect
  <2>2. c \in CallRecords
    BY <1>1, IdleIsCall DEF CallRecords, Ops, Goals, TabRecords
  <2>3. c.op = "closingOld" /\ c.goal = "again" /\ c.seen = {} /\ c.tab = t
    BY DEF Idle
  <2> HIDE DEF c
  <2>4. CallTabs(c) = {t} /\ CallClaims(c) = {} /\ CallConn(c) = {} /\ CallFather(c) = {}
    BY <2>3 DEF CallTabs, CallClaims, CallConn, CallFather, Reserving, PaneOps
  <2>5. CallFits(c, conns)
    BY <2>1, <2>3 DEF CallFits, Apart
  <2>6. QED
    BY <2>1, <2>2, <2>4, <2>5, StartKeeps
<1>3. ASSUME NEW op \in {"closing", "detaching"}, NEW c, Start(i, c),
             c = [Idle EXCEPT !.op = op, !.tab = t, !.seen = tabs, !.mine = (active = t.id)]
      PROVE  TabsInv'
  <2>1. (active = t.id) \in BOOLEAN
    OBVIOUS
  <2>2. c \in CallRecords
    BY <1>1, <1>3, <2>1, IdleIsCall DEF CallRecords, Ops
  <2>3. c.op = op /\ c.goal = "none" /\ c.seen = tabs /\ c.tab = t
    BY <1>3 DEF Idle
  <2>4. CallTabs(c) = tabs /\ CallClaims(c) = {} /\ CallConn(c) = {} /\ CallFather(c) = {}
    BY <1>3, <2>3 DEF CallTabs, CallClaims, CallConn, CallFather, Reserving, PaneOps
  <2>5. CallFits(c, conns)
    BY <1>1, <2>3 DEF CallFits
  <2>6. QED
    BY <1>3, <2>2, <2>4, <2>5, StartKeeps
<1>4. QED
  BY <1>2, <1>3 DEF StartClose, StartDetach

\* A handler for a terminal knows it by its tab and connection.
LEMMA PaneStartsKeep ==
    ASSUME TabsInv, NEW i \in Calls, NEW t \in tabs, NEW x \in Panes(t),
           StartSplit(i, t, x) \/ StartClosePane(i, t, x) \/ StartX11(i, t, x)
    PROVE  TabsInv'
<1>1. /\ t \in TabRecords /\ NoTab \in TabRecords /\ Named(t) \in TabRecords
      /\ Named(t).id = t.id /\ Named(t).conn = t.conn
      /\ \A y \in Panes(t) : <<y, t.id, t.conn>> \in Claims
      /\ x \in Nat /\ x # 0
  <2>1. t \in TabRecords /\ NoTab \in TabRecords
    BY TabIsKnown, IdleIsCall DEF TabsInv, Idle, CallRecords
  <2>2. \A y \in Panes(t) : <<y, t.id, t.conn>> \in Claims
    BY TabIsKnown DEF TabsInv
  <2>3. x \in Nat /\ x # 0
    BY <2>1 DEF Panes, TabRecords
  <2>4. Named(t) \in TabRecords /\ Named(t).id = t.id /\ Named(t).conn = t.conn
    BY <2>1 DEF Named, NoTab, Tab, TabRecords
  <2>5. QED
    BY <2>1, <2>2, <2>3, <2>4
<1>2. ASSUME NEW c \in CallRecords, Start(i, c), c.op \in {"splitting", "closingPane", "replacing"},
             c.goal = "none", c.seen = {}, c.tab = Named(t), c.old = x,
             c.op = "closingPane" => c.new \in Panes(t) \cup {0}
      PROVE  TabsInv'
  <2>1. CallTabs(c) = {} /\ CallConn(c) = {} /\ CallFather(c) = {}
    BY <1>2 DEF CallTabs, CallConn, CallFather, Reserving
  <2>2. CallClaims(c) \subseteq Claims
    BY <1>1, <1>2 DEF CallClaims
  <2>3. CallFits(c, conns)
    BY <1>2 DEF CallFits, Apart
  <2>4. QED
    BY <1>2, <2>1, <2>2, <2>3, StartKeeps
<1>3. CASE StartSplit(i, t, x)
  <2> DEFINE c == [Idle EXCEPT !.op = "splitting", !.tab = Named(t), !.old = x]
  <2>1. /\ c \in CallRecords /\ c.op = "splitting" /\ c.goal = "none" /\ c.seen = {}
        /\ c.tab = Named(t) /\ c.old = x
    BY <1>1, IdleIsCall DEF Idle, CallRecords, Ops, PaneOps
  <2>2. QED
    BY <1>2, <1>3, <2>1 DEF StartSplit
<1>4. CASE StartX11(i, t, x)
  <2> DEFINE c == [Idle EXCEPT !.op = "replacing", !.tab = Named(t), !.old = x]
  <2>1. /\ c \in CallRecords /\ c.op = "replacing" /\ c.goal = "none" /\ c.seen = {}
        /\ c.tab = Named(t) /\ c.old = x
    BY <1>1, IdleIsCall DEF Idle, CallRecords, Ops, PaneOps
  <2>2. QED
    BY <1>2, <1>4, <2>1 DEF StartX11
<1>5. CASE StartClosePane(i, t, x)
  <2>1. PICK n \in IF x = t.prim THEN t.extra ELSE {0} :
            Start(i, [Idle EXCEPT !.op = "closingPane", !.tab = Named(t), !.old = x, !.new = n])
    BY <1>5 DEF StartClosePane
  <2> DEFINE c == [Idle EXCEPT !.op = "closingPane", !.tab = Named(t), !.old = x, !.new = n]
  <2>2. n \in Panes(t) \cup {0} /\ n \in Nat
    BY <1>1 DEF Panes, TabRecords
  <2>3. /\ c \in CallRecords /\ c.op = "closingPane" /\ c.goal = "none" /\ c.seen = {}
        /\ c.tab = Named(t) /\ c.old = x /\ c.new = n
    BY <1>1, <2>2, IdleIsCall DEF Idle, CallRecords, Ops, PaneOps
  <2>4. QED
    BY <1>2, <2>1, <2>2, <2>3
<1>6. QED
  BY <1>3, <1>4, <1>5

\* openFileTransferTab waits for a session of the connection of its SSH tab.
LEMMA StartFilesKeeps ==
    ASSUME TabsInv, NEW i \in Calls, NEW t \in tabs, StartFiles(i, t)
    PROVE  TabsInv'
<1> DEFINE c == [Idle EXCEPT !.op = "openingChild", !.tab = Named(t)]
<1>1. /\ ~t.file /\ calls[i] = Idle /\ calls' = [calls EXCEPT ![i] = c]
      /\ UNCHANGED <<tabs, conns, terms, made, away, lost>>
  BY DEF StartFiles, Start
<1>2. t \in TabRecords /\ Frame(t) \in Frames /\ calls \in [Calls -> CallRecords]
  BY TabIsKnown DEF TabsInv, TabTypes
<1>3. /\ c \in CallRecords /\ c.op = "openingChild" /\ c.goal = "none" /\ c.seen = {}
      /\ c.tab.conn = t.conn
  <2>1. Named(t) \in TabRecords /\ Named(t).conn = t.conn
    BY <1>2, IdleIsCall DEF Idle, CallRecords, Named, NoTab, Tab, TabRecords
  <2>2. QED
    BY <2>1, IdleIsCall DEF Idle, CallRecords, Ops
<1> HIDE DEF c
<1>4. /\ CallTabs(c) = {} /\ CallClaims(c) = {} /\ CallConn(c) = {} /\ OwnOf(calls[i]) = {}
      /\ CallFather(c) = {t.conn}
  BY <1>1, <1>3, IdleKnowsNothing
     DEF CallTabs, CallClaims, CallConn, CallFather, Reserving, PaneOps
<1>5. /\ \A j \in Calls : calls'[j] \in {calls[j], c}
      /\ \A r \in Reservations' : r \in Reservations
      /\ Fathers' \subseteq Fathers \cup {t.conn}
      /\ Own \subseteq Own'
  BY <1>1, <1>2, <1>4, Slots
<1>6. Frames' \subseteq Frames /\ Claims' \subseteq Claims
  <2>1. \A u \in tabs' \cup away' \cup CallTabs(c) :
            Frame(u) \in Frames \cup {} /\ TabClaims(u) \subseteq Claims \cup {}
    BY <1>1, <1>4 DEF Frames, Claims, Known
  <2>2. Frames' \subseteq Frames \cup {} /\ Claims' \subseteq Claims \cup {}
    BY <1>4, <1>5, <2>1, Views
  <2>3. QED
    BY <2>2
<1>7. Frame(t)[2] = t.conn /\ ~Frame(t)[3]
  BY <1>1 DEF Frame
<1>8. TabsFit'
  BY <1>1, <1>2, <1>5, <1>6, <1>7, AskingFits DEF TabsInv
<1>9. CallsFit'
  <2>1. CallFits(c, conns')
    BY <1>3 DEF CallFits, Apart
  <2>2. QED
    BY <1>1, <1>5, <2>1, CallsStayFit DEF TabsInv
<1>10. OwnedOrLost'
  BY <1>1, <1>5 DEF TabsInv, OwnedOrLost, Terminals
<1>11. TabTypes' /\ Apart(tabs')
  BY <1>1, <1>3 DEF TabsInv, TabTypes
<1>12. QED
  BY <1>8, <1>9, <1>10, <1>11 DEF TabsInv

\* reconnectActiveFileTransfer finds the SSH tab by the id of its connection.
LEMMA StartRefileKeeps ==
    ASSUME TabsInv, NEW i \in Calls, NEW t \in tabs, StartRefile(i, t)
    PROVE  TabsInv'
<1>1. PICK s \in IF t.parent = 0 THEN {t} ELSE WithId(t.parent) :
          Start(i, [Idle EXCEPT !.op = "closingOld", !.goal = "files", !.prof = s.prof,
                                !.tab = t, !.side = s])
  BY DEF StartRefile
<1> DEFINE c == [Idle EXCEPT !.op = "closingOld", !.goal = "files", !.prof = s.prof,
                             !.tab = t, !.side = s]
<1>2. /\ s \in tabs /\ s \in TabRecords /\ t \in TabRecords
      /\ Frame(s) \in Frames /\ Frame(t) \in Frames
      /\ t.parent # 0 => s.id = t.parent
  <2>1. s \in tabs /\ (t.parent # 0 => s.id = t.parent)
    BY DEF WithId
  <2>2. QED
    BY <2>1, TabIsKnown DEF TabsInv
<1>3. IF t.parent = 0 THEN s = t ELSE ~s.file
  <2>1. CASE t.parent = 0
    BY <2>1
  <2>2. CASE t.parent # 0
    <3>1. Frame(t)[4] = t.parent /\ Frame(s)[1] = s.id
      BY DEF Frame
    <3>2. ~Frame(s)[3]
      BY <1>2, <2>2, <3>1 DEF TabsInv, TabsFit, FramesFit
    <3>3. QED
      BY <2>2, <3>2 DEF Frame
  <2>3. QED
    BY <2>1, <2>2
<1>4. /\ c \in CallRecords /\ c.op = "closingOld" /\ c.goal = "files" /\ c.seen = {}
      /\ c.tab = t /\ c.side = s
  BY <1>2, IdleIsCall DEF Idle, CallRecords, Ops, Goals, TabRecords
<1> HIDE DEF c
<1>5. CallTabs(c) = {s} /\ CallClaims(c) = {} /\ CallConn(c) = {} /\ CallFather(c) = {}
  BY <1>4 DEF CallTabs, CallClaims, CallConn, CallFather, Reserving, PaneOps
<1>6. CallFits(c, conns)
  BY <1>3, <1>4 DEF CallFits, Apart
<1>7. Start(i, c)
  BY <1>1 DEF c
<1>8. QED
  BY <1>2, <1>4, <1>5, <1>6, <1>7, StartKeeps

\* A handler that ends, or goes on with the connection it opened.
LEMMA EndsKeep ==
    ASSUME TabsInv, NEW i \in Calls,
           \/ OpenRefused(i) \/ DetachFails(i) \/ PaneCallFails(i) \/ ChildFails(i)
    PROVE  TabsInv'
<1>1. /\ calls' = [calls EXCEPT ![i] = Idle]
      /\ UNCHANGED <<tabs, conns, terms, made, away, lost>>
      /\ calls[i].op \in {"opening", "openingShell", "detaching", "splitting", "replacing",
                          "openingChild"}
  BY DEF OpenRefused, DetachFails, PaneCallFails, ChildFails, Await
<1>2. OwnOf(calls[i]) = {}
  BY <1>1 DEF OwnOf, CallConn, CallTerm, Reserving
<1>3. QED
  BY <1>1, <1>2, IdleIsCall, IdleKnowsNothing, Continues

\* What a handler has and knows is among what handlers have and know.
LEMMA CallIsKnown ==
    ASSUME TabsInv, NEW i \in Calls
    PROVE  /\ calls \in [Calls -> CallRecords] /\ calls[i] \in CallRecords
           /\ CallTabs(calls[i]) \subseteq Known /\ CallClaims(calls[i]) \subseteq Claims
           /\ CallFits(calls[i], conns)
           /\ \A n \in CallConn(calls[i]) : <<i, n>> \in Reservations
           /\ CallFather(calls[i]) \subseteq Fathers
  BY DEF TabsInv, TabTypes, Known, Claims, CallsFit, Reservations, Fathers

\* A handler signs in, or fails and turns to closing its connection.
LEMMA GoesOnKeeps ==
    ASSUME TabsInv, NEW i \in Calls, SignedIn(i) \/ Fails(i) \/ AttachFails(i)
    PROVE  TabsInv'
<1>1. PICK op \in {"openingFiles", "attaching", "dropping"} :
          calls' = [calls EXCEPT ![i] = [calls[i] EXCEPT !.op = op]]
  BY DEF SignedIn, Fails, AttachFails, Await
<1>2. /\ UNCHANGED <<tabs, conns, terms, made, away, lost>>
      /\ calls[i].op \in {"loggingIn", "openingFiles", "attaching"}
  BY DEF SignedIn, Fails, AttachFails
<1> DEFINE c == [calls[i] EXCEPT !.op = op]
<1>3. calls[i] \in CallRecords /\ CallTabs(calls[i]) \subseteq Known /\ CallFits(calls[i], conns)
  BY CallIsKnown
<1>4. /\ c \in CallRecords /\ c.op = op
      /\ c.goal = calls[i].goal /\ c.seen = calls[i].seen /\ c.tab = calls[i].tab
      /\ c.side = calls[i].side /\ c.conn = calls[i].conn
  BY <1>3 DEF CallRecords, Ops, Reserving
<1>5. calls' = [calls EXCEPT ![i] = c]
  BY <1>1
<1> HIDE DEF c
<1>6. CallTabs(c) \subseteq Known /\ CallClaims(c) = {} /\ CallFather(c) = {}
  BY <1>3, <1>4 DEF CallTabs, CallClaims, CallFather, PaneOps
<1>7. /\ CallConn(c) \subseteq CallConn(calls[i])
      /\ OwnOf(calls[i]) \subseteq OwnOf(c)
  BY <1>2, <1>4 DEF CallConn, CallTerm, OwnOf, Reserving
<1>8. CallFits(c, conns)
  BY <1>2, <1>3, <1>4 DEF CallFits
<1>9. QED
  BY <1>2, <1>4, <1>5, <1>6, <1>7, <1>8, Continues

\* A handler gets its connection.
LEMMA OpenedKeeps ==
    ASSUME TabsInv, NEW i \in Calls, Opened(i)
    PROVE  TabsInv'
<1>1. PICK op \in {"attaching", "loggingIn"} :
          calls' = [calls EXCEPT ![i] = [calls[i] EXCEPT !.op = op, !.conn = made + 1]]
  BY DEF Opened, Await
<1>2. /\ UNCHANGED <<tabs, terms, away, lost>> /\ calls[i].op = "opening"
      /\ made' = made + 1 /\ conns' = conns \cup {made + 1}
  BY DEF Opened, Fresh
<1> DEFINE c == [calls[i] EXCEPT !.op = op, !.conn = made + 1]
<1>3. /\ calls[i] \in CallRecords /\ CallTabs(calls[i]) \subseteq Known
      /\ CallFits(calls[i], conns) /\ calls \in [Calls -> CallRecords]
  BY CallIsKnown
<1>4. made \in Nat /\ TabTypes /\ TabsFit
  BY DEF TabsInv, TabTypes
<1>5. /\ c \in CallRecords /\ c.op = op
      /\ c.goal = calls[i].goal /\ c.seen = calls[i].seen /\ c.tab = calls[i].tab
      /\ c.side = calls[i].side /\ c.conn = made + 1
  <2>1. made + 1 \in Nat /\ op \in Ops
    BY <1>4 DEF Ops, Reserving
  <2>2. c \in CallRecords
    BY <1>3, <2>1 DEF CallRecords
  <2>3. QED
    BY <1>3, <2>2 DEF CallRecords
<1>6. calls' = [calls EXCEPT ![i] = c]
  BY <1>1
<1> HIDE DEF c
<1>7. /\ CallTabs(c) \subseteq Known /\ CallClaims(c) = {} /\ CallFather(c) = {}
      /\ CallConn(c) = {made + 1} /\ OwnOf(c) = {made + 1} /\ OwnOf(calls[i]) = {}
  BY <1>2, <1>3, <1>5
     DEF CallTabs, CallClaims, CallFather, CallConn, CallTerm, OwnOf, PaneOps, Reserving
<1>8. /\ \A j \in Calls : calls'[j] \in {calls[j], c}
      /\ \A r \in Reservations' : r \in Reservations \/ r = <<i, made + 1>>
      /\ Fathers' \subseteq Fathers
      /\ Own \cup {made + 1} \subseteq Own'
  BY <1>3, <1>6, <1>7, Slots
<1>9. Frames' \subseteq Frames /\ Claims' \subseteq Claims
  <2>1. \A u \in tabs' \cup away' \cup CallTabs(c) :
            Frame(u) \in Frames \cup {} /\ TabClaims(u) \subseteq Claims \cup {}
    BY <1>2, <1>7 DEF Frames, Claims, Known
  <2>2. Frames' \subseteq Frames \cup {} /\ Claims' \subseteq Claims \cup {}
    BY <1>7, <1>8, <2>1, Views
  <2>3. QED
    BY <2>2
<1>10. TabsFit'
  BY <1>2, <1>4, <1>8, <1>9, OpeningFits
<1>11. CallsFit'
  <2>1. \A x \in conns' : x \in conns \/ x \notin 1..made
    BY <1>2, <1>4
  <2>2. c.goal = "again" => c.tab.conn \notin conns'
    <3>1. c.goal = "again" => c.tab \in Known
      BY <1>3, <1>5 DEF CallTabs
    <3>2. \A t \in Known : t.conn \in 1..made
      BY <1>4 DEF Frames, Frame, TabsFit, FramesFit
    <3>3. QED
      BY <1>2, <1>3, <1>4, <1>5, <3>1, <3>2 DEF CallFits
  <2>3. c.goal = "files" => c.side.conn \notin conns'
    <3>1. c.goal = "files" => c.side \in Known
      BY <1>3, <1>5 DEF CallTabs
    <3>2. \A t \in Known : t.conn \in 1..made
      BY <1>4 DEF Frames, Frame, TabsFit, FramesFit
    <3>3. QED
      BY <1>2, <1>3, <1>4, <1>5, <3>1, <3>2 DEF CallFits
  <2>4. CallFits(c, conns')
    BY <1>3, <1>5, <2>2, <2>3 DEF CallFits
  <2>5. QED
    BY <1>8, <2>1, <2>4, CallsStayFit DEF TabsInv
<1>12. OwnedOrLost'
  BY <1>2, <1>8 DEF TabsInv, OwnedOrLost, Terminals
<1>13. TabTypes' /\ Apart(tabs')
  BY <1>2, <1>4, <1>5, <1>6 DEF TabsInv, TabTypes
<1>14. QED
  BY <1>10, <1>11, <1>12, <1>13 DEF TabsInv

-----------------------------------------------------------------------------
\* What is known of a tab, whoever shows it or remembers it.
LEMMA KnownFacts ==
    ASSUME TabsInv, NEW t \in Known
    PROVE  /\ t \in TabRecords /\ Frame(t) \in Frames /\ TabClaims(t) \subseteq Claims
           /\ t.id \in 1..made /\ t.conn \in 1..made /\ t.parent \in 0..made
           /\ t.conn \notin Terminals
           /\ t.parent # 0 => t.file /\ t.conn \notin conns
           /\ t.file => Panes(t) = {} /\ t.id = t.conn
           /\ \A x \in Panes(t) : /\ x \in 1..made /\ x \notin conns
                                  /\ \A p \in terms : p[1] = x => p[2] = t.conn
<1>1. t \in TabRecords /\ Frame(t) \in Frames /\ TabClaims(t) \subseteq Claims
  BY KnownTabs DEF TabsInv, Frames, Claims
<1>2. Frame(t)[1] = t.id /\ Frame(t)[2] = t.conn /\ Frame(t)[4] = t.parent
  BY DEF Frame
<1>3. Frame(t)[3] <=> t.file
  BY DEF Frame
<1>4. /\ t.id \in 1..made /\ t.conn \in 1..made /\ t.parent \in 0..made
      /\ t.conn \notin Terminals
      /\ t.parent # 0 => t.file /\ t.conn \notin conns
      /\ t.file => t.id = t.conn
  BY <1>1, <1>2, <1>3 DEF TabsInv, TabsFit, FramesFit
<1>5. ASSUME NEW x \in Panes(t)
      PROVE  /\ x \in 1..made /\ x \notin conns /\ ~t.file
             /\ \A p \in terms : p[1] = x => p[2] = t.conn
  <2> DEFINE k == <<x, t.id, t.conn>>
  <2>1. k \in Claims /\ k[1] = x /\ k[2] = t.id /\ k[3] = t.conn
    BY <1>1 DEF TabClaims
  <2> HIDE DEF k
  <2>2. QED
    BY <1>1, <1>2, <1>3, <2>1 DEF TabsInv, TabsFit, PanesFit
<1>6. QED
  BY <1>1, <1>4, <1>5

\* A terminal of a tab is of one connection.
LEMMA SameClaim ==
    ASSUME TabsInv, NEW x, NEW id, NEW c, NEW d, <<x, id, c>> \in Claims, <<x, id, d>> \in Claims
    PROVE  c = d
<1> DEFINE k == <<x, id, c>>
           l == <<x, id, d>>
<1>1. k \in Claims /\ l \in Claims /\ k[1] = l[1] /\ k[2] = l[2] /\ k[3] = c /\ l[3] = d
  OBVIOUS
<1> HIDE DEF k, l
<1>2. QED
  BY <1>1 DEF TabsInv, TabsFit, PanesFit

\* What is left of the backend when a connection is released with panes, or panes alone.
LEMMA ReleasedLeaves ==
    ASSUME TabsInv, NEW c, NEW panes,
           \/ Released(c, panes)
           \/ conns' = conns /\ terms' = {p \in terms : p[1] \notin panes}
    PROVE  /\ conns' \subseteq conns /\ terms' \subseteq terms /\ Terminals' \subseteq Terminals
           /\ \A p \in terms' : p[2] \in conns'
           /\ \A x \in panes : x \notin Terminals'
           /\ Released(c, panes) => /\ c \notin conns'
                                    /\ \A p \in terms' : p[2] # c
  BY DEF TabsInv, TabsFit, BackendFits, Released, Terminals

\* A handler has closed the connection nobody was to see.
LEMMA DroppedKeeps ==
    ASSUME TabsInv, NEW i \in Calls, Dropped(i)
    PROVE  TabsInv'
<1>1. /\ calls' = [calls EXCEPT ![i] = Idle] /\ calls[i].op = "dropping"
      /\ Released(calls[i].conn, {}) /\ UNCHANGED <<tabs, made, away, lost>>
  BY DEF Dropped, Await
<1>2. /\ conns' \subseteq conns /\ terms' \subseteq terms /\ Terminals' \subseteq Terminals
      /\ \A p \in terms' : p[2] \in conns'
      /\ calls[i].conn \notin conns'
  BY <1>1, ReleasedLeaves
<1>3. OwnOf(calls[i]) = {calls[i].conn} /\ calls[i].conn \notin Terminals
  <2>1. CallConn(calls[i]) = {calls[i].conn} /\ CallTerm(calls[i]) = {}
    BY <1>1 DEF CallConn, CallTerm, Reserving
  <2>2. <<i, calls[i].conn>> \in Reservations
    BY <2>1, CallIsKnown
  <2>3. QED
    BY <2>1, <2>2 DEF OwnOf, TabsInv, TabsFit, ReservedOnce
<1>4. TabTypes' /\ Apart(tabs') /\ made <= made'
  BY <1>1, <1>2, IdleIsCall DEF TabsInv, TabTypes
<1>5. \A t \in tabs' \cup away' \cup CallTabs(Idle) :
          Frame(t) \in Frames /\ TabClaims(t) \subseteq Claims
  BY <1>1, IdleKnowsNothing DEF Known, Frames, Claims
<1>6. \A x \in conns' \cup Terminals' :
         x \in HeldBy(tabs \cup away) \cup OwnOf(calls[i]) \cup lost
            => x \in HeldBy(tabs' \cup away') \cup OwnOf(Idle) \cup lost'
  BY <1>1, <1>2, <1>3
<1>7. QED
  BY <1>1, <1>2, <1>4, <1>5, <1>6, IdleIsCall, IdleKnowsNothing, LessKeeps

\* A tab stays whose terminals are closed.
LEMMA CloseFailsKeeps ==
    ASSUME TabsInv, NEW i \in Calls, CloseFails(i)
    PROVE  TabsInv'
<1>1. /\ calls' = [calls EXCEPT ![i] = Idle] /\ calls[i].op = "closing"
      /\ conns' = conns /\ terms' = {p \in terms : p[1] \notin Panes(calls[i].tab)}
      /\ UNCHANGED <<tabs, made, away, lost>>
  BY DEF CloseFails, Await
<1>2. /\ conns' \subseteq conns /\ terms' \subseteq terms /\ Terminals' \subseteq Terminals
      /\ \A p \in terms' : p[2] \in conns'
  BY <1>1, ReleasedLeaves
<1>3. OwnOf(calls[i]) = {}
  BY <1>1 DEF OwnOf, CallConn, CallTerm, Reserving
<1>4. TabTypes' /\ Apart(tabs') /\ made <= made'
  BY <1>1, <1>2, IdleIsCall DEF TabsInv, TabTypes
<1>5. \A t \in tabs' \cup away' \cup CallTabs(Idle) :
          Frame(t) \in Frames /\ TabClaims(t) \subseteq Claims
  BY <1>1, IdleKnowsNothing DEF Known, Frames, Claims
<1>6. \A x \in conns' \cup Terminals' :
         x \in HeldBy(tabs \cup away) \cup OwnOf(calls[i]) \cup lost
            => x \in HeldBy(tabs' \cup away') \cup OwnOf(Idle) \cup lost'
  BY <1>1, <1>2, <1>3
<1>7. QED
  BY <1>1, <1>2, <1>4, <1>5, <1>6, IdleIsCall, IdleKnowsNothing, LessKeeps

\* A connection is released while its tabs are marked: they lose their panes, which the
\* backend has no more.
LEMMA MarkedHold ==
    ASSUME TabsInv, NEW c \in 1..made, NEW panes, Released(c, panes),
           tabs' = MarkDisconnected(c), away' = away
    PROVE  /\ tabs' \subseteq TabRecords /\ Apart(tabs')
           /\ \A t \in tabs' : Frame(t) \in Frames /\ TabClaims(t) \subseteq Claims
           /\ \A x \in conns' \cup Terminals' :
                 x \in HeldBy(tabs \cup away) => x \in HeldBy(tabs' \cup away')
<1> DEFINE Mark(t) == IF t.conn = c \/ t.parent = c THEN Disconnected(t) ELSE t
<1>1. /\ \A t \in tabs : Mark(t) \in tabs'
      /\ \A u \in tabs' : \E t \in tabs : u = Mark(t)
  BY DEF MarkDisconnected
<1>2. ASSUME NEW t \in tabs
      PROVE  /\ Mark(t) \in TabRecords /\ Frame(Mark(t)) = Frame(t)
             /\ Mark(t).id = t.id /\ Mark(t).conn = t.conn
             /\ Panes(Mark(t)) \subseteq Panes(t)
             /\ Panes(Mark(t)) = Panes(t) \/ t.conn = c \/ t.parent = c
  <2>1. t \in TabRecords
    BY DEF TabsInv, TabTypes
  <2>2. /\ Disconnected(t) \in TabRecords
        /\ Disconnected(t).id = t.id /\ Disconnected(t).conn = t.conn
        /\ Disconnected(t).file = t.file /\ Disconnected(t).parent = t.parent
        /\ Disconnected(t).prim = 0 /\ Disconnected(t).extra = {}
    BY <2>1 DEF Disconnected, TabRecords
  <2>3. QED
    BY <2>1, <2>2 DEF Frame, Panes
<1>3. tabs' \subseteq TabRecords
  BY <1>1, <1>2
<1>4. Apart(tabs')
  BY <1>1, <1>2 DEF Apart, TabsInv
<1>5. ASSUME NEW t \in tabs
      PROVE  Frame(Mark(t)) \in Frames /\ TabClaims(Mark(t)) \subseteq Claims
  <2>1. Frame(t) \in Frames /\ TabClaims(t) \subseteq Claims
    BY DEF Known, Frames, Claims
  <2>2. QED
    BY <1>2, <2>1 DEF TabClaims
<1>6. ASSUME NEW x \in conns' \cup Terminals', NEW t \in tabs, x = t.conn \/ x \in Panes(t)
      PROVE  x = Mark(t).conn \/ x \in Panes(Mark(t))
  <2>1. CASE x = t.conn
    BY <1>2, <2>1
  <2>2. CASE x \in Panes(t)
    <3>1. t \in Known
      BY DEF Known
    <3>2. /\ x \notin conns /\ \A p \in terms : p[1] = x => p[2] = t.conn
          /\ t.parent = 0
      BY <2>2, <3>1, KnownFacts
    <3>3. /\ conns' \subseteq conns /\ terms' \subseteq terms
          /\ \A p \in terms' : p[2] # c
      BY ReleasedLeaves
    <3>4. t.conn # c
      BY <3>2, <3>3 DEF Terminals
    <3>5. QED
      BY <1>2, <2>2, <3>2, <3>4
  <2>3. QED
    BY <1>6, <2>1, <2>2
<1>7. ASSUME NEW x \in conns' \cup Terminals', x \in HeldBy(tabs \cup away)
      PROVE  x \in HeldBy(tabs' \cup away')
  <2>1. PICK t \in tabs \cup away : x = t.conn \/ x \in Panes(t)
    BY <1>7, HeldByIs
  <2>2. \E u \in tabs' \cup away' : x = u.conn \/ x \in Panes(u)
    BY <1>1, <1>6, <2>1
  <2>3. QED
    BY <2>2, HeldByIs
<1> HIDE DEF Mark
<1>8. QED
  BY <1>1, <1>3, <1>4, <1>5, <1>7

\* A handler that connects again has closed the old connection, and goes on.
LEMMA OldClosedKeeps ==
    ASSUME TabsInv, NEW i \in Calls, OldClosed(i) \/ RefileClosed(i)
    PROVE  TabsInv'
<1>1. PICK op \in {"openingShell", "opening"} :
          calls' = [calls EXCEPT ![i] = [calls[i] EXCEPT !.op = op]]
  BY DEF OldClosed, RefileClosed, Await
<1> DEFINE c == [calls[i] EXCEPT !.op = op]
           old == IF calls[i].goal = "again" THEN calls[i].tab ELSE calls[i].side
<1>2. PICK panes : Released(old.conn, panes)
  BY DEF OldClosed, RefileClosed
<1>3. /\ tabs' = MarkDisconnected(old.conn) /\ UNCHANGED <<made, away, lost>>
      /\ calls[i].op = "closingOld" /\ calls[i].goal \in {"again", "files"}
  BY DEF OldClosed, RefileClosed
<1>4. /\ calls[i] \in CallRecords /\ CallTabs(calls[i]) \subseteq Known
      /\ CallFits(calls[i], conns)
  BY CallIsKnown
<1>5. old.conn \in 1..made
  <2>1. old \in Known
    BY <1>3, <1>4 DEF CallTabs
  <2>2. QED
    BY <2>1, KnownFacts
<1>6. /\ c \in CallRecords /\ c.op = op
      /\ c.goal = calls[i].goal /\ c.seen = calls[i].seen /\ c.tab = calls[i].tab
      /\ c.side = calls[i].side
  BY <1>4 DEF CallRecords, Ops
<1>7. calls' = [calls EXCEPT ![i] = c]
  BY <1>1
<1> HIDE DEF c
<1>8. /\ CallTabs(c) \subseteq Known /\ CallClaims(c) = {} /\ CallFather(c) = {}
      /\ CallConn(c) = {} /\ OwnOf(calls[i]) = {}
  BY <1>3, <1>4, <1>6
     DEF CallTabs, CallClaims, CallFather, CallConn, CallTerm, OwnOf, PaneOps, Reserving
<1>9. /\ conns' \subseteq conns /\ terms' \subseteq terms
      /\ \A p \in terms' : p[2] \in conns'
      /\ old.conn \notin conns'
  BY <1>2, ReleasedLeaves
<1>10. CallFits(c, conns')
  BY <1>3, <1>4, <1>6, <1>9 DEF CallFits
<1>11. /\ tabs' \subseteq TabRecords /\ Apart(tabs')
       /\ \A t \in tabs' : Frame(t) \in Frames /\ TabClaims(t) \subseteq Claims
       /\ \A x \in conns' \cup Terminals' :
             x \in HeldBy(tabs \cup away) => x \in HeldBy(tabs' \cup away')
  BY <1>2, <1>3, <1>5, MarkedHold
<1>12. TabTypes' /\ made <= made'
  BY <1>3, <1>6, <1>7, <1>9, <1>11 DEF TabsInv, TabTypes
<1>13. \A t \in tabs' \cup away' \cup CallTabs(c) :
           Frame(t) \in Frames /\ TabClaims(t) \subseteq Claims
  BY <1>3, <1>8, <1>11 DEF Known, Frames, Claims
<1>14. \A x \in conns' \cup Terminals' :
          x \in HeldBy(tabs \cup away) \cup OwnOf(calls[i]) \cup lost
             => x \in HeldBy(tabs' \cup away') \cup OwnOf(c) \cup lost'
  BY <1>3, <1>8, <1>11
<1>15. QED
  BY <1>7, <1>8, <1>9, <1>10, <1>11, <1>12, <1>13, <1>14, LessKeeps

\* A handler that ends with some of the tabs it saw.
LEMMA WritesBackKeeps ==
    ASSUME TabsInv, NEW i \in Calls, calls' = [calls EXCEPT ![i] = Idle],
           calls[i].op \in {"closing", "detaching"}, UNCHANGED made,
           tabs' \subseteq calls[i].seen, away' \subseteq away \cup {calls[i].tab},
           conns' \subseteq conns, terms' \subseteq terms, \A p \in terms' : p[2] \in conns',
           \A x \in conns' \cup Terminals' :
              x \in HeldBy(calls[i].seen \cup away) \cup lost \cup Overwritten(i)
                 => x \in HeldBy(tabs' \cup away') \cup lost'
    PROVE  TabsInv'
<1>1. /\ calls[i] \in CallRecords /\ CallTabs(calls[i]) \subseteq Known
      /\ CallFits(calls[i], conns)
  BY CallIsKnown
<1>2. /\ calls[i].tab \in calls[i].seen /\ Apart(calls[i].seen)
      /\ calls[i].seen \subseteq Known /\ OwnOf(calls[i]) = {}
  BY <1>1 DEF CallFits, CallTabs, OwnOf, CallConn, CallTerm, Reserving
<1>3. \A t \in calls[i].seen \cup away :
          t \in TabRecords /\ Frame(t) \in Frames /\ TabClaims(t) \subseteq Claims
  BY <1>2, KnownFacts DEF Known
<1>4. TabTypes' /\ made <= made' /\ Apart(tabs')
  BY <1>2, <1>3, IdleIsCall DEF TabsInv, TabTypes, Apart
<1>5. \A t \in tabs' \cup away' \cup CallTabs(Idle) :
          Frame(t) \in Frames /\ TabClaims(t) \subseteq Claims
  BY <1>2, <1>3, IdleKnowsNothing
<1>6. \A x : x \in HeldBy(tabs \cup away)
                 => x \in HeldBy(calls[i].seen \cup away) \cup Overwritten(i)
  BY HeldByIs DEF Overwritten
<1>7. \A x \in conns' \cup Terminals' :
          x \in HeldBy(tabs \cup away) \cup OwnOf(calls[i]) \cup lost
             => x \in HeldBy(tabs' \cup away') \cup OwnOf(Idle) \cup lost'
  BY <1>2, <1>6
<1>8. QED
  BY <1>4, <1>5, <1>7, IdleIsCall, IdleKnowsNothing, LessKeeps

\* An SFTP tab of an SSH tab holds nothing of the backend's tables, and a tab whose
\* connection is released nothing of what is left.
LEMMA GoneHolds ==
    ASSUME TabsInv, NEW t \in Known, NEW x \in conns' \cup Terminals',
           IF t.parent # 0 THEN conns' \subseteq conns /\ terms' \subseteq terms
                           ELSE Released(t.conn, Panes(t))
    PROVE  x # t.conn /\ x \notin Panes(t)
<1>1. CASE t.parent # 0
  <2>1. Terminals' \subseteq Terminals /\ conns' \subseteq conns
    BY <1>1 DEF Terminals
  <2>2. QED
    BY <1>1, <2>1, KnownFacts
<1>2. CASE t.parent = 0
  <2>1. Released(t.conn, Panes(t))
    BY <1>2
  <2>2. /\ Terminals' \subseteq Terminals /\ conns' \subseteq conns
        /\ t.conn \notin conns' /\ \A y \in Panes(t) : y \notin Terminals'
    BY <2>1, ReleasedLeaves
  <2>3. QED
    BY <2>2, KnownFacts
<1>3. QED
  BY <1>1, <1>2

\* A tab is closed, with the SFTP tabs of its connection.
LEMMA ClosedKeeps ==
    ASSUME TabsInv, NEW i \in Calls, Closed(i)
    PROVE  TabsInv'
<1> DEFINE t == calls[i].tab
           seen == calls[i].seen
<1>1. /\ calls' = [calls EXCEPT ![i] = Idle] /\ calls[i].op = "closing"
      /\ tabs' = Remaining(i) /\ lost' = lost \cup Overwritten(i) /\ UNCHANGED <<made, away>>
      /\ IF t.file /\ t.parent # 0 THEN UNCHANGED <<conns, terms>>
                                   ELSE Released(t.conn, Panes(t))
  BY DEF Closed, Await
<1>2. t \in seen /\ Apart(seen) /\ seen \subseteq Known /\ t \in Known
  BY <1>1, CallIsKnown DEF CallFits, CallTabs
<1>3. t.parent # 0 => t.file
  BY <1>2, KnownFacts
<1>4. IF t.parent # 0 THEN UNCHANGED <<conns, terms>> ELSE Released(t.conn, Panes(t))
  BY <1>1, <1>3
<1>5. conns' \subseteq conns /\ terms' \subseteq terms /\ \A p \in terms' : p[2] \in conns'
  BY <1>4, ReleasedLeaves DEF TabsInv, TabsFit, BackendFits
<1>6. ASSUME NEW x \in conns' \cup Terminals', NEW u \in seen, x = u.conn \/ x \in Panes(u)
      PROVE  u \in tabs'
  <2>1. CASE u.parent # 0
    <3>1. x # u.conn /\ x \notin Panes(u)
      BY <1>2, <1>5, <2>1, GoneHolds
    <3>2. QED
      BY <1>6, <3>1
  <2>2. CASE u.parent = 0 /\ u.id = t.id
    <3>1. u = t
      BY <1>2, <2>2 DEF Apart
    <3>2. x # u.conn /\ x \notin Panes(u)
      BY <1>2, <1>4, <1>5, <3>1, GoneHolds
    <3>3. QED
      BY <1>6, <3>2
  <2>3. CASE u.parent = 0 /\ u.id # t.id
    <3>1. t.conn # 0
      BY <1>2, KnownFacts
    <3>2. QED
      BY <1>1, <2>3, <3>1 DEF Remaining
  <2>4. QED
    BY <2>1, <2>2, <2>3
<1>7. ASSUME NEW x \in conns' \cup Terminals',
             x \in HeldBy(seen \cup away) \cup lost \cup Overwritten(i)
      PROVE  x \in HeldBy(tabs' \cup away') \cup lost'
  <2>1. CASE x \in HeldBy(seen \cup away)
    <3>1. PICK u \in seen \cup away : x = u.conn \/ x \in Panes(u)
      BY <2>1, HeldByIs
    <3>2. u \in tabs' \cup away'
      BY <1>1, <1>6, <3>1
    <3>3. QED
      BY <3>1, <3>2, HeldByIs
  <2>2. QED
    BY <1>1, <1>7, <2>1
<1>8. tabs' \subseteq seen
  BY <1>1 DEF Remaining
<1>9. QED
  BY <1>1, <1>5, <1>7, <1>8, WritesBackKeeps

\* A tab moves to a window of its own.
LEMMA DetachedKeeps ==
    ASSUME TabsInv, NEW i \in Calls, Detached(i)
    PROVE  TabsInv'
<1> DEFINE t == calls[i].tab
           seen == calls[i].seen
<1>1. PICK there \in BOOLEAN :
        /\ away' = (IF there THEN away ELSE away \cup {t})
        /\ lost' = lost \cup Overwritten(i) \cup (IF there THEN HeldBy({t}) ELSE {})
  BY DEF Detached
<1>2. /\ calls' = [calls EXCEPT ![i] = Idle] /\ calls[i].op = "detaching"
      /\ tabs' = seen \ {t} /\ UNCHANGED <<conns, terms, made>>
  BY DEF Detached, Await
<1>3. ASSUME NEW x, x \in HeldBy(seen \cup away) \cup lost \cup Overwritten(i)
      PROVE  x \in HeldBy(tabs' \cup away') \cup lost'
  <2>1. CASE x \in HeldBy(seen \cup away)
    <3>1. PICK u \in seen \cup away : x = u.conn \/ x \in Panes(u)
      BY <2>1, HeldByIs
    <3>2. CASE u = t /\ there
      <4>1. x \in HeldBy({t})
        BY <3>1, <3>2, HeldByIs
      <4>2. QED
        BY <1>1, <3>2, <4>1
    <3>3. CASE ~(u = t /\ there)
      <4>1. u \in tabs' \cup away'
        BY <1>1, <1>2, <3>1, <3>3
      <4>2. QED
        BY <3>1, <4>1, HeldByIs
    <3>4. QED
      BY <3>2, <3>3
  <2>2. QED
    BY <1>1, <1>3, <2>1
<1>4. tabs' \subseteq seen /\ away' \subseteq away \cup {t}
  BY <1>1, <1>2
<1>5. \A p \in terms' : p[2] \in conns'
  BY <1>2 DEF TabsInv, TabsFit, BackendFits
<1>6. QED
  BY <1>2, <1>3, <1>4, <1>5, WritesBackKeeps

\* What other windows do, and what a tab does on its way back.
LEMMA AwayKeeps ==
    ASSUME TabsInv, NEW a \in away, AwayCloses(a) \/ AwayFails(a) \/ TakeBack(a)
    PROVE  TabsInv'
<1>1. a \in Known /\ \A t \in tabs \cup away : t \in Known
  BY DEF Known
<1>2. /\ UNCHANGED <<made, calls>> /\ away' = away \ {a}
      /\ tabs' \subseteq tabs \cup {a}
  BY DEF AwayCloses, AwayFails, TakeBack
<1>3. /\ \A j \in Calls : calls'[j] \in {calls[j], Idle}
      /\ Reservations' = Reservations /\ Fathers' = Fathers /\ Own' = Own
  BY <1>2, SameSlots
<1>4. \A t \in tabs' \cup away' \cup CallTabs(Idle) :
          t \in TabRecords /\ Frame(t) \in Frames /\ TabClaims(t) \subseteq Claims
  BY <1>1, <1>2, KnownFacts, IdleKnowsNothing
<1>5. a.parent # 0 \/ a.parent = 0
  OBVIOUS
<1>6. /\ conns' \subseteq conns /\ terms' \subseteq terms /\ \A p \in terms' : p[2] \in conns'
  <2>1. CASE UNCHANGED <<conns, terms>>
    BY <2>1 DEF TabsInv, TabsFit, BackendFits
  <2>2. CASE Released(a.conn, Panes(a))
    BY <2>2, ReleasedLeaves
  <2>3. QED
    BY <2>1, <2>2 DEF AwayCloses, AwayFails, TakeBack
<1>7. Apart(tabs')
  <2>1. CASE UNCHANGED tabs
    BY <2>1 DEF TabsInv
  <2>2. CASE TakeBack(a)
    <3>1. tabs' = {u \in tabs : u.id # a.id} \cup {a}
      BY <2>2 DEF TakeBack
    <3>2. \A u \in tabs : u.conn = a.conn => u.id = a.id
      <4>1. ASSUME NEW u \in tabs
            PROVE  /\ Frame(u) \in Frames /\ Frame(a) \in Frames
                   /\ Frame(u)[1] = u.id /\ Frame(u)[2] = u.conn
                   /\ Frame(a)[1] = a.id /\ Frame(a)[2] = a.conn
        BY <1>1, KnownFacts DEF Frame
      <4>2. QED
        BY <4>1 DEF TabsInv, TabsFit, FramesFit
    <3>3. QED
      BY <3>1, <3>2 DEF TabsInv, Apart
  <2>3. QED
    BY <2>1, <2>2 DEF AwayCloses, AwayFails
<1>8. ASSUME NEW x \in conns' \cup Terminals', x \in HeldBy(tabs \cup away) \cup Own \cup lost
      PROVE  x \in HeldBy(tabs' \cup away') \cup Own' \cup lost'
  <2>1. lost \subseteq lost'
    BY DEF AwayCloses, AwayFails, TakeBack
  <2>2. CASE x \in HeldBy(tabs \cup away)
    <3>1. PICK u \in tabs \cup away : x = u.conn \/ x \in Panes(u)
      BY <2>2, HeldByIs
    <3>2. CASE u \in tabs' \cup away'
      BY <3>1, <3>2, HeldByIs
    <3>3. CASE u \notin tabs' \cup away' /\ AwayCloses(a)
      <4>1. u = a
        BY <1>2, <3>1, <3>3 DEF AwayCloses
      <4>2. IF a.parent # 0 THEN UNCHANGED <<conns, terms>> ELSE Released(a.conn, Panes(a))
        BY <3>3 DEF AwayCloses
      <4>3. QED
        BY <1>1, <1>6, <3>1, <4>1, <4>2, GoneHolds
    <3>4. CASE u \notin tabs' \cup away' /\ AwayFails(a)
      <4>1. u = a /\ lost' = lost \cup HeldBy({a})
        BY <1>2, <3>1, <3>4 DEF AwayFails
      <4>2. QED
        BY <3>1, <4>1, HeldByIs
    <3>5. CASE u \notin tabs' \cup away' /\ TakeBack(a)
      <4>1. u \in WithId(a.id) /\ lost' = lost \cup HeldBy(WithId(a.id))
        BY <1>2, <3>1, <3>5 DEF TakeBack, WithId
      <4>2. QED
        BY <3>1, <4>1, HeldByIs
    <3>6. QED
      BY <3>2, <3>3, <3>4, <3>5
  <2>3. QED
    BY <1>3, <1>8, <2>1, <2>2
<1>9. TabTypes' /\ made <= made'
  BY <1>2, <1>4, <1>6 DEF TabsInv, TabTypes
<1>10. QED
  BY <1>3, <1>4, <1>6, <1>7, <1>8, <1>9, IdleIsCall, IdleKnowsNothing, LessStays

\* The tabs of a deleted profile go to what is lost.
LEMMA DeletedKeeps ==
    ASSUME TabsInv, NEW i \in Calls, Deleted(i)
    PROVE  TabsInv'
<1> DEFINE gone == {t \in tabs : t.prof = calls[i].prof}
<1>1. /\ calls' = [calls EXCEPT ![i] = Idle] /\ calls[i].op = "deleting"
      /\ tabs' = tabs \ gone /\ lost' = lost \cup HeldBy(gone)
      /\ UNCHANGED <<conns, terms, made, away>>
  BY DEF Deleted, Await
<1>2. OwnOf(calls[i]) = {}
  BY <1>1 DEF OwnOf, CallConn, CallTerm, Reserving
<1> HIDE DEF gone
<1>3. TabTypes' /\ Apart(tabs') /\ made <= made' /\ \A p \in terms' : p[2] \in conns'
  BY <1>1, IdleIsCall DEF TabsInv, TabTypes, Apart, TabsFit, BackendFits
<1>4. \A t \in tabs' \cup away' \cup CallTabs(Idle) :
          Frame(t) \in Frames /\ TabClaims(t) \subseteq Claims
  BY <1>1, IdleKnowsNothing DEF Known, Frames, Claims
<1>5. ASSUME NEW x, x \in HeldBy(tabs \cup away) \cup lost
      PROVE  x \in HeldBy(tabs' \cup away') \cup lost'
  <2>1. CASE x \in HeldBy(tabs \cup away)
    <3>1. PICK u \in tabs \cup away : x = u.conn \/ x \in Panes(u)
      BY <2>1, HeldByIs
    <3>2. u \in gone \/ u \in tabs' \cup away'
      BY <1>1, <3>1
    <3>3. QED
      BY <1>1, <3>1, <3>2, HeldByIs
  <2>2. QED
    BY <1>1, <1>5, <2>1
<1>6. QED
  BY <1>1, <1>2, <1>3, <1>4, <1>5, IdleIsCall, IdleKnowsNothing, LessKeeps

\* What a handler that closes a terminal may make of the panes of its tab.
Adjusted(c, t, u) ==
    /\ u \in TabRecords /\ Frame(u) = Frame(t) /\ u.id = t.id /\ u.conn = t.conn
    /\ Panes(t) \ {c.old} \subseteq Panes(u)
    /\ Panes(u) \ {c.new} \subseteq Panes(t)
    /\ Panes(u) \subseteq Panes(t) \/ (t.id = c.tab.id /\ c.old \in Panes(t))

\* A handler that ends with a terminal closed, its tab adjusted.
LEMMA PanesChange ==
    ASSUME TabsInv, NEW i \in Calls, calls' = [calls EXCEPT ![i] = Idle],
           calls[i].op \in {"closingPane", "closingReplaced"},
           UNCHANGED <<conns, made, away>>, terms' = {p \in terms : p[1] # calls[i].old},
           NEW Now, tabs' = {Now[t] : t \in tabs},
           \A t \in tabs : Adjusted(calls[i], t, Now[t]),
           lost \subseteq lost',
           calls[i].op = "closingReplaced" /\ calls[i].new # 0 =>
               calls[i].new \in lost' \/ \E u \in tabs' : calls[i].new \in Panes(u)
    PROVE  TabsInv'
<1> DEFINE id == calls[i].tab.id
           old == calls[i].old
           new == calls[i].new
<1>1. /\ \A t \in tabs : Now[t] \in tabs'
      /\ \A u \in tabs' : \E t \in tabs : u = Now[t]
  OBVIOUS
<1>2. /\ <<old, id, calls[i].tab.conn>> \in Claims
      /\ new # 0 => <<new, id, calls[i].tab.conn>> \in Claims
  BY CallIsKnown DEF CallClaims, PaneOps
<1>3. ASSUME NEW t \in tabs
      PROVE  /\ Now[t] \in TabRecords /\ Frame(Now[t]) \in Frames
             /\ TabClaims(Now[t]) \subseteq Claims
             /\ Now[t].id = t.id /\ Now[t].conn = t.conn
             /\ Panes(t) \ {old} \subseteq Panes(Now[t])
  <2>1. t \in TabRecords /\ Frame(t) \in Frames /\ TabClaims(t) \subseteq Claims
    BY KnownFacts DEF Known
  <2>2. Adjusted(calls[i], t, Now[t])
    OBVIOUS
  <2>3. ASSUME NEW x \in Panes(Now[t])
        PROVE  <<x, t.id, t.conn>> \in Claims
    <3>1. CASE x \in Panes(t)
      BY <2>1, <3>1 DEF TabClaims
    <3>2. CASE x \notin Panes(t)
      <4>1. x = new /\ old \in Panes(t) /\ t.id = id /\ new # 0
        BY <2>2, <2>3, <3>2 DEF Adjusted, Panes
      <4>2. <<old, id, t.conn>> \in Claims
        BY <2>1, <4>1 DEF TabClaims
      <4>3. t.conn = calls[i].tab.conn
        BY <1>2, <4>2, SameClaim
      <4>4. QED
        BY <1>2, <4>1, <4>3
    <3>3. QED
      BY <3>1, <3>2
  <2>4. QED
    BY <2>1, <2>2, <2>3 DEF TabClaims, Adjusted
<1>4. Apart(tabs')
  BY <1>1, <1>3 DEF Apart, TabsInv
<1>5. \A t \in tabs' \cup away' \cup CallTabs(Idle) :
          Frame(t) \in Frames /\ TabClaims(t) \subseteq Claims
  <2>1. \A u \in tabs' : Frame(u) \in Frames /\ TabClaims(u) \subseteq Claims
    BY <1>1, <1>3
  <2>2. \A u \in away' : Frame(u) \in Frames /\ TabClaims(u) \subseteq Claims
    BY KnownFacts DEF Known
  <2>3. QED
    BY <2>1, <2>2, IdleKnowsNothing
<1>6. TabTypes' /\ made <= made' /\ \A p \in terms' : p[2] \in conns'
  BY <1>1, <1>3, IdleIsCall DEF TabsInv, TabTypes, TabsFit, BackendFits
<1>7. OwnOf(calls[i]) \subseteq {new} /\ (OwnOf(calls[i]) # {} => calls[i].op = "closingReplaced")
  BY DEF OwnOf, CallConn, CallTerm, Reserving
<1>8. old \notin conns' /\ old \notin Terminals' /\ 0 \notin conns' \cup Terminals'
  <2>1. old \notin conns
    <3> DEFINE k == <<old, id, calls[i].tab.conn>>
    <3>1. k \in Claims /\ k[1] = old
      BY <1>2
    <3> HIDE DEF k
    <3>2. QED
      BY <3>1 DEF TabsInv, TabsFit, PanesFit
  <2>2. QED
    BY <2>1 DEF TabsInv, TabTypes, Terminals
<1>9. ASSUME NEW x \in conns' \cup Terminals',
             x \in HeldBy(tabs \cup away) \cup OwnOf(calls[i]) \cup lost
      PROVE  x \in HeldBy(tabs' \cup away') \cup lost'
  <2>1. CASE x \in HeldBy(tabs \cup away)
    <3>1. PICK u \in tabs \cup away : x = u.conn \/ x \in Panes(u)
      BY <2>1, HeldByIs
    <3>2. CASE u \in away
      BY <3>1, <3>2, HeldByIs
    <3>3. CASE u \in tabs
      <4>1. x = Now[u].conn \/ x \in Panes(Now[u])
        BY <1>3, <1>8, <3>1, <3>3
      <4>2. QED
        BY <1>1, <3>3, <4>1, HeldByIs
    <3>4. QED
      BY <3>1, <3>2, <3>3
  <2>2. CASE x \in OwnOf(calls[i])
    <3>1. x = new /\ new # 0 /\ calls[i].op = "closingReplaced"
      BY <1>7, <1>8, <2>2
    <3>2. CASE \E u \in tabs' : new \in Panes(u)
      BY <3>1, <3>2, HeldByIs
    <3>3. QED
      BY <3>1, <3>2
  <2>3. QED
    BY <1>9, <2>1, <2>2
<1>10. QED
  BY <1>4, <1>5, <1>6, <1>9, IdleIsCall, IdleKnowsNothing, LessKeeps

\* A handler at work on a terminal has one.
LEMMA CallClosesPane ==
    ASSUME TabsInv, NEW i \in Calls, calls[i].op \in PaneOps
    PROVE  calls[i].old # 0
<1> DEFINE k == <<calls[i].old, calls[i].tab.id, calls[i].tab.conn>>
<1>1. k \in Claims /\ k[1] = calls[i].old
  BY CallIsKnown DEF CallClaims
<1> HIDE DEF k
<1>2. QED
  BY <1>1 DEF TabsInv, TabsFit, PanesFit

\* A terminal is closed, and another may become the first of its tab.
LEMMA PaneClosedKeeps ==
    ASSUME TabsInv, NEW i \in Calls, PaneClosed(i)
    PROVE  TabsInv'
<1> DEFINE c == calls[i]
           Now == [t \in tabs |-> IF t.id = c.tab.id THEN WithoutPane(t, c.old, c.new) ELSE t]
<1>1. /\ calls' = [calls EXCEPT ![i] = Idle] /\ c.op = "closingPane"
      /\ terms' = {p \in terms : p[1] # c.old} /\ UNCHANGED <<conns, made, away, lost>>
      /\ tabs' = {Now[t] : t \in tabs}
  BY DEF PaneClosed, Await
<1>2. c.new \in Nat
  BY CallIsKnown DEF CallRecords
<1>3. ASSUME NEW t \in tabs
      PROVE  Adjusted(c, t, Now[t])
  <2>1. t \in TabRecords
    BY DEF TabsInv, TabTypes
  <2>2. CASE t.id = c.tab.id /\ t.prim = c.old /\ c.new # 0
    <3> DEFINE u == [t EXCEPT !.prim = c.new, !.extra = @ \ {c.new}]
    <3>1. Now[t] = u
      BY <2>2 DEF WithoutPane
    <3>2. u \in TabRecords /\ Frame(u) = Frame(t) /\ u.id = t.id /\ u.conn = t.conn
      BY <1>2, <2>1 DEF TabRecords, Frame
    <3>3. u.prim = c.new /\ u.extra = t.extra \ {c.new}
      BY <2>1 DEF TabRecords
    <3> HIDE DEF u
    <3>4. Panes(u) = ({c.new} \cup t.extra) \ {0}
      BY <3>3 DEF Panes
    <3>5. c.old # 0
      BY <1>1, CallClosesPane DEF PaneOps
    <3>6. Adjusted(c, t, u)
      BY <2>2, <3>2, <3>4, <3>5 DEF Adjusted, Panes
    <3>7. QED
      BY <3>1, <3>6
  <2>3. CASE t.id = c.tab.id /\ ~(t.prim = c.old /\ c.new # 0)
    <3> DEFINE u == [t EXCEPT !.extra = @ \ {c.old}]
    <3>1. Now[t] = u
      BY <2>3 DEF WithoutPane
    <3>2. u \in TabRecords /\ Frame(u) = Frame(t) /\ u.id = t.id /\ u.conn = t.conn
      BY <2>1 DEF TabRecords, Frame
    <3>3. u.prim = t.prim /\ u.extra = t.extra \ {c.old}
      BY <2>1 DEF TabRecords
    <3> HIDE DEF u
    <3>4. Adjusted(c, t, u)
      BY <3>2, <3>3 DEF Adjusted, Panes
    <3>5. QED
      BY <3>1, <3>4
  <2>4. CASE t.id # c.tab.id
    BY <2>1, <2>4 DEF Adjusted
  <2>5. QED
    BY <2>2, <2>3, <2>4
<1> HIDE DEF Now
<1>4. QED
  BY <1>1, <1>3, PanesChange

\* The terminal attached with other X11 settings takes the place of the closed one.
LEMMA X11ReplacedKeeps ==
    ASSUME TabsInv, NEW i \in Calls, X11Replaced(i)
    PROVE  TabsInv'
<1> DEFINE c == calls[i]
           Now == [t \in tabs |->
                      IF t.id = c.tab.id THEN WithPaneReplaced(t, c.old, c.new) ELSE t]
<1>1. /\ calls' = [calls EXCEPT ![i] = Idle] /\ c.op = "closingReplaced"
      /\ terms' = {p \in terms : p[1] # c.old} /\ UNCHANGED <<conns, made, away>>
      /\ tabs' = {Now[t] : t \in tabs}
      /\ lost' = lost \cup (IF StillShown(i) THEN {} ELSE {c.new})
  BY DEF X11Replaced, Await
<1>2. c.new \in Nat /\ c.old \in Nat
  BY CallIsKnown DEF CallRecords
<1>3. ASSUME NEW t \in tabs, t.id = c.tab.id
      PROVE  /\ Now[t] \in TabRecords /\ Frame(Now[t]) = Frame(t)
             /\ Now[t].id = t.id /\ Now[t].conn = t.conn
             /\ Now[t].prim = (IF t.prim = c.old THEN c.new ELSE t.prim)
             /\ Now[t].extra = {IF y = c.old THEN c.new ELSE y : y \in t.extra}
  <2>1. t \in TabRecords
    BY DEF TabsInv, TabTypes
  <2>2. Now[t] = WithPaneReplaced(t, c.old, c.new)
    BY <1>3
  <2>3. {IF y = c.old THEN c.new ELSE y : y \in t.extra} \subseteq Nat
    BY <1>2, <2>1 DEF TabRecords
  <2>4. QED
    BY <1>2, <2>1, <2>2, <2>3 DEF WithPaneReplaced, TabRecords, Frame
<1>4. ASSUME NEW t \in tabs
      PROVE  Adjusted(c, t, Now[t])
  <2>1. CASE t.id = c.tab.id
    <3>1. \A y \in t.extra : y # c.old => y \in Now[t].extra
      BY <1>3, <2>1
    <3>2. \A y \in Now[t].extra : y \in t.extra \/ (y = c.new /\ c.old \in t.extra)
      BY <1>3, <2>1
    <3>3. \A x : x \in Panes(t) /\ x # c.old => x \in Panes(Now[t])
      BY <1>3, <2>1, <3>1 DEF Panes
    <3>4. c.old # 0
      BY <1>1, CallClosesPane DEF PaneOps
    <3>5. \A x \in Panes(Now[t]) : x \in Panes(t) \/ (x = c.new /\ c.old \in Panes(t))
      BY <1>3, <2>1, <3>2, <3>4 DEF Panes
    <3>6. QED
      BY <1>3, <2>1, <3>3, <3>5 DEF Adjusted
  <2>2. CASE t.id # c.tab.id
    BY <2>2 DEF Adjusted, TabsInv, TabTypes
  <2>3. QED
    BY <2>1, <2>2
<1>5. ASSUME StillShown(i), c.new # 0
      PROVE  \E u \in tabs' : c.new \in Panes(u)
  <2>1. PICK t \in tabs : t.id = c.tab.id /\ c.old \in Panes(t)
    BY <1>5 DEF StillShown, WithId
  <2>2. c.new = Now[t].prim \/ c.new \in Now[t].extra
    BY <1>3, <2>1 DEF Panes
  <2>3. c.new \in Panes(Now[t])
    BY <1>5, <2>2 DEF Panes
  <2>4. QED
    BY <1>1, <2>3
<1> HIDE DEF Now
<1>6. c.new # 0 => c.new \in lost' \/ \E u \in tabs' : c.new \in Panes(u)
  BY <1>1, <1>5
<1>7. QED
  BY <1>1, <1>4, <1>6, PanesChange

\* A terminal that is closed again before any tab could show it.
LEMMA AttachedInVainKeeps ==
    ASSUME TabsInv, NEW i \in Calls, calls' = [calls EXCEPT ![i] = Idle],
           calls[i].op \in {"splitting", "replacing"}, made' = made + 1,
           UNCHANGED <<tabs, away, conns, terms, lost>>
    PROVE  TabsInv'
<1>1. OwnOf(calls[i]) = {}
  BY DEF OwnOf, CallConn, CallTerm, Reserving
<1>2. /\ TabTypes' /\ made <= made' /\ Apart(tabs')
      /\ \A p \in terms' : p[2] \in conns'
  <2>1. made \in Nat /\ made + 1 \in Nat /\ 1..made \subseteq 1..(made + 1)
    BY DEF TabsInv, TabTypes
  <2>2. QED
    BY <2>1, IdleIsCall DEF TabsInv, TabTypes, TabsFit, BackendFits
<1>3. \A t \in tabs' \cup away' \cup CallTabs(Idle) :
          Frame(t) \in Frames /\ TabClaims(t) \subseteq Claims
  BY IdleKnowsNothing, KnownFacts DEF Known
<1>4. \A x \in conns' \cup Terminals' :
         x \in HeldBy(tabs \cup away) \cup OwnOf(calls[i]) \cup lost
            => x \in HeldBy(tabs' \cup away') \cup OwnOf(Idle) \cup lost'
  BY <1>1
<1>5. QED
  BY <1>2, <1>3, <1>4, IdleIsCall, IdleKnowsNothing, LessKeeps

\* Handler i has attached a terminal to the connection of its tab and goes on as c.
LEMMA PaneAddedStays ==
    ASSUME TabsInv, NEW i \in Calls, NEW c \in CallRecords, calls' = [calls EXCEPT ![i] = c],
           calls[i].op \in {"splitting", "replacing"}, calls[i].tab.conn \in conns,
           made' = made + 1, UNCHANGED <<conns, away>>,
           terms' = terms \cup {<<made + 1, calls[i].tab.conn>>},
           CallTabs(c) \subseteq Known, CallConn(c) = {}, CallFather(c) = {}, CallFits(c, conns),
           tabs' \subseteq TabRecords, Apart(tabs'),
           \A t \in tabs' :
               /\ Frame(t) \in Frames
               /\ TabClaims(t) \subseteq Claims
                      \cup {<<made + 1, calls[i].tab.id, calls[i].tab.conn>>},
           CallClaims(c) \subseteq Claims \cup {<<made + 1, calls[i].tab.id, calls[i].tab.conn>>},
           \A x : x \in HeldBy(tabs) => x \in HeldBy(tabs'),
           lost \subseteq lost', made + 1 \in HeldBy(tabs') \cup OwnOf(c) \cup lost'
    PROVE  TabsInv'
<1> DEFINE n == made + 1
           k == <<calls[i].old, calls[i].tab.id, calls[i].tab.conn>>
<1>1. k \in Claims /\ k[2] = calls[i].tab.id /\ k[3] = calls[i].tab.conn
  BY CallIsKnown DEF CallClaims, PaneOps
<1> HIDE DEF k
<1>2. OwnOf(calls[i]) = {}
  BY DEF OwnOf, CallConn, CallTerm, Reserving
<1>3. /\ \A j \in Calls : calls'[j] \in {calls[j], c}
      /\ \A r \in Reservations' : r \in Reservations
      /\ Fathers' \subseteq Fathers
      /\ Own \subseteq Own'
      /\ OwnOf(c) \subseteq Own'
  BY <1>2, CallIsKnown, Slots
<1>4. Frames' \subseteq Frames /\ Claims' \subseteq Claims \cup {<<n, k[2], k[3]>>}
  <2> DEFINE D == {<<n, k[2], k[3]>>}
  <2>1. \A t \in tabs' \cup away' \cup CallTabs(c) :
            Frame(t) \in Frames \cup {} /\ TabClaims(t) \subseteq Claims \cup D
    <3>1. \A t \in away \cup CallTabs(c) : Frame(t) \in Frames /\ TabClaims(t) \subseteq Claims
      BY KnownFacts DEF Known
    <3>2. QED
      BY <1>1, <3>1
  <2>2. CallClaims(c) \subseteq Claims \cup D
    BY <1>1
  <2> HIDE DEF D
  <2>3. Frames' \subseteq Frames \cup {} /\ Claims' \subseteq Claims \cup D
    BY <1>3, <2>1, <2>2, Views
  <2>4. QED
    BY <2>3 DEF D
<1>5. made \in Nat /\ TabTypes /\ TabsFit
  BY DEF TabsInv, TabTypes
<1>6. TabsFit'
  BY <1>1, <1>3, <1>4, <1>5, PaneAddedFits
<1>7. CallsFit'
  BY <1>3, <1>5, CallsStayFit DEF TabsInv
<1>8. TabTypes'
  BY <1>5 DEF TabTypes
<1>9. OwnedOrLost'
  <2>1. Terminals' \subseteq Terminals \cup {n}
    BY DEF Terminals
  <2>2. ASSUME NEW x \in HeldBy(tabs \cup away)
        PROVE  x \in HeldBy(tabs' \cup away')
    BY HeldByIs
  <2>3. ASSUME NEW x \in HeldBy(tabs')
        PROVE  x \in HeldBy(tabs' \cup away')
    BY HeldByIs
  <2>4. QED
    BY <1>3, <2>1, <2>2, <2>3 DEF TabsInv, OwnedOrLost
<1>10. QED
  BY <1>6, <1>7, <1>8, <1>9 DEF TabsInv

\* A further terminal comes to its tab, or stays behind it when the tab is full.
LEMMA SplitAttachedKeeps ==
    ASSUME TabsInv, NEW i \in Calls, SplitAttached(i)
    PROVE  TabsInv'
<1> DEFINE n == made + 1
           id == calls[i].tab.id
           full == {t \in WithId(id) : ~HasRoom(t)}
           Now(t) == IF t.id = id /\ t \notin full THEN [t EXCEPT !.extra = @ \cup {n}] ELSE t
<1>1. /\ calls' = [calls EXCEPT ![i] = Idle] /\ calls[i].op = "splitting"
      /\ calls[i].tab.conn \in conns /\ made' = n /\ UNCHANGED <<conns, away>>
      /\ IF StillShown(i) THEN Insert(i, n) ELSE CloseAgain
  BY DEF SplitAttached, Fresh, Await
<1>2. CASE ~StillShown(i)
  <2>1. UNCHANGED <<tabs, terms, lost>>
    BY <1>1, <1>2 DEF CloseAgain
  <2>2. QED
    BY <1>1, <2>1, AttachedInVainKeeps
<1>3. CASE StillShown(i)
  <2>1. /\ terms' = terms \cup {<<n, calls[i].tab.conn>>}
        /\ tabs' = {Now(t) : t \in tabs}
        /\ lost' = lost \cup (IF full = {} THEN {} ELSE {n})
    BY <1>1, <1>3 DEF Insert
  <2>2. PICK s \in tabs : s.id = id /\ calls[i].old \in Panes(s)
    BY <1>3 DEF StillShown, WithId
  <2>3. s.conn = calls[i].tab.conn
    <3>1. <<calls[i].old, id, s.conn>> \in Claims
      BY <2>2, KnownFacts DEF Known, TabClaims
    <3>2. <<calls[i].old, id, calls[i].tab.conn>> \in Claims
      BY <1>1, CallIsKnown DEF CallClaims, PaneOps
    <3>3. QED
      BY <3>1, <3>2, SameClaim
  <2>4. \A t \in tabs : t.id = id => t.conn = calls[i].tab.conn
    BY <2>2, <2>3 DEF TabsInv, Apart
  <2>5. n \in Nat /\ n # 0
    BY DEF TabsInv, TabTypes
  <2>6. ASSUME NEW t \in tabs
        PROVE  /\ Now(t) \in TabRecords /\ Frame(Now(t)) = Frame(t)
               /\ Now(t).id = t.id /\ Now(t).conn = t.conn
               /\ Panes(t) \subseteq Panes(Now(t))
               /\ Panes(Now(t)) \subseteq Panes(t) \cup (IF t.id = id THEN {n} ELSE {})
               /\ t.id = id /\ t \notin full => n \in Panes(Now(t))
    <3>1. t \in TabRecords
      BY DEF TabsInv, TabTypes
    <3> DEFINE u == [t EXCEPT !.extra = @ \cup {n}]
    <3>2. /\ u \in TabRecords /\ Frame(u) = Frame(t) /\ u.id = t.id /\ u.conn = t.conn
          /\ u.prim = t.prim /\ u.extra = t.extra \cup {n}
      BY <2>5, <3>1 DEF TabRecords, Frame
    <3> HIDE DEF u
    <3>3. Panes(u) = Panes(t) \cup {n}
      BY <2>5, <3>2 DEF Panes
    <3>4. Now(t) = (IF t.id = id /\ t \notin full THEN u ELSE t)
      BY DEF u
    <3>5. QED
      BY <3>1, <3>2, <3>3, <3>4
  <2>7. /\ \A t \in tabs : Now(t) \in tabs'
        /\ \A u \in tabs' : \E t \in tabs : u = Now(t)
    BY <2>1
  <2>8. \A t \in tabs : t.id = id /\ t \notin full => t \in WithId(id)
    BY DEF WithId
  <2>9. s \in full \/ n \in Panes(Now(s))
    BY <2>2, <2>6
  <2> HIDE DEF Now, full
  <2>10. Apart(tabs') /\ tabs' \subseteq TabRecords
    BY <2>6, <2>7 DEF Apart, TabsInv
  <2>11. ASSUME NEW t \in tabs
         PROVE  /\ Frame(Now(t)) \in Frames
                /\ TabClaims(Now(t)) \subseteq Claims \cup {<<n, id, calls[i].tab.conn>>}
    <3>1. Frame(t) \in Frames /\ TabClaims(t) \subseteq Claims
      BY KnownFacts DEF Known
    <3>2. QED
      BY <2>4, <2>6, <3>1 DEF TabClaims
  <2>12. \A u \in tabs' :
            /\ Frame(u) \in Frames
            /\ TabClaims(u) \subseteq Claims \cup {<<n, id, calls[i].tab.conn>>}
    BY <2>7, <2>11
  <2>13. \A x : x \in HeldBy(tabs) => x \in HeldBy(tabs')
    <3>1. ASSUME NEW x, NEW t \in tabs, x = t.conn \/ x \in Panes(t)
          PROVE  x = Now(t).conn \/ x \in Panes(Now(t))
      BY <2>6, <3>1
    <3>2. QED
      BY <2>7, <3>1, HeldByIs
  <2>14. n \in HeldBy(tabs') \cup lost'
    <3>1. CASE s \in full
      BY <2>1, <3>1
    <3>2. CASE n \in Panes(Now(s))
      BY <2>7, <3>2, HeldByIs
    <3>3. QED
      BY <2>9, <3>1, <3>2
  <2>15. lost \subseteq lost'
    BY <2>1
  <2>16. QED
    BY <1>1, <2>1, <2>10, <2>12, <2>13, <2>14, <2>15, IdleIsCall, IdleKnowsNothing,
       PaneAddedStays
<1>4. QED
  BY <1>2, <1>3

\* A terminal with other X11 settings is attached, for a pane that is still there.
LEMMA X11AttachedKeeps ==
    ASSUME TabsInv, NEW i \in Calls, X11Attached(i)
    PROVE  TabsInv'
<1> DEFINE c == [calls[i] EXCEPT !.op = "closingReplaced", !.new = made + 1]
<1>1. /\ calls[i].op = "replacing" /\ calls[i].tab.conn \in conns /\ made' = made + 1
      /\ UNCHANGED <<tabs, conns, away, lost>>
      /\ \/ /\ terms' = terms \cup {<<made + 1, calls[i].tab.conn>>}
            /\ calls' = [calls EXCEPT ![i] = c]
         \/ terms' = terms /\ calls' = [calls EXCEPT ![i] = Idle]
  BY DEF X11Attached, Fresh, Await
<1>2. CASE terms' = terms /\ calls' = [calls EXCEPT ![i] = Idle]
  BY <1>1, <1>2, AttachedInVainKeeps
<1>3. CASE /\ terms' = terms \cup {<<made + 1, calls[i].tab.conn>>}
           /\ calls' = [calls EXCEPT ![i] = c]
  <2>1. /\ calls[i] \in CallRecords /\ CallTabs(calls[i]) \subseteq Known
        /\ CallClaims(calls[i]) \subseteq Claims /\ CallFits(calls[i], conns)
    BY CallIsKnown
  <2>2. made + 1 \in Nat
    BY DEF TabsInv, TabTypes
  <2>3. /\ c \in CallRecords /\ c.op = "closingReplaced" /\ c.new = made + 1
        /\ c.goal = calls[i].goal /\ c.seen = calls[i].seen /\ c.tab = calls[i].tab
        /\ c.side = calls[i].side /\ c.old = calls[i].old
    BY <2>1, <2>2 DEF CallRecords, Ops, PaneOps
  <2>4. calls' = [calls EXCEPT ![i] = c]
    BY <1>3
  <2> HIDE DEF c
  <2>5. /\ CallTabs(c) \subseteq Known /\ CallConn(c) = {} /\ CallFather(c) = {}
        /\ OwnOf(c) = {made + 1}
    BY <2>1, <2>3 DEF CallTabs, CallConn, CallFather, CallTerm, OwnOf, Reserving
  <2>6. CallClaims(c) \subseteq Claims \cup {<<made + 1, calls[i].tab.id, calls[i].tab.conn>>}
    <3>1. <<calls[i].old, calls[i].tab.id, calls[i].tab.conn>> \in Claims
      BY <1>1, <2>1 DEF CallClaims, PaneOps
    <3>2. QED
      BY <2>3, <3>1 DEF CallClaims
  <2>7. CallFits(c, conns)
    BY <1>1, <2>1, <2>3 DEF CallFits
  <2>8. /\ tabs' \subseteq TabRecords /\ Apart(tabs')
        /\ \A t \in tabs' : Frame(t) \in Frames /\ TabClaims(t) \subseteq Claims
    BY <1>1, KnownFacts DEF Known, TabsInv, TabTypes
  <2>9. QED
    BY <1>1, <1>3, <2>3, <2>4, <2>5, <2>6, <2>7, <2>8, PaneAddedStays
<1>4. QED
  BY <1>1, <1>2, <1>3

-----------------------------------------------------------------------------
\* No tab, shown or remembered, has the connection a handler has opened or opens now.
LEMMA NobodyHas ==
    ASSUME TabsInv, NEW i \in Calls, NEW c, c \in CallConn(calls[i]) \/ c = made + 1,
           NEW t \in Known
    PROVE  t.id # c /\ t.conn # c /\ t.parent # c
<1>1. t.id \in 1..made /\ t.conn \in 1..made /\ t.parent \in 0..made /\ made \in Nat
  BY KnownFacts DEF TabsInv, TabTypes
<1>2. CASE c = made + 1
  BY <1>1, <1>2
<1>3. CASE c \in CallConn(calls[i])
  <2>1. <<i, c>> \in Reservations
    BY <1>3, CallIsKnown
  <2>2. Frame(t) \in Frames
    BY KnownFacts
  <2>3. Frame(t)[1] = t.id /\ Frame(t)[2] = t.conn /\ Frame(t)[4] = t.parent
    BY DEF Frame
  <2>4. QED
    BY <2>1, <2>2, <2>3 DEF TabsInv, TabsFit, ReservedOnce
<1>4. QED
  BY <1>2, <1>3

\* A handler ends with a tab t for the connection it has opened, with a terminal n or none.
LEMMA ShowingStays ==
    ASSUME TabsInv, NEW i \in Calls, calls' = [calls EXCEPT ![i] = Idle],
           NEW t \in TabRecords, NEW n, made' \in Nat, made <= made', UNCHANGED away,
           \/ t.conn \in CallConn(calls[i]) /\ conns' = conns
           \/ t.conn = made + 1 /\ made < made' /\ conns' = conns \cup {t.conn},
           OwnOf(calls[i]) \subseteq {t.conn}, t.parent = 0,
           \/ t.id = t.conn
           \/ /\ ~t.file /\ \E f \in Frames : f[1] = t.id /\ ~f[3]
              /\ \A u \in tabs' : u.id = t.id => u = t,
           \/ terms' = terms /\ Panes(t) = {}
           \/ /\ terms' = terms \cup {<<n, t.conn>>} /\ Panes(t) = {n}
              /\ ~t.file /\ n \in (made + 1)..made' /\ n # t.conn /\ t.conn \in conns',
           tabs' \subseteq tabs \cup {t}, {t.conn} \cup Panes(t) \subseteq HeldBy(tabs') \cup lost',
           \A u \in tabs, x \in conns \cup Terminals :
              x = u.conn \/ x \in Panes(u) => x \in HeldBy(tabs') \cup lost',
           lost \subseteq lost'
    PROVE  TabsInv'
<1>1. TabTypes /\ TabsFit /\ made \in Nat
  BY DEF TabsInv, TabTypes
<1>2. /\ \A j \in Calls : calls'[j] \in {calls[j], Idle}
      /\ \A r \in Reservations' : r \in Reservations /\ r[1] # i
      /\ Fathers' \subseteq Fathers
      /\ Own \subseteq Own' \cup {t.conn}
  BY CallIsKnown, Slots, IdleKnowsNothing
<1>3. \A u \in tabs \cup away : Frame(u) \in Frames /\ TabClaims(u) \subseteq Claims
  BY KnownFacts DEF Known
<1>4. /\ Frames' \subseteq Frames \cup {Frame(t)}
      /\ Claims' \subseteq Claims \cup TabClaims(t)
  <2> DEFINE F == {Frame(t)}
             D == TabClaims(t)
  <2>1. \A u \in tabs' \cup away' \cup CallTabs(Idle) :
            Frame(u) \in Frames \cup F /\ TabClaims(u) \subseteq Claims \cup D
    BY <1>3, IdleKnowsNothing
  <2>2. CallClaims(Idle) \subseteq Claims \cup D
    BY IdleKnowsNothing
  <2> HIDE DEF F, D
  <2>3. Frames' \subseteq Frames \cup F /\ Claims' \subseteq Claims \cup D
    BY <1>2, <2>1, <2>2, Views
  <2>4. QED
    BY <2>3 DEF F, D
<1>5. \/ terms' = terms /\ Claims' \subseteq Claims
      \/ /\ terms' = terms \cup {<<n, t.conn>>}
         /\ Claims' \subseteq Claims \cup {<<n, t.id, t.conn>>}
         /\ ~t.file /\ n \in (made + 1)..made' /\ n # t.conn /\ t.conn \in conns'
  <2>1. Panes(t) = {} => TabClaims(t) = {}
    BY DEF TabClaims
  <2>2. Panes(t) = {n} => TabClaims(t) = {<<n, t.id, t.conn>>}
    BY DEF TabClaims
  <2>3. QED
    BY <1>4, <2>1, <2>2
<1>6. \/ <<i, t.conn>> \in Reservations /\ conns' = conns
      \/ t.conn = made + 1 /\ made < made' /\ conns' = conns \cup {t.conn}
  BY CallIsKnown
<1>7. TabsFit'
  <2>1. t.id = t.conn \/ (~t.file /\ \E f \in Frames : f[1] = t.id /\ ~f[3])
    OBVIOUS
  <2>2. QED
    BY <1>1, <1>2, <1>4, <1>5, <1>6, <2>1, ShowingFits
<1>8. t.conn \in conns' \/ t.conn \in 1..made
  BY <1>1, <1>6 DEF TabsFit, ReservedOnce
<1>9. CallsFit'
  <2>1. \A x \in conns' : x \in conns \/ x \notin 1..made
    BY <1>1, <1>6
  <2>2. QED
    BY <1>1, <1>2, <2>1, IdleIsCall, CallsStayFit DEF TabsInv
<1>10. Apart(tabs')
  <2>1. \A u \in tabs : u.conn # t.conn /\ (t.id = t.conn => u.id # t.id)
    BY NobodyHas DEF Known
  <2>2. QED
    BY <2>1 DEF TabsInv, Apart
<1>11. TabTypes'
  <2>1. 1..made \subseteq 1..made' /\ conns' \subseteq 1..made' /\ t.conn \in 1..made'
    <3>1. 1..made \subseteq 1..made' /\ (made < made' => made + 1 \in 1..made')
      BY <1>1
    <3>2. conns' \subseteq 1..made'
      BY <1>1, <1>6, <3>1 DEF TabTypes
    <3>3. QED
      BY <1>8, <3>1, <3>2
  <2>2. terms' \subseteq (1..made') \X (1..made')
    <3>1. CASE terms' = terms
      BY <1>1, <2>1, <3>1 DEF TabTypes
    <3>2. CASE terms' = terms \cup {<<n, t.conn>>} /\ n \in (made + 1)..made'
      <4>1. n \in 1..made'
        BY <1>1, <3>2
      <4>2. QED
        BY <1>1, <2>1, <3>2, <4>1 DEF TabTypes
    <3>3. QED
      BY <3>1, <3>2
  <2>3. tabs' \subseteq TabRecords /\ away' \subseteq TabRecords
        /\ calls' \in [Calls -> CallRecords]
    BY <1>1, IdleIsCall DEF TabTypes
  <2>4. QED
    BY <2>1, <2>2, <2>3 DEF TabTypes
<1>12. OwnedOrLost'
  <2>1. ASSUME NEW x \in conns' \cup Terminals'
        PROVE  x \in conns \cup Terminals \cup {t.conn} \cup Panes(t)
    BY DEF Terminals
  <2>2. ASSUME NEW x \in HeldBy(tabs')
        PROVE  x \in HeldBy(tabs' \cup away')
    BY HeldByIs
  <2>3. ASSUME NEW x \in conns \cup Terminals, x \in HeldBy(tabs \cup away)
        PROVE  x \in HeldBy(tabs' \cup away') \cup lost'
    <3>1. PICK u \in tabs \cup away : x = u.conn \/ x \in Panes(u)
      BY <2>3, HeldByIs
    <3>2. CASE u \in away
      BY <3>1, <3>2, HeldByIs
    <3>3. CASE u \in tabs
      BY <2>2, <3>1, <3>3
    <3>4. QED
      BY <3>1, <3>2, <3>3
  <2>4. ASSUME NEW x \in conns \cup Terminals
        PROVE  x \in HeldBy(tabs' \cup away') \cup Own' \cup lost'
    <3>1. x \in HeldBy(tabs \cup away) \cup Own \cup lost
      BY DEF TabsInv, OwnedOrLost
    <3>2. CASE x \in Own \cup lost
      BY <1>2, <2>2, <3>2
    <3>3. QED
      BY <2>3, <3>1, <3>2
  <2>5. QED
    BY <2>1, <2>2, <2>4 DEF OwnedOrLost
<1>13. QED
  BY <1>7, <1>9, <1>10, <1>11, <1>12 DEF TabsInv

\* A new tab is shown.
LEMMA ShowKeeps ==
    ASSUME TabsInv, NEW i \in Calls, NEW t \in TabRecords, NEW n, Show(i, t),
           made' \in Nat, made <= made',
           \/ t.conn \in CallConn(calls[i]) /\ conns' = conns
           \/ t.conn = made + 1 /\ made < made' /\ conns' = conns \cup {t.conn},
           OwnOf(calls[i]) \subseteq {t.conn}, t.parent = 0, t.id = t.conn,
           \/ terms' = terms /\ Panes(t) = {}
           \/ /\ terms' = terms \cup {<<n, t.conn>>} /\ Panes(t) = {n}
              /\ ~t.file /\ n \in (made + 1)..made' /\ n # t.conn /\ t.conn \in conns'
    PROVE  TabsInv'
<1>1. /\ calls' = [calls EXCEPT ![i] = Idle] /\ UNCHANGED <<away, lost>>
      /\ tabs' = {u \in tabs : u.conn # t.conn} \cup {t}
  BY DEF Show, Await
<1>2. tabs' = tabs \cup {t}
  <2>1. \A u \in tabs : u.conn # t.conn
    BY NobodyHas DEF Known
  <2>2. QED
    BY <1>1, <2>1
<1>3. {t.conn} \cup Panes(t) \subseteq HeldBy(tabs') \cup lost'
  BY <1>2, HeldByIs
<1>4. \A u \in tabs, x \in conns \cup Terminals :
          x = u.conn \/ x \in Panes(u) => x \in HeldBy(tabs') \cup lost'
  BY <1>2, HeldByIs
<1>5. lost \subseteq lost' /\ tabs' \subseteq tabs \cup {t} /\ UNCHANGED away
  BY <1>1, <1>2
<1>6. QED
  BY <1>1, <1>3, <1>4, <1>5, ShowingStays

\* The connection a handler has opened.
LEMMA CallOpened ==
    ASSUME TabsInv, NEW i \in Calls, calls[i].op \in Reserving
    PROVE  /\ CallConn(calls[i]) = {calls[i].conn} /\ OwnOf(calls[i]) = {calls[i].conn}
           /\ calls[i].conn \in 1..made /\ calls[i].prof \in Protocol
<1>1. CallConn(calls[i]) = {calls[i].conn} /\ OwnOf(calls[i]) = {calls[i].conn}
  BY DEF CallConn, CallTerm, OwnOf, Reserving
<1>2. <<i, calls[i].conn>> \in Reservations /\ calls[i] \in CallRecords
  BY <1>1, CallIsKnown
<1>3. QED
  BY <1>1, <1>2 DEF TabsInv, TabsFit, ReservedOnce, CallRecords

\* The handlers that end with a new tab.
LEMMA NewTabsKeep ==
    ASSUME TabsInv, NEW i \in Calls,
           FilesOpened(i) \/ Attached(i) \/ AttachedLater(i) \/ ShellOpened(i)
    PROVE  TabsInv'
<1> DEFINE c == calls[i].conn
<1>1. made \in Nat /\ {"ssh", "sftp", "shell"} \subseteq Protocol /\ {TRUE, FALSE} \subseteq BOOLEAN
  BY DEF TabsInv, TabTypes, Protocol
<1>2. CASE FilesOpened(i) \/ AttachedLater(i)
  <2>1. /\ CallConn(calls[i]) = {c} /\ OwnOf(calls[i]) = {c} /\ c \in 1..made
        /\ UNCHANGED <<conns, terms, made>>
    BY <1>2, CallOpened DEF FilesOpened, AttachedLater, Reserving
  <2>2. PICK t : Show(i, t) /\ t \in {Tab(c, "sftp", TRUE, c, 0, 0), Tab(c, "ssh", FALSE, c, 0, 0)}
    BY <1>2 DEF FilesOpened, AttachedLater
  <2>3. t \in TabRecords /\ t.id = c /\ t.conn = c /\ t.parent = 0 /\ Panes(t) = {}
    <3>1. c \in Nat /\ 0 \in Nat
      BY <1>1, <2>1
    <3>2. CASE t = Tab(c, "sftp", TRUE, c, 0, 0)
      <4>1. t \in TabRecords
        BY <1>1, <3>1, <3>2 DEF Tab, TabRecords
      <4>2. t.id = c /\ t.conn = c /\ t.parent = 0 /\ t.prim = 0 /\ t.extra = {}
        BY <3>2 DEF Tab
      <4>3. QED
        BY <4>1, <4>2 DEF Panes
    <3>3. CASE t = Tab(c, "ssh", FALSE, c, 0, 0)
      <4>1. t \in TabRecords
        BY <1>1, <3>1, <3>3 DEF Tab, TabRecords
      <4>2. t.id = c /\ t.conn = c /\ t.parent = 0 /\ t.prim = 0 /\ t.extra = {}
        BY <3>3 DEF Tab
      <4>3. QED
        BY <4>1, <4>2 DEF Panes
    <3>4. QED
      BY <2>2, <3>2, <3>3
  <2>4. made' \in Nat /\ made <= made'
    BY <1>1, <2>1
  <2>5. QED
    BY <2>1, <2>2, <2>3, <2>4, ShowKeeps
<1>3. CASE Attached(i)
  <2> DEFINE t == Tab(c, calls[i].prof, FALSE, c, made + 1, 0)
  <2>1. /\ CallConn(calls[i]) = {c} /\ OwnOf(calls[i]) = {c} /\ c \in 1..made
        /\ calls[i].prof \in Protocol
    BY <1>3, CallOpened DEF Attached, Reserving
  <2>2. /\ UNCHANGED conns /\ made' = made + 1 /\ terms' = terms \cup {<<made + 1, c>>}
        /\ Show(i, t) /\ c \in conns
    BY <1>3 DEF Attached, Fresh
  <2>3. /\ t \in TabRecords /\ t.id = c /\ t.conn = c /\ t.parent = 0 /\ ~t.file
        /\ Panes(t) = {made + 1} \ {0}
    <3>1. c \in Nat /\ 0 \in Nat /\ made + 1 \in Nat
      BY <1>1, <2>1
    <3>2. QED
      <4>1. t \in TabRecords
        BY <1>1, <2>1, <3>1 DEF Tab, TabRecords
      <4>2. t.id = c /\ t.conn = c /\ t.parent = 0 /\ t.prim = made + 1 /\ t.extra = {}
        BY DEF Tab
      <4>3. ~t.file
        BY DEF Tab
      <4>4. QED
        BY <4>1, <4>2, <4>3 DEF Panes
  <2> HIDE DEF t
  <2>4. /\ Panes(t) = {made + 1} /\ made' \in Nat /\ made <= made'
        /\ made + 1 \in (made + 1)..made' /\ made + 1 # c
    BY <1>1, <2>1, <2>2, <2>3
  <2>5. QED
    BY <2>1, <2>2, <2>3, <2>4, ShowKeeps
<1>4. CASE ShellOpened(i)
  <2> DEFINE t == Tab(made + 1, "shell", FALSE, made + 1, made + 2, 0)
  <2>1. OwnOf(calls[i]) = {}
    BY <1>4 DEF ShellOpened, OwnOf, CallConn, CallTerm, Reserving
  <2>2. /\ conns' = conns \cup {made + 1} /\ made' = made + 2
        /\ terms' = terms \cup {<<made + 2, made + 1>>} /\ Show(i, t)
    BY <1>4 DEF ShellOpened, Fresh
  <2>3. /\ t \in TabRecords /\ t.id = made + 1 /\ t.conn = made + 1 /\ t.parent = 0
        /\ ~t.file /\ Panes(t) = {made + 2} \ {0}
    <3>1. 0 \in Nat /\ made + 1 \in Nat /\ made + 2 \in Nat
      BY <1>1
    <3>2. QED
      <4>1. t \in TabRecords
        BY <1>1, <3>1 DEF Tab, TabRecords
      <4>2. /\ t.id = made + 1 /\ t.conn = made + 1 /\ t.parent = 0
            /\ t.prim = made + 2 /\ t.extra = {}
        BY DEF Tab
      <4>3. ~t.file
        BY DEF Tab
      <4>4. QED
        BY <4>1, <4>2, <4>3 DEF Panes
  <2> HIDE DEF t
  <2>4. /\ Panes(t) = {made + 2} /\ made' \in Nat /\ made < made' /\ made <= made'
        /\ made + 2 \in (made + 1)..made' /\ made + 2 # made + 1
    BY <1>1, <2>2, <2>3
  <2>5. QED
    BY <2>1, <2>2, <2>3, <2>4, ShowKeeps
<1>5. QED
  BY <1>2, <1>3, <1>4

\* A tab reconnected: what it and its SFTP tabs held is closed or given up for lost.
LEMMA AgainKeeps ==
    ASSUME TabsInv, NEW i \in Calls, NEW t \in TabRecords, NEW n,
           calls' = [calls EXCEPT ![i] = Idle], UNCHANGED away, calls[i].goal = "again",
           calls[i].op # "closingOld",
           tabs' \subseteq tabs \cup {t}, t \in tabs', \A u \in tabs' : u.id = t.id => u = t,
           \A u \in tabs : \/ u \in tabs' \/ u.id = calls[i].tab.id
                           \/ u.parent = calls[i].tab.conn,
           lost' = lost \cup (HeldBy(WithId(calls[i].tab.id)) \ {calls[i].tab.conn}),
           made' \in Nat, made <= made',
           \/ t.conn \in CallConn(calls[i]) /\ conns' = conns
           \/ t.conn = made + 1 /\ made < made' /\ conns' = conns \cup {t.conn},
           OwnOf(calls[i]) \subseteq {t.conn}, t.parent = 0, t.id = calls[i].tab.id, ~t.file,
           \/ terms' = terms /\ Panes(t) = {}
           \/ /\ terms' = terms \cup {<<n, t.conn>>} /\ Panes(t) = {n}
              /\ n \in (made + 1)..made' /\ n # t.conn /\ t.conn \in conns'
    PROVE  TabsInv'
<1> DEFINE s == calls[i].tab
<1>1. s \in Known /\ ~s.file /\ s.conn \notin conns
  BY CallIsKnown DEF CallTabs, CallFits
<1>2. s.conn \notin conns \cup Terminals /\ s.conn \in 1..made /\ Frame(s) \in Frames
  BY <1>1, KnownFacts
<1>3. \E f \in Frames : f[1] = t.id /\ ~f[3]
  <2>1. Frame(s)[1] = t.id
    BY DEF Frame
  <2>2. ~Frame(s)[3]
    BY <1>1 DEF Frame
  <2>3. QED
    BY <1>2, <2>1, <2>2
<1>4. ASSUME NEW u \in tabs, NEW x \in conns \cup Terminals, x = u.conn \/ x \in Panes(u)
      PROVE  x \in HeldBy(tabs') \cup lost'
  <2>1. CASE u \in tabs'
    BY <1>4, <2>1, HeldByIs
  <2>2. CASE u.id = s.id
    <3>1. x \in HeldBy(WithId(s.id))
      BY <1>4, <2>2, HeldByIs DEF WithId
    <3>2. QED
      BY <1>2, <3>1
  <2>3. CASE u.parent = s.conn
    <3>1. u.parent # 0
      BY <1>2, <2>3
    <3>2. Panes(u) = {} /\ u.conn \notin conns \cup Terminals
      BY <3>1, KnownFacts DEF Known
    <3>3. QED
      BY <1>4, <3>2
  <2>4. QED
    BY <2>1, <2>2, <2>3
<1>5. {t.conn} \cup Panes(t) \subseteq HeldBy(tabs') \cup lost'
  BY HeldByIs
<1>6. \/ terms' = terms /\ Panes(t) = {}
      \/ /\ terms' = terms \cup {<<n, t.conn>>} /\ Panes(t) = {n}
         /\ ~t.file /\ n \in (made + 1)..made' /\ n # t.conn /\ t.conn \in conns'
  OBVIOUS
<1>7. QED
  BY <1>3, <1>4, <1>5, <1>6, ShowingStays

\* The handlers that end with a tab reconnected.
LEMMA AgainTabsKeep ==
    ASSUME TabsInv, NEW i \in Calls,
           AttachedAgain(i) \/ AttachedLaterAgain(i) \/ ShellOpenedAgain(i)
    PROVE  TabsInv'
<1> DEFINE c == calls[i].conn
           id == calls[i].tab.id
<1>1. made \in Nat /\ {"ssh", "shell"} \subseteq Protocol /\ FALSE \in BOOLEAN
  BY DEF TabsInv, TabTypes, Protocol
<1>2. /\ calls' = [calls EXCEPT ![i] = Idle] /\ UNCHANGED away
      /\ calls[i].goal = "again" /\ calls[i].op # "closingOld"
      /\ lost' = lost \cup (HeldBy(WithId(calls[i].tab.id)) \ {calls[i].tab.conn})
  BY DEF AttachedAgain, AttachedLaterAgain, ShellOpenedAgain, ShowAgain, Await
<1>3. id \in Nat
  <2>1. calls[i].tab \in TabRecords
    BY CallIsKnown DEF CallRecords
  <2>2. QED
    BY <2>1 DEF TabRecords
<1>4. ASSUME NEW t, t.id = id,
             \/ tabs' = {u \in tabs : u.id # id /\ u.parent # calls[i].tab.conn} \cup {t}
             \/ tabs' = {u \in tabs : u.id # id} \cup {t}
      PROVE  /\ tabs' \subseteq tabs \cup {t} /\ t \in tabs'
             /\ \A u \in tabs' : u.id = t.id => u = t
             /\ \A u \in tabs : \/ u \in tabs' \/ u.id = calls[i].tab.id
                                \/ u.parent = calls[i].tab.conn
  BY <1>4
<1>5. CASE AttachedLaterAgain(i)
  <2> DEFINE t == Tab(id, "ssh", FALSE, c, 0, 0)
  <2>1. /\ CallConn(calls[i]) = {c} /\ OwnOf(calls[i]) = {c} /\ c \in 1..made
        /\ UNCHANGED <<conns, terms, made>>
    BY <1>5, CallOpened DEF AttachedLaterAgain, Reserving
  <2>2. /\ t \in TabRecords /\ t.id = id /\ t.conn = c /\ t.parent = 0 /\ ~t.file
        /\ Panes(t) = {0} \ {0}
    <3>1. c \in Nat /\ 0 \in Nat
      BY <1>1, <2>1
    <3>2. QED
      <4>1. t \in TabRecords
        BY <1>1, <1>3, <3>1 DEF Tab, TabRecords
      <4>2. t.id = id /\ t.conn = c /\ t.parent = 0 /\ t.prim = 0 /\ t.extra = {}
        BY DEF Tab
      <4>3. ~t.file
        BY DEF Tab
      <4>4. QED
        BY <4>1, <4>2, <4>3 DEF Panes
  <2>3. tabs' = {u \in tabs : u.id # id /\ u.parent # calls[i].tab.conn} \cup {t}
    BY <1>5, <2>2 DEF AttachedLaterAgain, ShowAgain
  <2> HIDE DEF t
  <2>4. made' \in Nat /\ made <= made' /\ Panes(t) = {}
    BY <1>1, <2>1, <2>2
  <2>5. QED
    BY <1>2, <1>4, <2>1, <2>2, <2>3, <2>4, AgainKeeps
<1>6. CASE AttachedAgain(i)
  <2> DEFINE t == Tab(id, calls[i].prof, FALSE, c, made + 1, 0)
  <2>1. /\ CallConn(calls[i]) = {c} /\ OwnOf(calls[i]) = {c} /\ c \in 1..made
        /\ calls[i].prof \in Protocol
    BY <1>6, CallOpened DEF AttachedAgain, Reserving
  <2>2. /\ UNCHANGED conns /\ made' = made + 1 /\ terms' = terms \cup {<<made + 1, c>>}
        /\ c \in conns
    BY <1>6 DEF AttachedAgain, Fresh
  <2>3. /\ t \in TabRecords /\ t.id = id /\ t.conn = c /\ t.parent = 0 /\ ~t.file
        /\ Panes(t) = {made + 1} \ {0}
    <3>1. c \in Nat /\ 0 \in Nat /\ made + 1 \in Nat
      BY <1>1, <2>1
    <3>2. QED
      <4>1. t \in TabRecords
        BY <1>1, <1>3, <2>1, <3>1 DEF Tab, TabRecords
      <4>2. t.id = id /\ t.conn = c /\ t.parent = 0 /\ t.prim = made + 1 /\ t.extra = {}
        BY DEF Tab
      <4>3. ~t.file
        BY DEF Tab
      <4>4. QED
        BY <4>1, <4>2, <4>3 DEF Panes
  <2>4. tabs' = {u \in tabs : u.id # id /\ u.parent # calls[i].tab.conn} \cup {t}
    BY <1>6, <2>3 DEF AttachedAgain, ShowAgain
  <2> HIDE DEF t
  <2>5. /\ Panes(t) = {made + 1} /\ made' \in Nat /\ made <= made'
        /\ made + 1 \in (made + 1)..made' /\ made + 1 # c
    BY <1>1, <2>1, <2>2, <2>3
  <2>6. /\ tabs' \subseteq tabs \cup {t} /\ t \in tabs'
        /\ \A u \in tabs' : u.id = t.id => u = t
        /\ \A u \in tabs : \/ u \in tabs' \/ u.id = calls[i].tab.id
                           \/ u.parent = calls[i].tab.conn
    BY <1>4, <2>3, <2>4
  <2>7. QED
    BY <1>2, <2>1, <2>2, <2>3, <2>5, <2>6, AgainKeeps
<1>7. CASE ShellOpenedAgain(i)
  <2> DEFINE t == Tab(id, "shell", FALSE, made + 1, made + 2, 0)
  <2>1. OwnOf(calls[i]) = {}
    BY <1>7 DEF ShellOpenedAgain, OwnOf, CallConn, CallTerm, Reserving
  <2>2. /\ conns' = conns \cup {made + 1} /\ made' = made + 2
        /\ terms' = terms \cup {<<made + 2, made + 1>>}
        /\ tabs' = {u \in tabs : u.id # id} \cup {t}
    BY <1>7 DEF ShellOpenedAgain, Fresh
  <2>3. /\ t \in TabRecords /\ t.id = id /\ t.conn = made + 1 /\ t.parent = 0
        /\ ~t.file /\ Panes(t) = {made + 2} \ {0}
    <3>1. 0 \in Nat /\ made + 1 \in Nat /\ made + 2 \in Nat
      BY <1>1
    <3>2. QED
      <4>1. t \in TabRecords
        BY <1>1, <1>3, <3>1 DEF Tab, TabRecords
      <4>2. t.id = id /\ t.conn = made + 1 /\ t.parent = 0 /\ t.prim = made + 2 /\ t.extra = {}
        BY DEF Tab
      <4>3. ~t.file
        BY DEF Tab
      <4>4. QED
        BY <4>1, <4>2, <4>3 DEF Panes
  <2> HIDE DEF t
  <2>4. /\ Panes(t) = {made + 2} /\ made' \in Nat /\ made < made' /\ made <= made'
        /\ made + 2 \in (made + 1)..made' /\ made + 2 # made + 1
    BY <1>1, <2>2, <2>3
  <2>5. /\ tabs' \subseteq tabs \cup {t} /\ t \in tabs'
        /\ \A u \in tabs' : u.id = t.id => u = t
        /\ \A u \in tabs : \/ u \in tabs' \/ u.id = calls[i].tab.id
                           \/ u.parent = calls[i].tab.conn
    BY <1>4, <2>2, <2>3
  <2>6. QED
    BY <1>2, <2>1, <2>2, <2>3, <2>4, <2>5, AgainKeeps
<1>8. QED
  BY <1>5, <1>6, <1>7

\* The tabs of a handler that connects an SFTP tab again have a connection no more.
LEMMA RefilingKnows ==
    ASSUME TabsInv, NEW i \in Calls, calls[i].op = "openingFiles", calls[i].goal = "files"
    PROVE  /\ calls[i].side \in Known /\ calls[i].side \in TabRecords
           /\ calls[i].side.conn \notin conns \cup Terminals
           /\ calls[i].tab.parent = 0 => calls[i].side = calls[i].tab
           /\ calls[i].tab.parent # 0 => ~calls[i].side.file /\ calls[i].side.parent = 0
           /\ \A x \in Panes(calls[i].side) : x \in 1..made /\ x \notin conns \cup Terminals
<1> DEFINE s == calls[i].side
<1>1. /\ s \in Known /\ s.conn \notin conns
      /\ IF calls[i].tab.parent = 0 THEN s = calls[i].tab ELSE ~s.file
  BY CallIsKnown DEF CallTabs, CallFits
<1>2. /\ s \in TabRecords /\ s.conn \notin Terminals /\ (s.parent # 0 => s.file)
      /\ \A x \in Panes(s) : /\ x \in 1..made /\ x \notin conns
                             /\ \A p \in terms : p[1] = x => p[2] = s.conn
  BY <1>1, KnownFacts
<1>3. \A x \in Panes(s) : x \notin Terminals
  BY <1>1, <1>2 DEF Terminals, TabsInv, TabsFit, BackendFits
<1>4. QED
  BY <1>1, <1>2, <1>3

\* An SFTP connection of its own takes the place of the old one, if the tab is there.
LEMMA RefiledRootKeeps ==
    ASSUME TabsInv, NEW i \in Calls, RefiledRoot(i)
    PROVE  TabsInv'
<1> DEFINE c == calls[i].conn
           s == calls[i].side
           t == Tab(c, "sftp", TRUE, c, 0, 0)
<1>1. /\ calls[i].op = "openingFiles" /\ calls[i].goal = "files" /\ c \in conns
      /\ calls[i].tab.parent = 0 /\ UNCHANGED <<conns, terms, made, away>>
      /\ calls' = [calls EXCEPT ![i] = Idle]
  BY DEF RefiledRoot, Refiled, Await
<1>2. calls[i].tab = s /\ s.conn \notin conns \cup Terminals
  BY <1>1, RefilingKnows
<1>3. /\ tabs' = {IF u.id = s.id THEN t ELSE u : u \in tabs}
      /\ lost' = lost \cup (HeldBy(WithId(s.id)) \ {s.conn})
                      \cup (IF WithId(s.id) = {} THEN {c, 0} ELSE {})
  <2>1. Refiled(i, 0, 0)
    BY DEF RefiledRoot
  <2>2. WithId(calls[i].tab.id) \cup WithId(s.id) = WithId(s.id)
    BY <1>2
  <2>3. QED
    BY <1>1, <1>2, <2>1, <2>2 DEF Refiled
<1>4. /\ CallConn(calls[i]) = {c} /\ OwnOf(calls[i]) = {c} /\ c \in 1..made
  BY <1>1, CallOpened DEF Reserving
<1>5. t \in TabRecords
  <2>1. "sftp" \in Protocol /\ c \in Nat
    BY <1>4 DEF Protocol
  <2>2. QED
    BY <2>1 DEF Tab, TabRecords
<1>6. t.id = c /\ t.conn = c /\ t.parent = 0 /\ t.prim = 0 /\ t.extra = {}
  BY DEF Tab
<1>7. Panes(t) = {}
  BY <1>6 DEF Panes
<1> HIDE DEF t
<1>8. {t.conn} \cup Panes(t) \subseteq HeldBy(tabs') \cup lost'
  <2>1. CASE WithId(s.id) = {}
    BY <1>3, <1>6, <1>7, <2>1
  <2>2. CASE WithId(s.id) # {}
    <3>1. t \in tabs'
      BY <1>3, <2>2 DEF WithId
    <3>2. QED
      BY <1>7, <3>1, HeldByIs
  <2>3. QED
    BY <2>1, <2>2
<1>9. ASSUME NEW u \in tabs, NEW x \in conns \cup Terminals, x = u.conn \/ x \in Panes(u)
      PROVE  x \in HeldBy(tabs') \cup lost'
  <2>1. CASE u.id = s.id
    <3>1. x \in HeldBy(WithId(s.id))
      BY <1>9, <2>1, HeldByIs DEF WithId
    <3>2. QED
      BY <1>2, <1>3, <3>1
  <2>2. CASE u.id # s.id
    <3>1. u \in tabs'
      BY <1>3, <2>2
    <3>2. QED
      BY <1>9, <3>1, HeldByIs
  <2>3. QED
    BY <2>1, <2>2
<1>10. tabs' \subseteq tabs \cup {t} /\ lost \subseteq lost'
  BY <1>3
<1>11. made' \in Nat /\ made <= made'
  BY <1>1 DEF TabsInv, TabTypes
<1>12. QED
  BY <1>1, <1>4, <1>5, <1>6, <1>7, <1>8, <1>9, <1>10, <1>11, ShowingStays

\* An SFTP tab of an SSH tab is shown.
LEMMA ChildOpenedKeeps ==
    ASSUME TabsInv, NEW i \in Calls, ChildOpened(i)
    PROVE  TabsInv'
<1> DEFINE c == calls[i].tab.conn
           n == made + 1
           t == Tab(n, "ssh", TRUE, n, 0, c)
<1>1. /\ calls[i].op = "openingChild" /\ made' = n /\ tabs' = tabs \cup {t}
      /\ calls' = [calls EXCEPT ![i] = Idle] /\ UNCHANGED <<conns, terms, away, lost>>
  BY DEF ChildOpened, Fresh, Await
<1>2. OwnOf(calls[i]) = {} /\ c \in Fathers
  BY <1>1, CallIsKnown DEF OwnOf, CallConn, CallTerm, CallFather, Reserving
<1>3. TabTypes /\ TabsFit /\ made \in Nat /\ n \in Nat /\ c \in 1..made
  BY <1>2 DEF TabsInv, TabTypes, TabsFit, FramesFit
<1>4. t \in TabRecords
  <2>1. "ssh" \in Protocol /\ n \in Nat /\ c \in Nat
    BY <1>3 DEF Protocol
  <2>2. QED
    BY <2>1 DEF Tab, TabRecords
<1>5. t.id = n /\ t.conn = n /\ t.parent = c /\ t.prim = 0 /\ t.extra = {}
  BY DEF Tab
<1>6. t.file
  BY DEF Tab
<1>7. TabClaims(t) = {}
  BY <1>5 DEF TabClaims, Panes
<1> HIDE DEF t
<1>8. /\ \A j \in Calls : calls'[j] \in {calls[j], Idle}
      /\ \A r \in Reservations' : r \in Reservations
      /\ Fathers' \subseteq Fathers
      /\ Own \subseteq Own'
  BY <1>1, <1>2, CallIsKnown, Slots, IdleKnowsNothing
<1>9. Frames' \subseteq Frames \cup {Frame(t)} /\ Claims' \subseteq Claims
  <2> DEFINE F == {Frame(t)}
  <2>1. \A u \in tabs' \cup away' \cup CallTabs(Idle) :
            Frame(u) \in Frames \cup F /\ TabClaims(u) \subseteq Claims \cup {}
    <3>1. \A u \in tabs \cup away : Frame(u) \in Frames /\ TabClaims(u) \subseteq Claims
      BY KnownFacts DEF Known
    <3>2. QED
      BY <1>1, <1>7, <3>1, IdleKnowsNothing
  <2>2. CallClaims(Idle) \subseteq Claims \cup {}
    BY IdleKnowsNothing
  <2> HIDE DEF F
  <2>3. Frames' \subseteq Frames \cup F /\ Claims' \subseteq Claims \cup {}
    BY <1>8, <2>1, <2>2, Views
  <2>4. QED
    BY <2>3 DEF F
<1>10. TabsFit'
  BY <1>1, <1>2, <1>3, <1>4, <1>5, <1>6, <1>8, <1>9, ChildFits
<1>11. CallsFit'
  BY <1>1, <1>3, <1>8, IdleIsCall, CallsStayFit DEF TabsInv
<1>12. Apart(tabs')
  <2>1. \A u \in tabs : u.conn # n /\ u.id # n
    BY NobodyHas DEF Known
  <2>2. QED
    BY <1>1, <1>5, <2>1 DEF TabsInv, Apart
<1>13. TabTypes'
  <2>1. 1..made \subseteq 1..made'
    BY <1>1, <1>3
  <2>2. QED
    BY <1>1, <1>3, <1>4, <2>1, IdleIsCall DEF TabTypes
<1>14. OwnedOrLost'
  <2>1. \A x \in HeldBy(tabs \cup away) : x \in HeldBy(tabs' \cup away')
    BY <1>1, HeldByIs
  <2>2. QED
    BY <1>1, <1>8, <2>1 DEF TabsInv, OwnedOrLost, Terminals
<1>15. QED
  BY <1>10, <1>11, <1>12, <1>13, <1>14 DEF TabsInv

\* An SSH tab and its SFTP tab are replaced where they are.
LEMMA RefiledChildKeeps ==
    ASSUME TabsInv, NEW i \in Calls, RefiledChild(i)
    PROVE  TabsInv'
<1> DEFINE c == calls[i].conn
           t == calls[i].tab
           s == calls[i].side
           f == made + 1
           newFile == Tab(f, "ssh", TRUE, f, 0, c)
<1>1. /\ calls[i].op = "openingFiles" /\ calls[i].goal = "files" /\ c \in conns
      /\ t.parent # 0 /\ UNCHANGED <<conns, away>>
      /\ calls' = [calls EXCEPT ![i] = Idle]
  BY DEF RefiledChild, Refiled, Await
<1>2. PICK N \in {{}, {made + 2}}, n \in Nat :
         /\ made' \in {made + 1, made + 2} /\ (N # {} => made' = made + 2)
         /\ terms' = terms \cup {<<m, c>> : m \in N}
         /\ N = {n} \ {0} /\ Refiled(i, n, f)
  <2>1. made + 2 \in Nat /\ 0 \in Nat /\ made + 2 # 0
    BY DEF TabsInv, TabTypes
  <2>2. CASE /\ made' = made + 2 /\ terms' = terms \cup {<<made + 2, c>>}
             /\ Refiled(i, made + 2, f)
    <3>1. {<<m, c>> : m \in {made + 2}} = {<<made + 2, c>>}
      OBVIOUS
    <3>2. {made + 2} = {made + 2} \ {0}
      BY <2>1
    <3>3. QED
      BY <2>1, <2>2, <3>1, <3>2
  <2>3. CASE made' = made + 1 /\ terms' = terms /\ Refiled(i, 0, f)
    <3>1. {<<m, c>> : m \in {}} = {} /\ {} = {0} \ {0}
      OBVIOUS
    <3>2. QED
      BY <2>1, <2>3, <3>1
  <2>4. QED
    BY <2>2, <2>3 DEF RefiledChild, Fresh
<1> DEFINE newSource == [s EXCEPT !.id = c, !.conn = c, !.up = TRUE, !.prim = n]
<1>3. /\ tabs' = {IF u.id = s.id THEN newSource
                  ELSE IF u.id = t.id THEN newFile ELSE u : u \in tabs}
      /\ lost' = lost \cup (HeldBy(WithId(t.id) \cup WithId(s.id)) \ {s.conn})
                      \cup (IF WithId(s.id) = {} THEN {c, n} ELSE {})
  BY <1>1, <1>2 DEF Refiled
<1>4. /\ s \in TabRecords /\ s.conn \notin conns \cup Terminals /\ ~s.file /\ s.parent = 0
      /\ \A x \in Panes(s) : x \in 1..made /\ x \notin conns \cup Terminals
  BY <1>1, RefilingKnows
<1>5. /\ CallConn(calls[i]) = {c} /\ OwnOf(calls[i]) = {c} /\ c \in 1..made
      /\ <<i, c>> \in Reservations
  BY <1>1, CallOpened, CallIsKnown DEF Reserving
<1>6. TabTypes /\ TabsFit /\ made \in Nat /\ f \in Nat /\ c \in Nat
  BY <1>5 DEF TabsInv, TabTypes
<1>7. newFile \in TabRecords
  <2>1. "ssh" \in Protocol
    BY DEF Protocol
  <2>2. QED
    BY <1>6, <2>1 DEF Tab, TabRecords
<1>8. /\ newFile.id = f /\ newFile.conn = f /\ newFile.parent = c
      /\ newFile.prim = 0 /\ newFile.extra = {}
  BY DEF Tab
<1>9. newFile.file
  BY DEF Tab
<1>10. newSource \in TabRecords
  BY <1>2, <1>4, <1>6 DEF TabRecords
<1>11. /\ newSource.id = c /\ newSource.conn = c /\ newSource.prim = n
       /\ newSource.extra = s.extra /\ newSource.parent = 0
  BY <1>4 DEF TabRecords
<1>12. ~newSource.file
  BY <1>4 DEF TabRecords
<1> HIDE DEF newSource, newFile
<1> DEFINE X == s.extra \ {0}
<1>13. Panes(newSource) \subseteq X \cup N /\ N \subseteq Panes(newSource) /\ TabClaims(newFile) = {}
  BY <1>2, <1>8, <1>11 DEF Panes, TabClaims
<1>14. X \in SUBSET (1..made) /\ X \cap (conns \cup Terminals) = {}
  BY <1>4 DEF Panes
<1>15. /\ \A j \in Calls : calls'[j] \in {calls[j], Idle}
       /\ \A r \in Reservations' : r \in Reservations /\ r[1] # i
       /\ Fathers' \subseteq Fathers
       /\ Own \subseteq Own' \cup {c}
  BY <1>1, <1>5, CallIsKnown, Slots, IdleKnowsNothing
<1>16. tabs' \subseteq tabs \cup {newSource, newFile}
  BY <1>3
<1>17. /\ Frames' \subseteq Frames \cup {Frame(newSource), Frame(newFile)}
       /\ Claims' \subseteq Claims \cup TabClaims(newSource)
  <2> DEFINE F == {Frame(newSource), Frame(newFile)}
             D == TabClaims(newSource)
  <2>1. \A u \in tabs' \cup away' \cup CallTabs(Idle) :
            Frame(u) \in Frames \cup F /\ TabClaims(u) \subseteq Claims \cup D
    <3>1. \A u \in tabs \cup away : Frame(u) \in Frames /\ TabClaims(u) \subseteq Claims
      BY KnownFacts DEF Known
    <3>2. QED
      BY <1>1, <1>13, <1>16, <3>1, IdleKnowsNothing
  <2>2. CallClaims(Idle) \subseteq Claims \cup D
    BY IdleKnowsNothing
  <2> HIDE DEF F, D
  <2>3. Frames' \subseteq Frames \cup F /\ Claims' \subseteq Claims \cup D
    BY <1>15, <2>1, <2>2, Views
  <2>4. QED
    BY <2>3 DEF F, D
<1>18. /\ made' \in Nat /\ made < made' /\ N \subseteq (made + 2)..made'
       /\ N \subseteq 1..made' /\ N \cap 1..made = {} /\ 1..made \subseteq 1..made'
  BY <1>2, <1>6
<1>19. \A k \in Claims' : \/ k \in Claims
                          \/ /\ k[1] \in 1..made' /\ k[1] \notin conns
                             /\ k[2] = newSource.conn /\ k[3] = newSource.conn
                             /\ \A p \in terms' : p[1] = k[1] => p[2] = newSource.conn
  <2>1. \A k \in TabClaims(newSource) :
            k[1] \in X \cup N /\ k[2] = newSource.conn /\ k[3] = newSource.conn
    BY <1>11, <1>13 DEF TabClaims
  <2>2. \A x \in X \cup N : x \in 1..made' /\ x \notin conns
    BY <1>6, <1>14, <1>18 DEF TabTypes
  <2>3. \A x \in X \cup N, p \in terms' : p[1] = x => p[2] = c
    BY <1>2, <1>6, <1>14, <1>18 DEF Terminals, TabTypes
  <2>4. QED
    BY <1>11, <1>17, <2>1, <2>2, <2>3
<1> HIDE DEF X
<1>20. TabsFit'
  <2>1. /\ <<i, newSource.conn>> \in Reservations /\ newSource.conn \in conns
        /\ newSource.id = newSource.conn /\ newSource.parent = 0
        /\ newFile.id = made + 1 /\ newFile.conn = made + 1 /\ newFile.parent = newSource.conn
    BY <1>1, <1>5, <1>8, <1>11
  <2>2. /\ Frames' \subseteq Frames \cup {Frame(newSource), Frame(newFile)}
        /\ conns' = conns /\ made' \in Nat /\ made < made'
    BY <1>1, <1>17, <1>18
  <2>3. (\A r \in Reservations' : r \in Reservations /\ r[1] # i) /\ Fathers' \subseteq Fathers
    BY <1>15
  <2>4. /\ TabTypes /\ TabsFit
        /\ \A p \in terms' : \/ p \in terms
                             \/ p[1] \in (made + 2)..made' /\ p[2] = newSource.conn
    BY <1>2, <1>6, <1>11, <1>18
  <2>5. \A p, q \in terms' : p[1] = q[1] => p = q
    <3>1. \A p \in terms' : (p \in terms /\ p[1] \in 1..made) \/ \E m \in N : p = <<m, c>>
      BY <1>2, <1>6 DEF TabTypes
    <3>2. QED
      BY <1>6, <1>18, <3>1 DEF TabsFit, BackendFits
  <2> HIDE DEF s, t, c, f
  <2>6. QED
    BY <1>7, <1>9, <1>10, <1>12, <1>19, <2>1, <2>2, <2>3, <2>4, <2>5, RefilingFits
<1>21. CallsFit'
  BY <1>1, <1>6, <1>15, IdleIsCall, CallsStayFit DEF TabsInv
<1>22. Apart(tabs')
  <2>1. \A u \in tabs : u.conn # c /\ u.id # c /\ u.conn # f /\ u.id # f
    BY <1>5, NobodyHas DEF Known
  <2>2. c # f
    BY <1>5, <1>6
  <2>3. QED
    BY <1>8, <1>11, <1>16, <2>1, <2>2 DEF TabsInv, Apart
<1>23. TabTypes'
  <2>1. terms' \subseteq (1..made') \X (1..made')
    BY <1>2, <1>5, <1>6, <1>18 DEF TabTypes
  <2>2. QED
    BY <1>1, <1>6, <1>7, <1>10, <1>16, <1>18, <2>1, IdleIsCall DEF TabTypes
<1>24. OwnedOrLost'
  <2>1. Terminals' \subseteq Terminals \cup N
    BY <1>2 DEF Terminals
  <2>2. {c} \cup N \subseteq HeldBy(tabs' \cup away') \cup lost'
    <3>1. CASE WithId(s.id) = {}
      BY <1>2, <1>3, <3>1
    <3>2. CASE WithId(s.id) # {}
      <4>1. newSource \in tabs'
        BY <1>3, <3>2 DEF WithId
      <4>2. QED
        BY <1>11, <1>13, <4>1, HeldByIs
    <3>3. QED
      BY <3>1, <3>2
  <2>3. ASSUME NEW x \in conns \cup Terminals, x \in HeldBy(tabs \cup away)
        PROVE  x \in HeldBy(tabs' \cup away') \cup lost'
    <3>1. PICK u \in tabs \cup away : x = u.conn \/ x \in Panes(u)
      BY <2>3, HeldByIs
    <3>2. CASE u \in tabs' \cup away'
      BY <3>1, <3>2, HeldByIs
    <3>3. CASE u \notin tabs' \cup away'
      <4>1. u \in WithId(t.id) \cup WithId(s.id)
        BY <1>1, <1>3, <3>1, <3>3 DEF WithId
      <4>2. x \in HeldBy(WithId(t.id) \cup WithId(s.id))
        BY <3>1, <4>1, HeldByIs
      <4>3. QED
        BY <1>3, <1>4, <4>2
    <3>4. QED
      BY <3>2, <3>3
  <2>4. lost \subseteq lost'
    BY <1>3
  <2>5. ASSUME NEW x \in conns \cup Terminals
        PROVE  x \in HeldBy(tabs' \cup away') \cup Own' \cup lost'
    <3>1. x \in HeldBy(tabs \cup away) \cup Own \cup lost
      BY DEF TabsInv, OwnedOrLost
    <3>2. QED
      BY <1>15, <2>2, <2>3, <2>4, <3>1
  <2>6. QED
    BY <1>1, <2>1, <2>2, <2>5 DEF OwnedOrLost
<1>25. QED
  BY <1>20, <1>21, <1>22, <1>23, <1>24 DEF TabsInv

\* Nothing that the invariant is about changes.
LEMMA NothingKeeps ==
    ASSUME TabsInv, UNCHANGED <<tabs, away, conns, terms, made, calls, lost>>
    PROVE  TabsInv'
<1>1. /\ \A t \in tabs' \cup away' \cup CallTabs(Idle) :
             Frame(t) \in Frames /\ TabClaims(t) \subseteq Claims
      /\ \A p \in terms' : p[2] \in conns'
  BY IdleKnowsNothing, KnownFacts DEF Known, TabsInv, TabsFit, BackendFits
<1>2. TabTypes' /\ made <= made' /\ Apart(tabs')
  BY DEF TabsInv, TabTypes
<1>3. QED
  BY <1>1, <1>2, SameSlots, IdleIsCall, IdleKnowsNothing, LessStays

\* Every step of the handlers, the other windows and the user.
LEMMA TabsStep ==
    ASSUME TabsInv, [TabsNext]_tabVars
    PROVE  TabsInv'
<1>1. ASSUME NEW i \in Calls, OpenStep(i)
      PROVE  TabsInv'
  <2>1. CASE (\E p \in Protocols : StartOpen(i, p)) \/ StartShell(i)
    BY <2>1, FreshStartsKeep DEF StartShell
  <2>2. CASE SignedIn(i) \/ Fails(i) \/ AttachFails(i)
    BY <2>2, GoesOnKeeps
  <2>3. CASE Opened(i) \/ OpenRefused(i) \/ Dropped(i)
    BY <2>3, OpenedKeeps, EndsKeep, DroppedKeeps
  <2>4. CASE FilesOpened(i) \/ Attached(i) \/ AttachedLater(i) \/ ShellOpened(i)
    BY <2>4, NewTabsKeep
  <2>5. QED
    BY <1>1, <2>1, <2>2, <2>3, <2>4 DEF OpenStep
<1>2. ASSUME NEW i \in Calls, TabStep(i)
      PROVE  TabsInv'
  <2>1. CASE \E t \in tabs : \/ StartReconnect(i, t) \/ StartClose(i, t) \/ StartDetach(i, t)
                             \/ StartFiles(i, t) \/ StartRefile(i, t)
    BY <2>1, TabStartsKeep, StartFilesKeeps, StartRefileKeeps
  <2>2. CASE OldClosed(i) \/ RefileClosed(i)
    BY <2>2, OldClosedKeeps
  <2>3. CASE AttachedAgain(i) \/ AttachedLaterAgain(i) \/ ShellOpenedAgain(i)
    BY <2>3, AgainTabsKeep
  <2>4. CASE Closed(i) \/ CloseFails(i) \/ Detached(i) \/ DetachFails(i) \/ ChildFails(i)
    BY <2>4, ClosedKeeps, CloseFailsKeeps, DetachedKeeps, EndsKeep
  <2>5. CASE ChildOpened(i) \/ RefiledRoot(i) \/ RefiledChild(i)
    BY <2>5, ChildOpenedKeeps, RefiledRootKeeps, RefiledChildKeeps
  <2>6. CASE (\E p \in Protocols : StartDelete(i, p)) \/ Deleted(i)
    BY <2>6, FreshStartsKeep, DeletedKeeps
  <2>7. QED
    BY <1>2, <2>1, <2>2, <2>3, <2>4, <2>5, <2>6 DEF TabStep
<1>3. ASSUME NEW i \in Calls, PaneStep(i)
      PROVE  TabsInv'
  BY <1>3, PaneStartsKeep, SplitAttachedKeeps, PaneClosedKeeps, X11AttachedKeeps,
     X11ReplacedKeeps, EndsKeep DEF PaneStep
<1>4. ASSUME NEW a \in away, (Restorable(a) /\ TakeBack(a)) \/ AwayCloses(a) \/ AwayFails(a)
      PROVE  TabsInv'
  BY <1>4, AwayKeeps
<1>5. CASE (\E t \in tabs : ShowFiles(t) \/ Switch(t)) \/ UNCHANGED tabVars
  BY <1>5, NothingKeeps DEF ShowFiles, Switch, tabVars
<1>6. QED
  BY <1>1, <1>2, <1>3, <1>4, <1>5 DEF TabsNext

\* A window starts with no tab and no handler.
LEMMA TabsStart ==
    ASSUME TabsInit
    PROVE  TabsInv
<1>1. Known = {} /\ Frames = {} /\ Claims = {} /\ Reservations = {} /\ Fathers = {}
  <2>1. \A j \in Calls : calls[j] = Idle
    BY DEF TabsInit
  <2>2. Known = {} /\ UNION {CallClaims(calls[j]) : j \in Calls} = {}
    BY <2>1, IdleKnowsNothing DEF TabsInit, Known
  <2>3. Reservations = {} /\ Fathers = {}
    BY <2>1, IdleKnowsNothing DEF Reservations, Fathers
  <2>4. QED
    BY <2>2, <2>3 DEF Frames, Claims
<1>2. TabsFit
  BY <1>1 DEF TabsInit, TabsFit, BackendFits, FramesFit, ReservedOnce, PanesFit
<1>3. TabTypes /\ CallsFit
  BY IdleIsCall DEF TabsInit, TabTypes, CallsFit
<1>4. Apart(tabs) /\ OwnedOrLost
  BY DEF TabsInit, Apart, OwnedOrLost, Terminals
<1>5. QED
  BY <1>2, <1>3, <1>4 DEF TabsInv

\* The invariant implies what must hold.
LEMMA TabsFitTogether ==
    ASSUME TabsInv
    PROVE  TabsSound
<1>1. OneTabPerSession
  BY DEF TabsInv, Apart, OneTabPerSession
<1>2. Own \subseteq UNION {Working(i) : i \in Calls}
  BY DEF Own, OwnOf, CallConn, CallTerm, Working
<1>3. OrphansAreDropped
  BY <1>2 DEF TabsInv, OwnedOrLost, Terminals, OrphansAreDropped
<1>4. QED
  BY <1>1, <1>3 DEF TabsSound

\* Whatever handlers of a window overlap, for any number of them and of tabs: no session has
\* two tabs, and a connection or terminal that is open is shown by a tab, or a handler works
\* on it, or one of the handlers that drop what they do not release has dropped it.
THEOREM TabsAreSound == TabsSpec => []TabsSound
<1>1. TabsInit => TabsInv
  BY TabsStart
<1>2. TabsInv /\ [TabsNext]_tabVars => TabsInv'
  BY TabsStep
<1>3. TabsInv => TabsSound
  BY TabsFitTogether
<1>4. QED
  BY <1>1, <1>2, <1>3, PTL DEF TabsSpec
===============================================================================
