---------------------------- MODULE WorkspaceProofs ----------------------------
(***************************************************************************)
(* What the windows of the application show, for any number of sessions,   *)
(* moves and events: that a session handed over between windows is shown   *)
(* once and somewhere, that the output of a terminal comes to its screen   *)
(* in order, once, and with a word about what is missing, that the         *)
(* terminals of a page share it, each with one place, and that the bar has *)
(* a tab for all that is open, in the user's order.                        *)
(***************************************************************************)
EXTENDS WindowHandover, TerminalOutput, SplitGrid, AppTabs, ListLemmas, FiniteSetTheorems,
        SequenceTheorems, TLAPS

(* Sessions between windows (WindowHandover).                              *)

Messages == [kind : {"request", "ok", "error"}, from : Windows, to : Windows, tab : Sessions]
TaskSteps == {"none", "looking", "creating", "aiming", "asked"}

HandoverTypeOK ==
    /\ shown \in [Windows -> SUBSET Sessions]
    /\ open \subseteq Windows /\ loading \subseteq open \cap Sessions
    /\ task \in [Windows -> [tab : Windows, seen : SUBSET Sessions, to : Windows,
                             step : TaskSteps]]
    /\ mail \subseteq Messages
    /\ live \subseteq Sessions /\ doubled \subseteq Sessions

\* Tabs and calls are of open windows, a call is about a tab it saw, and nobody makes
\* its own window or writes to itself.
WindowsInv ==
    /\ \A w \in Windows : shown[w] # {} => w \in open
    /\ \A w \in Windows : task[w].step # "none" =>
          w \in open /\ task[w].tab \in Sessions /\ task[w].tab \in task[w].seen
    /\ \A w \in Windows : task[w].step = "creating" => task[w].tab # w
    /\ \A m \in mail : m.from # m.to

\* A request of w, or an answer to one, about session s is on its way.
Writes(m, w) == \/ m.kind = "request" /\ m.from = w
                \/ m.kind # "request" /\ m.to = w
Awaits(w, s) == \E m \in mail : m.tab = s /\ Writes(m, w)

\* Who may end up as the one window that shows session s: a window that shows it for
\* good, a call that still looks for one, a window that loads it, a request or a
\* refusal on its way, or a window whose answer was lost.
Claim(s, k, x) ==
    \/ k = "tab" /\ x \in Windows /\ s \in shown[x] /\ ~Handing(x, s)
    \/ /\ k = "search" /\ x \in Windows /\ task[x].tab = s
       /\ task[x].step \in {"looking", "aiming"} /\ s \notin shown[x]
    \/ k = "load" /\ x = s /\ s \in loading
    \/ k = "mail" /\ x \in mail /\ x.tab = s /\ x.kind # "ok"
    \/ /\ k = "back" /\ x \in Windows /\ s \in shown[x] /\ task[x].tab = s
       /\ task[x].step = "asked" /\ ~Awaits(x, s)

OneClaim(s) == \A k, l, x, y : Claim(s, k, x) /\ Claim(s, l, y) => k = l /\ x = y

\* At most one claim on each session, the inductive strengthening of ShownOnce.
ClaimsInv == \A s \in Sessions \ doubled : OneClaim(s)
HandoverInv == HandoverTypeOK /\ WindowsInv /\ ClaimsInv /\ SomewhereShown

\* At the start only the main window is open.
LEMMA HandoverStarts == HandoverInit => HandoverInv
<1> SUFFICES ASSUME HandoverInit PROVE HandoverInv
  OBVIOUS
<1> USE HandoverAssumption DEF HandoverInit, Windows, Quiet
<1>1. HandoverTypeOK
  BY DEF HandoverTypeOK, TaskSteps
<1>2. WindowsInv
  BY DEF WindowsInv
<1>3. ClaimsInv
  BY DEF ClaimsInv, OneClaim, Claim
<1>4. SomewhereShown
  BY DEF SomewhereShown
<1>5. QED
  BY <1>1, <1>2, <1>3, <1>4 DEF HandoverInv

\* What the step of detachSessionTab is made of.
LEMMA LetGoFacts ==
    ASSUME HandoverTypeOK, WindowsInv, NEW w \in Windows, NEW by \in Windows, LetGo(w, by),
           task[w].step # "none"
    PROVE  /\ w \in open /\ task[w].tab \in Sessions /\ task' = [task EXCEPT ![w] = Quiet]
           /\ shown' = [shown EXCEPT ![w] = shown'[w]]
           /\ shown'[w] \subseteq task[w].seen \ {task[w].tab}
           /\ open' \subseteq open /\ open \ {w} \subseteq open'
           /\ loading' \subseteq loading /\ loading' \subseteq open'
           /\ shown'[w] # {} => w \in open'
           /\ doubled' \subseteq Sessions /\ doubled \subseteq doubled'
           /\ shown'[w] \ shown[w] \subseteq doubled'
           /\ dropped \subseteq dropped' /\ loading \ loading' \subseteq dropped'
           /\ loading \ {w} \subseteq loading'
           /\ shown[w] \ (shown'[w] \cup {task[w].tab}) \subseteq dropped'
           /\ task[w].tab \in shown[by] \cup dropped' \/ (by = task[w].tab /\ by \in loading)
<1> DEFINE s == task[w].tab
           seen == task[w].seen
           ends == w # Main /\ Cardinality(seen) <= 1
<1>1. /\ w \in open /\ s \in Sessions /\ s \in seen /\ seen \subseteq Sessions
      /\ shown[w] \subseteq Sessions /\ doubled \subseteq Sessions
      /\ loading \subseteq open
  BY DEF HandoverTypeOK, WindowsInv
<1>2. /\ shown' = [shown EXCEPT ![w] = IF ends THEN {} ELSE seen \ {s}]
      /\ open' = IF ends THEN open \ {w} ELSE open
      /\ loading' = IF ends THEN loading \ {w} ELSE loading
      /\ dropped' = dropped \cup (shown[w] \ seen) \cup (loading \ loading')
                       \cup (IF s \in shown[by] \/ (by = s /\ s \in loading) THEN {} ELSE {s})
      /\ doubled' = doubled \cup ((seen \ {s}) \ shown[w])
      /\ task' = [task EXCEPT ![w] = Quiet]
  BY DEF LetGo
<1>3. shown'[w] = IF ends THEN {} ELSE seen \ {s}
  BY <1>2 DEF HandoverTypeOK
<1>4. ends => seen = {s}
  <2> SUFFICES ASSUME ends PROVE seen = {s}
    OBVIOUS
  <2>1. IsFiniteSet(seen)
    BY <1>1, FS_Subset, HandoverAssumption
  <2>2. IsFiniteSet(seen \ {s}) /\ Cardinality(seen \ {s}) = Cardinality(seen) - 1
    BY <1>1, <2>1, FS_RemoveElement
  <2>3. Cardinality(seen) \in Nat /\ Cardinality(seen \ {s}) \in Nat
    BY <2>1, <2>2, FS_CardinalityType
  <2>4. Cardinality(seen \ {s}) = 0
    BY <2>2, <2>3
  <2>5. seen \ {s} = {}
    BY <2>2, <2>4, FS_EmptySet
  <2>6. QED
    BY <1>1, <2>5
<1> HIDE DEF s, seen, ends
<1>5. shown' = [shown EXCEPT ![w] = shown'[w]]
  BY <1>2, <1>3
<1>6. shown[w] \ (shown'[w] \cup {s}) \subseteq dropped'
  BY <1>2, <1>3, <1>4
<1>7. QED
  BY <1>1, <1>2, <1>3, <1>5, <1>6 DEF s, seen

\* Each step keeps the types and what ties tabs and calls to open windows.
LEMMA WindowsStep ==
    ASSUME HandoverTypeOK, WindowsInv, [HandoverNext]_handoverVars
    PROVE  HandoverTypeOK' /\ WindowsInv'
<1> USE HandoverAssumption DEF Windows, Quiet, TaskSteps, Messages
<1>1. ASSUME NEW w \in Windows, NEW by \in Windows, LetGo(w, by), task[w].step # "none",
             mail' \subseteq mail, live' = live
      PROVE  HandoverTypeOK' /\ WindowsInv'
  <2>1. /\ w \in open /\ task' = [task EXCEPT ![w] = Quiet]
        /\ shown' = [shown EXCEPT ![w] = shown'[w]]
        /\ shown'[w] \subseteq task[w].seen
        /\ open' \subseteq open /\ open \ {w} \subseteq open'
        /\ loading' \subseteq loading /\ loading' \subseteq open'
        /\ (shown'[w] # {} => w \in open') /\ doubled' \subseteq Sessions
    BY <1>1, LetGoFacts
  <2>2. HandoverTypeOK'
    <3>1. shown' \in [Windows -> SUBSET Sessions]
      BY <2>1 DEF HandoverTypeOK
    <3>2. task' \in [Windows -> [tab : Windows, seen : SUBSET Sessions, to : Windows,
                                step : TaskSteps]]
      BY <2>1 DEF HandoverTypeOK
    <3>3. QED
      BY <1>1, <2>1, <3>1, <3>2 DEF HandoverTypeOK
  <2>3. \A v \in Windows : shown'[v] # {} => v \in open'
    BY <1>1, <2>1, LetGoFacts DEF HandoverTypeOK, WindowsInv
  <2>4. \A v \in Windows : v # w => task'[v] = task[v]
    BY <2>1 DEF HandoverTypeOK
  <2>5. task'[w].step = "none"
    BY <2>1 DEF HandoverTypeOK
  <2>6. QED
    BY <1>1, <2>1, <2>2, <2>3, <2>4, <2>5 DEF WindowsInv
<1> USE DEF HandoverTypeOK, WindowsInv
<1>2. ASSUME NEW w \in Windows, NEW s \in Sessions, StartOpening(w, s) \/ StartMove(w, s)
      PROVE  HandoverTypeOK' /\ WindowsInv'
  BY <1>2 DEF StartOpening, StartMove, Begin
<1>3. ASSUME NEW w \in Windows, OpensItself(w) \/ WindowFails(w) \/ TimesOut(w)
      PROVE  HandoverTypeOK' /\ WindowsInv'
  BY <1>3 DEF OpensItself, WindowFails, TimesOut, End
<1>4. ASSUME NEW w \in Windows, FindsWindow(w) \/ WindowCreated(w)
      PROVE  HandoverTypeOK' /\ WindowsInv'
  BY <1>1, <1>4 DEF FindsWindow, WindowCreated
<1>5. ASSUME NEW w \in Windows, MakesWindow(w) PROVE HandoverTypeOK' /\ WindowsInv'
  BY <1>5 DEF MakesWindow
<1>6. ASSUME NEW w \in Windows, NEW t \in Windows, Request(w, t)
      PROVE  HandoverTypeOK' /\ WindowsInv'
  BY <1>6 DEF Request
<1>7. ASSUME NEW w \in Windows, NEW m \in mail, Moved(w, m)
      PROVE  HandoverTypeOK' /\ WindowsInv'
  BY <1>1, <1>7 DEF Moved, Answered
<1>8. ASSUME NEW w \in Windows, NEW m \in mail, Refused(w, m)
      PROVE  HandoverTypeOK' /\ WindowsInv'
  BY <1>8 DEF Refused, End
<1>9. ASSUME NEW w \in Windows, CloseWindow(w) PROVE HandoverTypeOK' /\ WindowsInv'
  BY <1>9 DEF CloseWindow
<1>10. ASSUME NEW s \in Sessions, Restores(s) \/ SessionEnds(s)
       PROVE  HandoverTypeOK' /\ WindowsInv'
  BY <1>10 DEF Restores, SessionEnds
<1>11. ASSUME NEW m \in mail, Attach(m) PROVE HandoverTypeOK' /\ WindowsInv'
  BY <1>11 DEF Attach
<1>12. ASSUME NEW m \in mail, Unheard(m) PROVE HandoverTypeOK' /\ WindowsInv'
  BY <1>12 DEF Unheard
<1>13. CASE UNCHANGED handoverVars
  BY <1>13 DEF handoverVars
<1>14. QED
  BY <1>2, <1>3, <1>4, <1>5, <1>6, <1>7, <1>8, <1>9, <1>10, <1>11, <1>12, <1>13
     DEF HandoverNext

\* The history of doubtful sessions only grows.
LEMMA DoubledGrows ==
    ASSUME [HandoverNext]_handoverVars PROVE doubled \subseteq doubled'
<1>1. ASSUME HandoverNext PROVE doubled \subseteq doubled'
  BY <1>1 DEF HandoverNext, StartOpening, StartMove, OpensItself, FindsWindow, MakesWindow,
              WindowCreated, WindowFails, Request, Moved, Refused, TimesOut, CloseWindow,
              Restores, SessionEnds, Attach, Unheard, LetGo
<1>2. QED
  BY <1>1 DEF handoverVars

\* A step adds no claim on s, or trades its claim k of x for the claim l of y.
NoNewClaim(s) == \A j, z : Claim(s, j, z)' => Claim(s, j, z)
Trades(s, k, x, l, y) ==
    /\ Claim(s, k, x)
    /\ \A j, z : Claim(s, j, z)' =>
         \/ j = l /\ z = y
         \/ Claim(s, j, z) /\ ~(j = k /\ z = x)

\* A session that is claimed once stays so.
LEMMA NoClaimAdded == ASSUME NEW s, OneClaim(s), NoNewClaim(s) PROVE OneClaim(s)'
  BY DEF OneClaim, NoNewClaim

\* A step that trades one claim for another leaves one claim.
LEMMA ClaimTraded ==
    ASSUME NEW s, OneClaim(s), NEW k, NEW x, NEW l, NEW y, Trades(s, k, x, l, y)
    PROVE  OneClaim(s)'
  BY DEF OneClaim, Trades

\* Each step adds no claim on a session, or trades the one there is for another.
LEMMA ClaimsStep ==
    ASSUME HandoverTypeOK, WindowsInv, ClaimsInv, [HandoverNext]_handoverVars
    PROVE  ClaimsInv'
<1> SUFFICES ASSUME NEW s \in Sessions, s \notin doubled' PROVE OneClaim(s)'
  BY WindowsStep DEF ClaimsInv, HandoverTypeOK
<1>1. OneClaim(s)
  BY DoubledGrows DEF ClaimsInv
<1> USE HandoverAssumption DEF Windows, Quiet, TaskSteps, HandoverTypeOK, Handing,
        Awaits, Writes
<1>2. ASSUME NEW w \in Windows, NEW by \in Windows, LetGo(w, by), task[w].step # "none",
             \/ mail' = mail
             \/ \E m \in mail : m.kind = "ok" /\ m.to = w /\ mail' = mail \ {m}
      PROVE  OneClaim(s)'
  <2>1. /\ task' = [task EXCEPT ![w] = Quiet] /\ task[w].tab \in Sessions
        /\ shown' = [shown EXCEPT ![w] = shown'[w]]
        /\ shown'[w] \subseteq task[w].seen \ {task[w].tab}
        /\ loading' \subseteq loading
        /\ doubled \subseteq doubled' /\ shown'[w] \ shown[w] \subseteq doubled'
    BY <1>2, LetGoFacts
  <2>2. NoNewClaim(s)
    <3> SUFFICES ASSUME NEW j, NEW z, Claim(s, j, z)' PROVE Claim(s, j, z)
      BY DEF NoNewClaim
    <3>1. \A v \in Windows : v # w => shown'[v] = shown[v] /\ task'[v] = task[v]
      BY <2>1
    <3>2. /\ task'[w].step = "none" /\ s \in shown'[w] => s \in shown[w] /\ s # task[w].tab
      BY <2>1
    <3>3. \A v \in Windows : v # w => (Awaits(v, s) => Awaits(v, s)')
      BY <1>2
    <3>4. QED
      BY <1>2, <2>1, <3>1, <3>2, <3>3 DEF Claim
  <2>3. QED
    BY <1>1, <2>1, <2>2, NoClaimAdded
<1>3. ASSUME NEW w \in Windows, NEW u \in Sessions, StartOpening(w, u) \/ StartMove(w, u)
      PROVE  OneClaim(s)'
  <2>1. NoNewClaim(s)
    BY <1>3 DEF StartOpening, StartMove, Begin, Claim, NoNewClaim
  <2>2. QED
    BY <1>1, <2>1, NoClaimAdded
<1>4. ASSUME NEW w \in Windows, OpensItself(w) \/ WindowFails(w) PROVE OneClaim(s)'
  <2>1. NoNewClaim(s)
    BY <1>4 DEF OpensItself, WindowFails, End, Claim, NoNewClaim
  <2>2. QED
    BY <1>1, <2>1, NoClaimAdded
<1>5. ASSUME NEW w \in Windows, TimesOut(w) PROVE OneClaim(s)'
  <2>1. CASE task[w].tab = s /\ s \in shown[w]
    <3>1. ~UnderWay(s) /\ doubled' = doubled
      BY <1>5, <2>1 DEF TimesOut
    <3>2. Claim(s, "back", w)
      BY <1>5, <2>1, <3>1 DEF TimesOut, UnderWay, Claim
    <3>3. /\ task'[w].step = "none" /\ \A x \in Windows : x # w => task'[x] = task[x]
          /\ UNCHANGED <<shown, loading, mail>>
      BY <1>5 DEF TimesOut, End
    <3>4. Trades(s, "back", w, "tab", w)
      BY <3>2, <3>3 DEF Claim, Trades
    <3>5. QED
      BY <1>1, <3>4, ClaimTraded
  <2>2. CASE ~(task[w].tab = s /\ s \in shown[w])
    <3>1. NoNewClaim(s)
      BY <1>5, <2>2 DEF TimesOut, End, Claim, NoNewClaim
    <3>2. QED
      BY <1>1, <3>1, NoClaimAdded
  <2>3. QED
    BY <2>1, <2>2
<1>6. ASSUME NEW w \in Windows, FindsWindow(w) \/ WindowCreated(w) PROVE OneClaim(s)'
  BY <1>2, <1>6 DEF FindsWindow, WindowCreated, WindowsInv
<1>7. ASSUME NEW w \in Windows, MakesWindow(w) PROVE OneClaim(s)'
  <2>1. CASE task[w].tab = s
    <3> DEFINE k == IF s \in shown[w] THEN "tab" ELSE "search"
    <3>1. Claim(s, k, w)
      BY <1>7, <2>1 DEF MakesWindow, Claim
    <3>2. Trades(s, k, w, "load", s)
      BY <1>7, <2>1, <3>1 DEF MakesWindow, Claim, Trades
    <3>3. QED
      BY <1>1, <3>2, ClaimTraded
  <2>2. CASE task[w].tab # s
    <3>1. NoNewClaim(s)
      BY <1>7, <2>2 DEF MakesWindow, Claim, NoNewClaim
    <3>2. QED
      BY <1>1, <3>1, NoClaimAdded
  <2>3. QED
    BY <2>1, <2>2
<1>8. ASSUME NEW w \in Windows, NEW t \in Windows, Request(w, t) PROVE OneClaim(s)'
  <2> DEFINE m == [kind |-> "request", from |-> w, to |-> t, tab |-> task[w].tab]
  <2>1. CASE task[w].tab = s
    <3> DEFINE k == IF s \in shown[w] THEN "tab" ELSE "search"
    <3>1. Claim(s, k, w)
      BY <1>8, <2>1 DEF Request, Claim
    <3>2. Trades(s, k, w, "mail", m)
      BY <1>8, <2>1, <3>1 DEF Request, Claim, Trades
    <3>3. QED
      BY <1>1, <3>2, ClaimTraded
  <2>2. CASE task[w].tab # s
    <3>1. NoNewClaim(s)
      BY <1>8, <2>2 DEF Request, Claim, NoNewClaim
    <3>2. QED
      BY <1>1, <3>1, NoClaimAdded
  <2>3. QED
    BY <2>1, <2>2
<1>9. ASSUME NEW w \in Windows, NEW m \in mail, Moved(w, m) PROVE OneClaim(s)'
  BY <1>2, <1>9 DEF Moved, Answered, Messages
<1>10. ASSUME NEW w \in Windows, NEW m \in mail, Refused(w, m) PROVE OneClaim(s)'
  <2>1. CASE task[w].tab = s
    <3>1. Claim(s, "mail", m)
      BY <1>10, <2>1 DEF Refused, Answered, Claim
    <3>2. Trades(s, "mail", m, "tab", w)
      BY <1>10, <2>1, <3>1 DEF Refused, Answered, End, Claim, Trades
    <3>3. QED
      BY <1>1, <3>2, ClaimTraded
  <2>2. CASE task[w].tab # s
    <3>1. NoNewClaim(s)
      BY <1>10, <2>2 DEF Refused, Answered, End, Claim, NoNewClaim
    <3>2. QED
      BY <1>1, <3>1, NoClaimAdded
  <2>3. QED
    BY <2>1, <2>2
<1>11. ASSUME NEW w \in Windows, CloseWindow(w) PROVE OneClaim(s)'
  <2>1. NoNewClaim(s)
    BY <1>11 DEF CloseWindow, Claim, NoNewClaim
  <2>2. QED
    BY <1>1, <2>1, NoClaimAdded
<1>12. ASSUME NEW u \in Sessions, Restores(u) PROVE OneClaim(s)'
  <2>1. CASE u = s
    <3> DEFINE l == IF Handing(s, s) THEN "back" ELSE "tab"
    <3>1. Claim(s, "load", s)
      BY <1>12, <2>1 DEF Restores, Claim
    <3>2. /\ s \notin loading' /\ UNCHANGED <<task, mail>>
          /\ \A x \in Windows : x # s => shown'[x] = shown[x]
      BY <1>12, <2>1 DEF Restores
    <3>3. Handing(s, s) => task[s].step = "asked"
      BY DEF WindowsInv
    <3>4. Trades(s, "load", s, l, s)
      <4>1. ASSUME NEW j, NEW z, Claim(s, j, z)', z = s
            PROVE  (j = l /\ z = s) \/ (Claim(s, j, z) /\ ~(j = "load" /\ z = s))
        <5>1. s \in Windows /\ Awaits(s, s)' = Awaits(s, s)
          BY <3>2
        <5>2. CASE Handing(s, s)
          BY <3>2, <3>3, <4>1, <5>1, <5>2 DEF Claim
        <5>3. CASE ~Handing(s, s)
          <6>1. s \notin shown[s]
            BY <1>1, <3>1, <5>1, <5>3 DEF Claim, OneClaim
          <6>2. QED
            BY <3>2, <4>1, <5>1, <5>3, <6>1 DEF Claim
        <5>4. QED
          BY <5>2, <5>3
      <4>2. ASSUME NEW j, NEW z, Claim(s, j, z)', z # s
            PROVE  Claim(s, j, z)
        BY <3>2, <4>2 DEF Claim
      <4>3. QED
        BY <3>1, <4>1, <4>2 DEF Trades
    <3>5. QED
      BY <1>1, <3>4, ClaimTraded
  <2>2. CASE /\ u # s /\ s \in shown[u] /\ task[u].tab = s
             /\ task[u].step \in {"looking", "aiming"}
    <3>1. Claim(s, "tab", u)
      BY <1>12, <2>2 DEF Restores, Claim
    <3>2. Trades(s, "tab", u, "search", u)
      BY <1>12, <2>2, <3>1 DEF Restores, Claim, Trades
    <3>3. QED
      BY <1>1, <3>2, ClaimTraded
  <2>3. CASE u # s /\ ~(/\ s \in shown[u] /\ task[u].tab = s
                       /\ task[u].step \in {"looking", "aiming"})
    <3>1. NoNewClaim(s)
      BY <1>12, <2>3 DEF Restores, Claim, NoNewClaim
    <3>2. QED
      BY <1>1, <3>1, NoClaimAdded
  <2>4. QED
    BY <2>1, <2>2, <2>3
<1>13. ASSUME NEW u \in Sessions, SessionEnds(u) PROVE OneClaim(s)'
  <2>1. NoNewClaim(s)
    BY <1>13 DEF SessionEnds, Claim, NoNewClaim
  <2>2. QED
    BY <1>1, <2>1, NoClaimAdded
<1>14. ASSUME NEW m \in mail, Attach(m) PROVE OneClaim(s)'
  <2>1. m \in Messages /\ m.from # m.to
    BY DEF WindowsInv
  <2>2. CASE m.tab = s
    <3> DEFINE l == IF s \notin live THEN "mail" ELSE IF Handing(m.to, s) THEN "back" ELSE "tab"
               y == IF s \notin live
                    THEN [kind |-> "error", from |-> m.to, to |-> m.from, tab |-> s] ELSE m.to
    <3>1. Claim(s, "mail", m)
      BY <1>14, <2>2 DEF Attach, Claim
    <3>2. \A x \in Windows : x # m.to => (Awaits(x, s) => Awaits(x, s)')
      <4> SUFFICES ASSUME NEW x \in Windows, x # m.to, NEW n \in mail,
                          n.tab = s, Writes(n, x)
                   PROVE  \E o \in mail' : o.tab = s /\ Writes(o, x)
        OBVIOUS
      <4> DEFINE answer == [kind |-> IF s \in live THEN "ok" ELSE "error",
                            from |-> m.to, to |-> m.from, tab |-> s]
      <4>1. mail' = (mail \ {m}) \cup {answer} /\ m.kind = "request"
        BY <1>14, <2>2 DEF Attach
      <4>2. CASE n = m
        <5>1. answer \in mail' /\ answer.tab = s /\ answer.kind # "request" /\ answer.to = x
          BY <4>1, <4>2
        <5>2. QED
          BY <5>1
      <4>3. CASE n # m
        BY <4>1, <4>3
      <4>4. QED
        BY <4>2, <4>3
    <3>3. Trades(s, "mail", m, l, y)
      BY <1>14, <2>1, <3>1, <2>2, <3>2 DEF Attach, Messages, Claim, Trades
    <3>4. QED
      BY <1>1, <3>3, ClaimTraded
  <2>3. CASE m.tab # s
    <3>1. NoNewClaim(s)
      BY <1>14, <2>1, <2>3 DEF Attach, Messages, Claim, NoNewClaim
    <3>2. QED
      BY <1>1, <3>1, NoClaimAdded
  <2>4. QED
    BY <2>2, <2>3
<1>15. ASSUME NEW m \in mail, Unheard(m) PROVE OneClaim(s)'
  <2>1. CASE m.tab = s /\ m.kind = "request"
    <3>1. Claim(s, "mail", m)
      BY <1>15, <2>1 DEF Claim
    <3>2. Trades(s, "mail", m, "back", m.from)
      BY <1>15, <2>1, <3>1 DEF Unheard, Claim, Trades
    <3>3. QED
      BY <1>1, <3>2, ClaimTraded
  <2>2. CASE ~(m.tab = s /\ m.kind = "request")
    <3>1. \A x \in Windows : task[x].tab = s /\ task[x].step = "asked"
                                => (Awaits(x, s) => Awaits(x, s)')
      BY <1>15, <2>2 DEF Unheard, Answered, WindowsInv
    <3>2. NoNewClaim(s)
      BY <1>15, <2>2, <3>1 DEF Unheard, Claim, NoNewClaim
    <3>3. QED
      BY <1>1, <3>2, NoClaimAdded
  <2>3. QED
    BY <2>1, <2>2
<1>16. CASE UNCHANGED handoverVars
  BY <1>1, <1>16, NoClaimAdded DEF handoverVars, Claim, NoNewClaim
<1>17. QED
  BY <1>3, <1>4, <1>5, <1>6, <1>7, <1>8, <1>9, <1>10, <1>11, <1>12, <1>13, <1>14, <1>15, <1>16
     DEF HandoverNext

\* Each step leaves a live session shown or being loaded, or records that it dropped it.
LEMMA SomewhereStep ==
    ASSUME HandoverTypeOK, WindowsInv, SomewhereShown, [HandoverNext]_handoverVars
    PROVE  SomewhereShown'
<1> SUFFICES ASSUME NEW s \in live' \ dropped'
             PROVE  s \in loading' \/ \E w \in open' : s \in shown'[w]
  BY DEF SomewhereShown
<1> USE HandoverAssumption DEF Windows, HandoverTypeOK, SomewhereShown
<1>1. ASSUME NEW w \in Windows, NEW by \in Windows \ {w}, LetGo(w, by), task[w].step # "none",
             live' = live
      PROVE  s \in loading' \/ \E v \in open' : s \in shown'[v]
  <2>1. /\ shown' = [shown EXCEPT ![w] = shown'[w]]
        /\ open \ {w} \subseteq open' /\ (shown'[w] # {} => w \in open')
        /\ dropped \subseteq dropped' /\ loading \ loading' \subseteq dropped'
        /\ loading \ {w} \subseteq loading'
        /\ shown[w] \ (shown'[w] \cup {task[w].tab}) \subseteq dropped'
        /\ task[w].tab \in shown[by] \cup dropped' \/ (by = task[w].tab /\ by \in loading)
    BY <1>1, LetGoFacts
  <2>2. s \in live \ dropped
    BY <1>1, <2>1
  <2>3. CASE s \in loading
    BY <2>1, <2>3
  <2>4. CASE s = task[w].tab
    <3>1. shown[by] # {} => by \in open
      BY DEF WindowsInv
    <3>2. QED
      BY <2>1, <2>4, <3>1
  <2>5. ASSUME NEW v \in open, s \in shown[v], s # task[w].tab
        PROVE  \E x \in open' : s \in shown'[x]
    <3>1. CASE v = w
      BY <2>1, <2>5, <3>1
    <3>2. CASE v # w
      BY <2>1, <2>5, <3>2
    <3>3. QED
      BY <3>1, <3>2
  <2>6. QED
    BY <2>2, <2>3, <2>4, <2>5
<1>2. ASSUME NEW w \in Windows, NEW m,
             FindsWindow(w) \/ WindowCreated(w) \/ (m \in mail /\ Moved(w, m))
      PROVE  s \in loading' \/ \E v \in open' : s \in shown'[v]
  <2>1. task[w].step # "none" /\ live' = live
    BY <1>2 DEF FindsWindow, WindowCreated, Moved, Answered
  <2>2. CASE FindsWindow(w)
    BY <1>1, <2>1, <2>2 DEF FindsWindow
  <2>3. CASE WindowCreated(w)
    <3>1. task[w].tab \in Windows \ {w}
      BY <2>3 DEF WindowCreated, WindowsInv
    <3>2. QED
      BY <1>1, <2>1, <2>3, <3>1 DEF WindowCreated
  <2>4. CASE m \in mail /\ Moved(w, m)
    <3>1. m.from \in Windows \ {w}
      BY <2>4 DEF Moved, Answered, WindowsInv, Messages
    <3>2. QED
      BY <1>1, <2>1, <2>4, <3>1 DEF Moved
  <2>5. QED
    BY <1>2, <2>2, <2>3, <2>4
<1>3. ASSUME NEW w \in Windows, NEW u,
             \/ StartOpening(w, u) \/ StartMove(w, u) \/ OpensItself(w) \/ WindowFails(w)
             \/ TimesOut(w) \/ MakesWindow(w) \/ SessionEnds(u)
      PROVE  s \in loading' \/ \E v \in open' : s \in shown'[v]
  BY <1>3 DEF StartOpening, StartMove, OpensItself, WindowFails, TimesOut, MakesWindow,
              SessionEnds
<1>4. ASSUME NEW m \in mail, NEW w \in Windows,
             Unheard(m) \/ Refused(w, m)
      PROVE  s \in loading' \/ \E v \in open' : s \in shown'[v]
  BY <1>4 DEF Unheard, Refused
<1>5. ASSUME NEW m \in mail, Attach(m)
      PROVE  s \in loading' \/ \E v \in open' : s \in shown'[v]
  BY <1>5 DEF Attach
<1>6. ASSUME NEW w \in Windows, CloseWindow(w)
      PROVE  s \in loading' \/ \E v \in open' : s \in shown'[v]
  BY <1>6 DEF CloseWindow
<1>7. ASSUME NEW u \in Sessions, Restores(u)
      PROVE  s \in loading' \/ \E v \in open' : s \in shown'[v]
  BY <1>7 DEF Restores
<1>8. ASSUME NEW w \in Windows, NEW t \in Windows, Request(w, t)
      PROVE  s \in loading' \/ \E v \in open' : s \in shown'[v]
  BY <1>8 DEF Request
<1>9. CASE UNCHANGED handoverVars
  BY <1>9 DEF handoverVars
<1>10. QED
  BY <1>2, <1>3, <1>4, <1>5, <1>6, <1>7, <1>8, <1>9 DEF HandoverNext

\* Every step of the windows keeps the invariant.
LEMMA HandoverStep == HandoverInv /\ [HandoverNext]_handoverVars => HandoverInv'
  BY WindowsStep, ClaimsStep, SomewhereStep DEF HandoverInv

\* A session that moves between windows, with requests, answers and timeouts in any
\* order, is shown once and never lost but where the code itself drops it.
THEOREM HandoverIsSound == HandoverSpec => []HandedOver
<1>1. HandoverInv => HandedOver
  <2> SUFFICES ASSUME HandoverInv PROVE ShownOnce
    BY DEF HandoverInv, HandedOver
  <2>1. ASSUME NEW s \in Sessions \ doubled, NEW v \in Windows, NEW w \in Windows,
               v # w, s \in shown[v] \cap shown[w], ~Handing(v, s), ~Handing(w, s)
        PROVE  FALSE
    <3>1. Claim(s, "tab", v) /\ Claim(s, "tab", w)
      BY <2>1 DEF Claim
    <3>2. QED
      BY <2>1, <3>1 DEF HandoverInv, ClaimsInv, OneClaim
  <2>2. QED
    BY <2>1 DEF ShownOnce
<1>2. QED
  BY <1>1, HandoverStarts, HandoverStep, PTL DEF HandoverSpec

-----------------------------------------------------------------------------
(* The output of a terminal (TerminalOutput).                              *)

\* Characters of the stream that has come to n, in the order they were sent.
Rising(s) == \A i, j \in DOMAIN s : i < j => s[i] < s[j]

\* The last characters of a stream that has come to n.
EndsAt(s, n) == \A i \in DOMAIN s : s[i] = n - Len(s) + i

\* The shorter one is the end of the longer one.
SameEnd(s, t) == \A i \in Nat : i < Len(s) /\ i < Len(t) => s[Len(s) - i] = t[Len(t) - i]

Precedes(S, T) == \A x \in S, y \in T : x < y

\* The characters of the writes, or of those that are no replay.
Texts(ws, onlyLive) ==
    {c \in Nat : \E i \in DOMAIN ws : (onlyLive => ws[i].live) /\ c \in ToSet(ws[i].text)}

\* The writes are each in order, and follow each other.
InLine(ws) ==
    /\ \A i \in DOMAIN ws : Rising(ws[i].text)
    /\ \A i, j \in DOMAIN ws : i < j => Precedes(ToSet(ws[i].text), ToSet(ws[j].text))

Write(S) == [live : BOOLEAN, text : Seq(S)]

\* The empty text.
LEMMA NoneIn == ToSet(<<>>) = {} /\ Rising(<<>>) /\ \A n : EndsAt(<<>>, n)
BY DEF ToSet, Rising, EndsAt

\* A text has no character that is not one of its set.
LEMMA TextIn ==
    ASSUME NEW S, NEW s \in Seq(S)
    PROVE  ToSet(s) \subseteq S
BY DEF ToSet

\* The text of one character.
LEMMA OneIn ==
    ASSUME NEW n \in Nat
    PROVE  /\ ToSet(<<n>>) = {n} /\ Rising(<<n>>) /\ EndsAt(<<n>>, n)
           /\ <<n>> # <<>> /\ \A S : n \in S => <<n>> \in Seq(S)
BY DEF ToSet, Rising, EndsAt

\* The newest k characters are a suffix.
LEMMA NewestIs ==
    ASSUME NEW S, NEW s \in Seq(S), NEW k \in Nat
    PROVE  /\ Newest(s, k) \in Seq(S)
           /\ Len(Newest(s, k)) = IF Len(s) > k THEN k ELSE Len(s)
           /\ \A i \in 1..Len(Newest(s, k)) : /\ Len(s) - Len(Newest(s, k)) + i \in DOMAIN s
                                              /\ Newest(s, k)[i] = s[Len(s) - Len(Newest(s, k)) + i]
<1> DEFINE m == IF Len(s) > k THEN Len(s) - k + 1 ELSE 1
<1>1. /\ Len(s) \in Nat /\ m \in 1..Len(s) + 1 /\ Newest(s, k) = SubSeq(s, m, Len(s))
      /\ Len(s) - m + 1 = IF Len(s) > k THEN k ELSE Len(s)
  BY DEF Newest
<1> HIDE DEF m
<1>2. \A i \in m..Len(s) : s[i] \in S
  BY <1>1
<1>3. /\ Newest(s, k) \in Seq(S)
      /\ Len(Newest(s, k)) = Len(s) - m + 1
      /\ \A i \in 1..Len(s) - m + 1 : Newest(s, k)[i] = s[m + i - 1]
  BY <1>1, <1>2, SubSeqProperties
<1>4. \A i \in 1..Len(Newest(s, k)) : /\ Len(s) - Len(Newest(s, k)) + i = m + i - 1
                                      /\ m + i - 1 \in 1..Len(s)
  BY <1>1, <1>3
<1> QED
  BY <1>1, <1>3, <1>4

\* They keep the order, and end where the text ends.
LEMMA NewestKeeps ==
    ASSUME NEW S \in SUBSET Nat, NEW s \in Seq(S), NEW k \in Nat
    PROVE  /\ ToSet(Newest(s, k)) \subseteq ToSet(s)
           /\ Rising(s) => Rising(Newest(s, k))
           /\ \A n \in Nat : EndsAt(s, n) => EndsAt(Newest(s, k), n)
           /\ s # <<>> /\ k > 0 => Newest(s, k) # <<>>
<1> DEFINE t == Newest(s, k)
<1>1. /\ t \in Seq(S) /\ Len(s) \in Nat /\ Len(t) \in Nat
      /\ Len(t) = IF Len(s) > k THEN k ELSE Len(s)
      /\ \A i \in 1..Len(t) : Len(s) - Len(t) + i \in DOMAIN s /\ t[i] = s[Len(s) - Len(t) + i]
      /\ DOMAIN t = 1..Len(t) /\ DOMAIN s = 1..Len(s)
  BY NewestIs
<1> HIDE DEF t
<1>2. ToSet(t) \subseteq ToSet(s)
  BY <1>1 DEF ToSet
<1>3. Rising(s) => Rising(t)
  <2> SUFFICES ASSUME Rising(s), NEW i \in DOMAIN t, NEW j \in DOMAIN t, i < j
               PROVE  t[i] < t[j]
    BY DEF Rising
  <2>1. Len(s) - Len(t) + i < Len(s) - Len(t) + j
    BY <1>1
  <2> QED
    BY <1>1, <2>1 DEF Rising
<1>4. ASSUME NEW n \in Nat, EndsAt(s, n), NEW i \in DOMAIN t
      PROVE  t[i] = n - Len(t) + i
  <2>1. t[i] = n - Len(s) + (Len(s) - Len(t) + i)
    BY <1>1, <1>4 DEF EndsAt
  <2> QED
    BY <1>1, <2>1
<1>5. s # <<>> /\ k > 0 => t # <<>>
  BY <1>1
<1> QED
  BY <1>2, <1>3, <1>4, <1>5 DEF t, EndsAt

\* Two texts in order, one after the other, are in order.
LEMMA Joined2 ==
    ASSUME NEW S \in SUBSET Nat, NEW s \in Seq(S), NEW t \in Seq(S)
    PROVE  /\ s \o t \in Seq(S)
           /\ ToSet(s \o t) = ToSet(s) \cup ToSet(t)
           /\ Rising(s) /\ Rising(t) /\ Precedes(ToSet(s), ToSet(t)) => Rising(s \o t)
           /\ t # <<>> => s \o t # <<>>
<1>1. /\ s \o t \in Seq(S) /\ Len(s \o t) = Len(s) + Len(t) /\ Len(s) \in Nat /\ Len(t) \in Nat
      /\ \A i \in 1..Len(s) : (s \o t)[i] = s[i]
      /\ \A i \in Len(s) + 1..Len(s) + Len(t) : (s \o t)[i] = t[i - Len(s)]
      /\ DOMAIN s = 1..Len(s) /\ DOMAIN t = 1..Len(t) /\ DOMAIN (s \o t) = 1..Len(s) + Len(t)
  BY ConcatProperties
<1>2. \A i \in DOMAIN (s \o t) :
        \/ i \in DOMAIN s /\ (s \o t)[i] = s[i]
        \/ i - Len(s) \in DOMAIN t /\ i > Len(s) /\ (s \o t)[i] = t[i - Len(s)]
  BY <1>1
<1>3. \A i \in DOMAIN t : i + Len(s) \in DOMAIN (s \o t) /\ (s \o t)[i + Len(s)] = t[i]
  BY <1>1
<1>4. \A i \in DOMAIN s : i \in DOMAIN (s \o t) /\ (s \o t)[i] = s[i]
  BY <1>1
<1>5. ToSet(s \o t) = ToSet(s) \cup ToSet(t)
  <2>1. ToSet(s \o t) \subseteq ToSet(s) \cup ToSet(t)
    BY <1>2 DEF ToSet
  <2>2. ToSet(s) \subseteq ToSet(s \o t)
    BY <1>4 DEF ToSet
  <2>3. ToSet(t) \subseteq ToSet(s \o t)
    BY <1>3 DEF ToSet
  <2> QED
    BY <2>1, <2>2, <2>3
<1>6. ASSUME Rising(s), Rising(t), Precedes(ToSet(s), ToSet(t)),
             NEW i \in DOMAIN (s \o t), NEW j \in DOMAIN (s \o t), i < j
      PROVE  (s \o t)[i] < (s \o t)[j]
  <2>1. CASE j \in DOMAIN s /\ (s \o t)[j] = s[j]
    <3>1. i \in DOMAIN s
      BY <1>1, <1>6, <2>1
    <3> QED
      BY <1>4, <1>6, <2>1, <3>1 DEF Rising
  <2>2. CASE j - Len(s) \in DOMAIN t /\ j > Len(s) /\ (s \o t)[j] = t[j - Len(s)]
    <3>1. CASE i \in DOMAIN s
      BY <1>4, <1>6, <2>2, <3>1 DEF Precedes, ToSet
    <3>2. CASE i \notin DOMAIN s
      <4>1. i - Len(s) \in DOMAIN t /\ (s \o t)[i] = t[i - Len(s)]
        BY <1>2, <3>2
      <4>2. i - Len(s) < j - Len(s)
        BY <1>1, <1>6
      <4> QED
        BY <1>6, <2>2, <4>1, <4>2 DEF Rising
    <3> QED
      BY <3>1, <3>2
  <2> QED
    BY <1>2, <2>1, <2>2
<1> QED
  BY <1>1, <1>5, <1>6 DEF Rising

\* One more character of the stream.
LEMMA OneMore ==
    ASSUME NEW n \in Nat, NEW s \in Seq(1..n), EndsAt(s, n), NEW k \in Nat
    PROVE  EndsAt(Newest(s \o <<n + 1>>, k), n + 1)
<1> DEFINE t == s \o <<n + 1>>
<1>1. s \in Seq(1..n + 1) /\ <<n + 1>> \in Seq(1..n + 1)
  BY SeqMonotonic
<1>2. /\ t \in Seq(1..n + 1) /\ Len(t) = Len(s) + 1 /\ Len(s) \in Nat
      /\ \A i \in 1..Len(s) : t[i] = s[i]
      /\ t[Len(s) + 1] = n + 1 /\ DOMAIN t = 1..Len(s) + 1 /\ DOMAIN s = 1..Len(s)
  BY <1>1
<1>3. EndsAt(t, n + 1)
  BY <1>2 DEF EndsAt
<1> HIDE DEF t
<1>4. 1..n + 1 \in SUBSET Nat /\ n + 1 \in Nat
  OBVIOUS
<1>5. EndsAt(Newest(t, k), n + 1)
  BY <1>2, <1>3, <1>4, NewestKeeps
<1> QED
  BY <1>5 DEF t

\* The newest of all that was sent end at the last one sent.
LEMMA WholeEnds ==
    ASSUME NEW n \in Nat, NEW k \in Nat
    PROVE  /\ Newest([i \in 1..n |-> i], k) \in Seq(1..n)
           /\ EndsAt(Newest([i \in 1..n |-> i], k), n)
           /\ Rising(Newest([i \in 1..n |-> i], k))
<1> DEFINE s == [i \in 1..n |-> i]
<1>1. s \in Seq(1..n) /\ Len(s) = n
  BY SeqDef
<1>2. EndsAt(s, n) /\ Rising(s)
  BY <1>1 DEF EndsAt, Rising
<1>3. 1..n \in SUBSET Nat
  OBVIOUS
<1> HIDE DEF s
<1>4. /\ Newest(s, k) \in Seq(1..n)
      /\ EndsAt(Newest(s, k), n)
      /\ Rising(Newest(s, k))
  BY <1>1, <1>2, <1>3, NewestKeeps, NewestIs
<1> QED
  BY <1>4 DEF s

\* A text that ends at the last character sent is in order.
LEMMA EndsAtIsRising ==
    ASSUME NEW n \in Nat, NEW s \in Seq(1..n), EndsAt(s, n)
    PROVE  Rising(s)
<1>1. Len(s) \in Nat /\ DOMAIN s = 1..Len(s)
  OBVIOUS
<1> QED
  BY <1>1 DEF EndsAt, Rising

\* Two such texts agree as far as the shorter one goes.
LEMMA EndsAgree ==
    ASSUME NEW n \in Nat, NEW s \in Seq(1..n), NEW t \in Seq(1..n), EndsAt(s, n), EndsAt(t, n)
    PROVE  SameEnd(s, t)
<1> SUFFICES ASSUME NEW i \in Nat, i < Len(s), i < Len(t)
             PROVE  s[Len(s) - i] = t[Len(t) - i]
  BY DEF SameEnd
<1>1. Len(s) \in Nat /\ Len(t) \in Nat /\ DOMAIN s = 1..Len(s) /\ DOMAIN t = 1..Len(t)
  OBVIOUS
<1>2. /\ Len(s) - i \in Nat /\ Len(s) - i \in DOMAIN s
      /\ Len(t) - i \in Nat /\ Len(t) - i \in DOMAIN t
  BY <1>1
<1>3. /\ s[Len(s) - i] = n - Len(s) + (Len(s) - i)
      /\ t[Len(t) - i] = n - Len(t) + (Len(t) - i)
  BY <1>2 DEF EndsAt
<1> QED
  BY <1>1, <1>3

\* What was appended is the end of what is kept.
LEMMA AppendedEnds ==
    ASSUME NEW S, NEW s \in Seq(S), NEW t \in Seq(S), NEW k \in Nat
    PROVE  SameEnd(t, Newest(s \o t, k))
<1> DEFINE u == s \o t
           v == Newest(u, k)
<1>1. /\ u \in Seq(S) /\ Len(u) = Len(s) + Len(t) /\ Len(s) \in Nat /\ Len(t) \in Nat
      /\ \A i \in Len(s) + 1..Len(s) + Len(t) : u[i] = t[i - Len(s)]
  BY ConcatProperties
<1> HIDE DEF u
<1>2. /\ v \in Seq(S) /\ Len(v) \in Nat /\ \A i \in 1..Len(v) : v[i] = u[Len(u) - Len(v) + i]
  BY <1>1, NewestIs
<1> HIDE DEF v
<1> SUFFICES ASSUME NEW i \in Nat, i < Len(t), i < Len(v)
             PROVE  t[Len(t) - i] = v[Len(v) - i]
  BY DEF SameEnd, u, v
<1>3. Len(v) - i \in 1..Len(v) /\ Len(u) - i \in Len(s) + 1..Len(s) + Len(t)
  BY <1>1, <1>2
<1>4. v[Len(v) - i] = u[Len(u) - Len(v) + (Len(v) - i)]
  BY <1>2, <1>3
<1>5. u[Len(u) - i] = t[(Len(u) - i) - Len(s)]
  BY <1>1, <1>3
<1>6. /\ Len(u) - Len(v) + (Len(v) - i) = Len(u) - i
      /\ (Len(u) - i) - Len(s) = Len(t) - i
  BY <1>1, <1>2
<1> QED
  BY <1>4, <1>5, <1>6

\* Of two sequences with one end, one is a suffix of the other.
LEMMA EndIsSuffix ==
    ASSUME NEW S, NEW s \in Seq(S), NEW t \in Seq(S), SameEnd(s, t), Len(s) <= Len(t)
    PROVE  IsSuffix(s, t)
<1> DEFINE p == Reverse(s)
           q == Reverse(t)
<1>1. /\ Len(s) \in Nat /\ Len(t) \in Nat
      /\ p \in Seq(S) /\ Len(p) = Len(s) /\ \A i \in 1..Len(s) : p[i] = s[Len(s) - i + 1]
  BY SeqDef DEF Reverse
<1>2. q \in Seq(S) /\ Len(q) = Len(t) /\ \A i \in 1..Len(t) : q[i] = t[Len(t) - i + 1]
  BY SeqDef DEF Reverse
<1> HIDE DEF p, q
<1>3. ASSUME NEW i \in 1..Len(s)
      PROVE  p[i] = q[i]
  <2>1. PICK k \in Nat : k = i - 1 /\ Len(s) - i + 1 = Len(s) - k /\ Len(t) - i + 1 = Len(t) - k
                         /\ k < Len(s) /\ k < Len(t)
    BY <1>1
  <2>2. s[Len(s) - k] = t[Len(t) - k]
    BY <2>1 DEF SameEnd
  <2> QED
    BY <1>1, <1>2, <2>1, <2>2
<1>4. SubSeq(p, 1, Len(p)) = SubSeq(q, 1, Len(p))
  BY <1>1, <1>2, <1>3
<1> QED
  BY <1>1, <1>2, <1>4 DEF IsSuffix, IsPrefix, p, q

\* What waits, with what has come, and what goes for want of room.
LEMMA BoundedIs ==
    ASSUME NEW S \in SUBSET Nat, NEW s \in Seq(S), NEW t \in Seq(S)
    PROVE  /\ Bounded(s, t) \in Seq(S) /\ Overflow(s, t) \in SUBSET S
           /\ ToSet(s) \cup ToSet(t) = ToSet(Bounded(s, t)) \cup Overflow(s, t)
           /\ Rising(s) /\ Rising(t) /\ Precedes(ToSet(s), ToSet(t)) => Rising(Bounded(s, t))
<1>1. Room \in Nat
  BY OutputAssumption
<1>2. s \o t \in Seq(S) /\ ToSet(s \o t) = ToSet(s) \cup ToSet(t)
  BY Joined2
<1>3. Bounded(s, t) \in Seq(S) /\ ToSet(Bounded(s, t)) \subseteq ToSet(s) \cup ToSet(t)
  BY <1>1, <1>2, NewestIs, NewestKeeps DEF Bounded
<1>4. ToSet(s) \subseteq S /\ ToSet(t) \subseteq S
  BY TextIn
<1>5. Overflow(s, t) = (ToSet(s) \cup ToSet(t)) \ ToSet(Bounded(s, t))
  BY <1>2 DEF Overflow
<1>6. Rising(s) /\ Rising(t) /\ Precedes(ToSet(s), ToSet(t)) => Rising(Bounded(s, t))
  BY <1>1, <1>2, Joined2, NewestKeeps DEF Bounded
<1> QED
  BY <1>3, <1>4, <1>5, <1>6

\* The characters of writes are those their texts are made of.
LEMMA TextsIn ==
    ASSUME NEW S \in SUBSET Nat, NEW ws \in Seq(Write(S)), NEW onlyLive \in BOOLEAN
    PROVE  Texts(ws, onlyLive) \subseteq S /\ Texts(ws, onlyLive) \subseteq Texts(ws, FALSE)
<1>1. \A i \in DOMAIN ws : ws[i] \in Write(S)
  OBVIOUS
<1>2. \A i \in DOMAIN ws : ToSet(ws[i].text) \subseteq S
  BY <1>1, TextIn DEF Write
<1> QED
  BY <1>2 DEF Texts

\* The shorter of two texts with the same end is a suffix of the longer.
LEMMA ShorterEnd ==
    ASSUME NEW S, NEW b \in Seq(S), NEW c \in Seq(S), NEW p \in Seq(S),
           SameEnd(c, b), Len(b) < Len(c)
    PROVE  IsSuffix(b, p \o c)
<1> DEFINE t == p \o c
<1>1. /\ t \in Seq(S) /\ Len(t) = Len(p) + Len(c)
      /\ Len(p) \in Nat /\ Len(c) \in Nat /\ Len(b) \in Nat
      /\ \A i \in Len(p) + 1..Len(p) + Len(c) : t[i] = c[i - Len(p)]
  BY ConcatProperties
<1> HIDE DEF t
<1>2. ASSUME NEW i \in Nat, i < Len(b), i < Len(t)
      PROVE  b[Len(b) - i] = t[Len(t) - i]
  <2>1. /\ Len(t) - i \in Len(p) + 1..Len(p) + Len(c)
        /\ (Len(t) - i) - Len(p) = Len(c) - i
        /\ i < Len(c)
    BY <1>1, <1>2
  <2>2. t[Len(t) - i] = c[Len(c) - i]
    BY <1>1, <2>1
  <2>3. c[Len(c) - i] = b[Len(b) - i]
    BY <1>2, <2>1 DEF SameEnd
  <2> QED
    BY <2>2, <2>3
<1>3. SameEnd(b, t)
  BY <1>2 DEF SameEnd
<1>4. Len(b) <= Len(t)
  BY <1>1
<1> QED
  BY <1>1, <1>3, <1>4, EndIsSuffix DEF t

\* Queueing a write adds its characters.
LEMMA WriteAdded ==
    ASSUME NEW S \in SUBSET Nat, NEW ws \in Seq(Write(S)), NEW w \in Write(S)
    PROVE  /\ Append(ws, w) \in Seq(Write(S))
           /\ Texts(Append(ws, w), FALSE) = Texts(ws, FALSE) \cup ToSet(w.text)
           /\ Texts(Append(ws, w), TRUE) \subseteq Texts(ws, TRUE) \cup ToSet(w.text)
           /\ ~w.live => Texts(Append(ws, w), TRUE) \subseteq Texts(ws, TRUE)
           /\ InLine(ws) /\ Rising(w.text) /\ Precedes(Texts(ws, FALSE), ToSet(w.text))
                => InLine(Append(ws, w))
           /\ w.live /\ (\A i \in DOMAIN ws : ws[i].live)
                => \A i \in DOMAIN Append(ws, w) : Append(ws, w)[i].live
<1> DEFINE v == Append(ws, w)
<1>1. /\ v \in Seq(Write(S)) /\ Len(v) = Len(ws) + 1 /\ Len(ws) \in Nat
      /\ DOMAIN ws = 1..Len(ws) /\ DOMAIN v = 1..Len(ws) + 1
      /\ \A i \in DOMAIN ws : v[i] = ws[i]
      /\ v[Len(ws) + 1] = w
  OBVIOUS
<1> HIDE DEF v
<1>2. Len(ws) \in Nat /\ DOMAIN ws = 1..Len(ws) /\ DOMAIN v = 1..Len(ws) + 1
  BY <1>1
<1>3. \A i \in DOMAIN v :
        \/ i \in DOMAIN ws /\ v[i] = ws[i]
        \/ i = Len(ws) + 1 /\ v[i] = w
  <2>1. \A i \in DOMAIN v : i \in DOMAIN ws \/ i = Len(ws) + 1
    BY <1>2
  <2> QED
    BY <1>1, <2>1
<1>4. \A i \in DOMAIN ws : i \in DOMAIN v
  <2>1. /\ DOMAIN ws = 1..Len(ws) /\ DOMAIN v = 1..Len(ws) + 1 /\ Len(ws) \in Nat
    BY <1>1
  <2>2. \A i \in 1..Len(ws) : i \in 1..Len(ws) + 1
    BY <2>1
  <2> QED
    BY <2>1, <2>2
<1>5. Len(ws) + 1 \in DOMAIN v
  BY <1>1
<1>6. w.text \in Seq(S) /\ \A i \in DOMAIN ws : ws[i].text \in Seq(S)
  <2>1. \A i \in DOMAIN ws : ws[i] \in Write(S)
    BY <1>1
  <2> QED
    BY <2>1 DEF Write
<1>7. ToSet(w.text) \subseteq Nat
  BY <1>6, TextIn
<1>8. Texts(v, FALSE) = Texts(ws, FALSE) \cup ToSet(w.text)
  <2>1. Texts(v, FALSE) \subseteq Texts(ws, FALSE) \cup ToSet(w.text)
    BY <1>3 DEF Texts
  <2>2. Texts(ws, FALSE) \subseteq Texts(v, FALSE)
    BY <1>1, <1>4 DEF Texts
  <2>3. ToSet(w.text) \subseteq Texts(v, FALSE)
    BY <1>1, <1>5, <1>7 DEF Texts
  <2> QED
    BY <2>1, <2>2, <2>3
<1>9. /\ Texts(v, TRUE) \subseteq Texts(ws, TRUE) \cup ToSet(w.text)
      /\ ~w.live => Texts(v, TRUE) \subseteq Texts(ws, TRUE)
  BY <1>3 DEF Texts
<1>10. ASSUME InLine(ws), Rising(w.text), Precedes(Texts(ws, FALSE), ToSet(w.text))
      PROVE  InLine(v)
  <2>1. \A i \in DOMAIN v : Rising(v[i].text)
    BY <1>3, <1>10 DEF InLine
  <2>2. ASSUME NEW i \in DOMAIN v, NEW j \in DOMAIN v, i < j
        PROVE  Precedes(ToSet(v[i].text), ToSet(v[j].text))
    <3>1. i \in DOMAIN ws /\ v[i] = ws[i]
      BY <1>1, <1>3, <2>2
    <3>2. CASE j \in DOMAIN ws /\ v[j] = ws[j]
      BY <1>10, <2>2, <3>1, <3>2 DEF InLine
    <3>3. CASE v[j] = w
      <4>1. ToSet(ws[i].text) \subseteq Nat
        BY <1>6, <3>1, TextIn
      <4>2. ToSet(ws[i].text) \subseteq Texts(ws, FALSE)
        BY <3>1, <4>1 DEF Texts
      <4> QED
        BY <1>10, <3>1, <3>3, <4>2 DEF Precedes
    <3> QED
      BY <1>3, <3>2, <3>3
  <2> QED
    BY <2>1, <2>2 DEF InLine
<1>11. w.live /\ (\A i \in DOMAIN ws : ws[i].live) => \A i \in DOMAIN v : v[i].live
  BY <1>3
<1> QED
  BY <1>1, <1>8, <1>9, <1>10, <1>11 DEF v

\* Taking the first write takes its characters.
LEMMA WriteTaken ==
    ASSUME NEW S \in SUBSET Nat, NEW ws \in Seq(Write(S)), ws # <<>>
    PROVE  /\ Head(ws) \in Write(S) /\ Tail(ws) \in Seq(Write(S))
           /\ Texts(ws, FALSE) = ToSet(Head(ws).text) \cup Texts(Tail(ws), FALSE)
           /\ Texts(Tail(ws), TRUE) \subseteq Texts(ws, TRUE)
           /\ Head(ws).live => ToSet(Head(ws).text) \subseteq Texts(ws, TRUE)
           /\ InLine(ws) => /\ InLine(Tail(ws)) /\ Rising(Head(ws).text)
                            /\ Precedes(ToSet(Head(ws).text), Texts(Tail(ws), FALSE))
           /\ (\A i \in DOMAIN ws : ws[i].live)
                => Head(ws).live /\ \A i \in DOMAIN Tail(ws) : Tail(ws)[i].live
           /\ (\A i \in 2..Len(ws) : ws[i].live) => \A i \in DOMAIN Tail(ws) : Tail(ws)[i].live
<1> DEFINE v == Tail(ws)
           w == Head(ws)
<1>1. /\ v \in Seq(Write(S)) /\ Len(v) = Len(ws) - 1 /\ Len(ws) \in Nat \ {0}
      /\ DOMAIN ws = 1..Len(ws) /\ DOMAIN v = 1..Len(ws) - 1
      /\ \A i \in 1..Len(v) : v[i] = ws[i + 1]
      /\ w = ws[1] /\ w \in Write(S)
  OBVIOUS
<1> HIDE DEF v, w
<1>2. \A i \in DOMAIN v : i + 1 \in DOMAIN ws /\ i + 1 \in 2..Len(ws) /\ v[i] = ws[i + 1] /\ 1 < i + 1
  BY <1>1
<1>3. \A j \in DOMAIN ws : j = 1 \/ \E i \in DOMAIN v : j = i + 1
  <2>1. \A j \in DOMAIN ws : j = 1 \/ (j - 1 \in DOMAIN v /\ j = (j - 1) + 1)
    BY <1>1
  <2> QED
    BY <2>1
<1>4. 1 \in DOMAIN ws
  BY <1>1
<1>5. \A i \in DOMAIN ws : ws[i].text \in Seq(S)
  <2>1. \A i \in DOMAIN ws : ws[i] \in Write(S)
    BY <1>1
  <2> QED
    BY <2>1 DEF Write
<1>6. \A i \in DOMAIN ws : ToSet(ws[i].text) \subseteq Nat
  BY <1>5, TextIn
<1>7. Texts(ws, FALSE) = ToSet(w.text) \cup Texts(v, FALSE)
  <2>1. Texts(ws, FALSE) \subseteq ToSet(w.text) \cup Texts(v, FALSE)
    BY <1>1, <1>2, <1>3 DEF Texts
  <2>2. Texts(v, FALSE) \subseteq Texts(ws, FALSE)
    BY <1>2 DEF Texts
  <2>3. ToSet(w.text) \subseteq Texts(ws, FALSE)
    BY <1>1, <1>4, <1>6 DEF Texts
  <2> QED
    BY <2>1, <2>2, <2>3
<1>8. Texts(v, TRUE) \subseteq Texts(ws, TRUE)
  BY <1>2 DEF Texts
<1>9. w.live => ToSet(w.text) \subseteq Texts(ws, TRUE)
  BY <1>1, <1>4, <1>6 DEF Texts
<1>10. ASSUME InLine(ws)
       PROVE  InLine(v) /\ Rising(w.text) /\ Precedes(ToSet(w.text), Texts(v, FALSE))
  <2>1. (\A i \in DOMAIN v : Rising(v[i].text)) /\ Rising(w.text)
    BY <1>1, <1>2, <1>4, <1>10 DEF InLine
  <2>2. ASSUME NEW i \in DOMAIN v, NEW j \in DOMAIN v, i < j
        PROVE  Precedes(ToSet(v[i].text), ToSet(v[j].text))
    <3>1. i + 1 < j + 1
      BY <1>1, <2>2
    <3> QED
      BY <1>2, <1>10, <3>1 DEF InLine
  <2>3. \A i \in DOMAIN v : Precedes(ToSet(w.text), ToSet(v[i].text))
    BY <1>1, <1>2, <1>4, <1>10 DEF InLine
  <2>4. Precedes(ToSet(w.text), Texts(v, FALSE))
    BY <2>3 DEF Texts, Precedes
  <2> QED
    BY <2>1, <2>2, <2>4 DEF InLine
<1>11. (\A i \in DOMAIN ws : ws[i].live) => w.live /\ \A i \in DOMAIN v : v[i].live
  BY <1>1, <1>2, <1>4
<1>12. (\A i \in 2..Len(ws) : ws[i].live) => \A i \in DOMAIN v : v[i].live
  BY <1>2
<1> QED
  BY <1>1, <1>7, <1>8, <1>9, <1>10, <1>11, <1>12 DEF v, w

\* An empty queue of writes has no characters.
LEMMA NoWrites ==
    /\ \A onlyLive \in BOOLEAN : Texts(<<>>, onlyLive) = {}
    /\ InLine(<<>>)
    /\ \A S : <<>> \in Seq(Write(S))
<1>1. DOMAIN <<>> = {}
  OBVIOUS
<1> QED
  BY <1>1 DEF Texts, InLine

\* The output that has come is a stream of characters that count up.
Sent == 1..stream.n
Dues == {"none", "timer", "frame"}
Statuses == {"none", "attached", "closed"}

OutputTypes ==
    /\ stream \in [n : Nat, up : BOOLEAN]
    /\ held \in [chunk : Seq(Sent), full : Seq(Sent), drop : SUBSET Sent, status : Statuses]
    /\ snap \in [shown : BOOLEAN, buf : Seq(Sent), chunk : Seq(Sent), drop : SUBSET Sent,
                 status : Statuses]
    /\ shot \in [on : BOOLEAN, text : Seq(Sent)]
    /\ pane \in [ready : BOOLEAN, prev : Seq(Sent), pending : Seq(Sent), drop : SUBSET Sent,
                 busy : BOOLEAN, due : Dues, replaying : BOOLEAN]
    /\ writes \in Seq(Write(Sent))
    /\ screen \in Seq(Sent) /\ replies \in Seq(Sent)
    /\ heldDue \in Dues /\ hidden \in BOOLEAN /\ fresh \in BOOLEAN /\ again \in BOOLEAN

PaneRefs == [ready : BOOLEAN, prev : Seq(Sent), pending : Seq(Sent), drop : SUBSET Sent,
          busy : BOOLEAN, due : Dues, replaying : BOOLEAN]

\* In a hidden window nothing waits for a frame.
Timed ==
    /\ WaitingIsScheduled
    /\ hidden => heldDue # "frame" /\ pane.due # "frame"

\* What is held is the end of the stream, and the chunk of the tab the end of its
\* preview, so that the pane takes every chunk for one.
ChunksFit ==
    /\ EndsAt(held.chunk, stream.n) /\ EndsAt(held.full, stream.n)
    /\ held.chunk = <<>> => held.drop = {}
    /\ snap.chunk = <<>> => snap.drop = {}
    /\ SameEnd(snap.chunk, snap.buf)
    /\ pane.ready \/ fresh \/ snap.status = "closed" => snap.shown
    /\ pane.ready => fresh \/ pane.prev = snap.buf
    /\ snap.shown => fresh \/ pane.ready
    /\ ~pane.ready => pane = Unmounted /\ writes = <<>> /\ screen = <<>>

\* What a render of the tab is still to take.
Unseen == IF fresh THEN ToSet(snap.chunk) \cup snap.drop ELSE {}

\* Every character has got somewhere.
Accounted ==
    pane.ready =>
      Sent \subseteq ToSet(screen) \cup Texts(writes, FALSE) \cup ToSet(pane.pending) \cup pane.drop
                \cup told \cup gone \cup ToSet(held.chunk) \cup held.drop \cup Unseen

\* The chunk that a render will take for the first time.
Coming == IF fresh /\ pane.ready /\ pane.prev # snap.buf THEN snap.chunk ELSE <<>>
Later == ToSet(Coming) \cup ToSet(held.chunk)

\* Each stage has its characters in order, and all of them before the next stage's.
InTurn ==
    ~again =>
      /\ Rising(screen) /\ Rising(pane.pending) /\ Rising(snap.chunk) /\ Rising(snap.buf)
      /\ Rising(shot.text)
      /\ InLine(writes)
      /\ Precedes(ToSet(screen), Texts(writes, FALSE) \cup ToSet(pane.pending) \cup Later)
      /\ Precedes(Texts(writes, FALSE), ToSet(pane.pending) \cup Later)
      /\ Precedes(ToSet(pane.pending), Later)
      /\ Precedes(ToSet(snap.buf), ToSet(held.chunk))
      /\ Precedes(ToSet(Coming), ToSet(held.chunk))

\* What was answered lies before all that is still to be parsed, but for replays, of
\* which xterm's answers are not passed on.
Replied ==
    ~again =>
      /\ Rising(replies)
      /\ Precedes(ToSet(replies), Texts(writes, TRUE) \cup ToSet(pane.pending) \cup Later)
      /\ pane.replaying \/ \A i \in DOMAIN writes : writes[i].live

OutputInv == OutputTypes /\ Timed /\ ChunksFit /\ Accounted /\ InTurn /\ Replied

\* The pane takes a snapshot for new output when it has a chunk.
LEMMA ChunkIsTaken ==
    ASSUME OutputTypes, ChunksFit
    PROVE  HasNewChunk <=> snap.chunk # <<>>
<1> SUFFICES ASSUME snap.chunk # <<>>
             PROVE  HasNewChunk
  BY DEF HasNewChunk
<1> DEFINE c == snap.chunk
           b == snap.buf
           t == pane.prev \o c
<1>1. c \in Seq(Sent) /\ b \in Seq(Sent) /\ pane.prev \in Seq(Sent) /\ SameEnd(c, b)
  BY DEF OutputTypes, ChunksFit
<1>2. Len(c) \in Nat /\ Len(b) \in Nat
  BY <1>1
<1>3. CASE Len(c) <= Len(b)
  BY <1>1, <1>3, EndIsSuffix DEF HasNewChunk
<1>4. CASE Len(b) < Len(c)
  BY <1>1, <1>4, ShorterEnd DEF HasNewChunk
<1> QED
  BY <1>2, <1>3, <1>4

\* The stream goes on, and what was of it still is.
LEMMA StreamGrows ==
    ASSUME OutputTypes, stream'.n = stream.n + 1
    PROVE  /\ Sent \subseteq Sent' /\ stream'.n \in Sent'
           /\ Sent' = Sent \cup {stream'.n} /\ \A x \in Sent : x < stream'.n /\ x \in Nat
           /\ Seq(Sent) \subseteq Seq(Sent') /\ Seq(Write(Sent)) \subseteq Seq(Write(Sent'))
<1>1. /\ stream.n \in Nat /\ Sent' = 1..stream.n + 1 /\ Sent = 1..stream.n
  BY DEF OutputTypes, Sent
<1>2. /\ Sent \subseteq Sent' /\ stream'.n \in Sent'
      /\ Sent' = Sent \cup {stream'.n} /\ \A x \in Sent : x < stream'.n /\ x \in Nat
  BY <1>1
<1>3. Seq(Sent) \subseteq Seq(Sent')
  BY <1>2, SeqMonotonic
<1>4. Write(Sent) \subseteq Write(Sent')
  BY <1>3 DEF Write
<1> QED
  BY <1>2, <1>3, <1>4, SeqMonotonic

\* What is held, with the character that has just been sent.
LEMMA HeldMerged ==
    ASSUME OutputTypes, ChunksFit, stream'.n = stream.n + 1,
           NEW full \in Seq(Sent'), EndsAt(full, stream'.n), NEW status \in Statuses
    PROVE  LET m == MergeHeld(<<stream.n + 1>>, full, status) IN
             /\ m \in [chunk : Seq(Sent'), full : Seq(Sent'), drop : SUBSET Sent', status : Statuses]
             /\ EndsAt(m.chunk, stream'.n) /\ EndsAt(m.full, stream'.n) /\ m.chunk # <<>>
             /\ ToSet(held.chunk) \cup {stream'.n} \subseteq ToSet(m.chunk) \cup m.drop
             /\ held.drop \subseteq m.drop
             /\ ToSet(m.chunk) \subseteq ToSet(held.chunk) \cup {stream'.n}
<1> DEFINE n == stream.n
           one == <<n + 1>>
           m == MergeHeld(one, full, status)
<1>1. /\ n \in Nat /\ stream'.n = n + 1 /\ Keep \in Nat /\ Room \in Nat /\ Room > 0
      /\ Sent = 1..n /\ Sent' = 1..n + 1 /\ Sent' \in SUBSET Nat
  BY OutputAssumption, SMTT(30) DEF OutputTypes, Sent
<1>2. /\ held.chunk \in Seq(Sent) /\ held.full \in Seq(Sent) /\ held.drop \in SUBSET Sent
      /\ EndsAt(held.chunk, n) /\ EndsAt(held.full, n)
  BY DEF OutputTypes, ChunksFit
<1>3. /\ one \in Seq(Sent') /\ one # <<>> /\ ToSet(one) = {n + 1}
      /\ held.chunk \in Seq(Sent') /\ held.full \in Seq(Sent') /\ held.drop \in SUBSET Sent'
  BY <1>1, <1>2, OneIn, StreamGrows
<1> HIDE DEF n, one
<1>4. /\ held.chunk \o one \in Seq(Sent') /\ held.chunk \o one # <<>>
      /\ ToSet(held.chunk \o one) = ToSet(held.chunk) \cup {n + 1}
      /\ held.full \o one \in Seq(Sent')
  <2>1. Sent' \in SUBSET Nat
    BY <1>1
  <2>2. /\ held.chunk \o one \in Seq(Sent') /\ held.chunk \o one # <<>>
        /\ ToSet(held.chunk \o one) = ToSet(held.chunk) \cup ToSet(one)
    BY <1>3, <2>1, Joined2
  <2>3. held.full \o one \in Seq(Sent')
    BY <1>3, <2>1, Joined2
  <2> QED
    BY <1>3, <2>2, <2>3
<1>5. /\ Bounded(held.chunk, one) \in Seq(Sent') /\ Bounded(held.chunk, one) # <<>>
      /\ ToSet(Bounded(held.chunk, one)) \subseteq ToSet(held.chunk) \cup {n + 1}
      /\ Overflow(held.chunk, one)
           = (ToSet(held.chunk) \cup {n + 1}) \ ToSet(Bounded(held.chunk, one))
  BY <1>1, <1>4, NewestIs, NewestKeeps DEF Bounded, Overflow
<1>6. Overflow(held.chunk, one) \in SUBSET Sent'
  <2>1. ToSet(held.chunk) \subseteq Sent' /\ n + 1 \in Sent'
    BY <1>1, <1>3, TextIn
  <2> QED
    BY <1>5, <2>1
<1>7. EndsAt(Bounded(held.chunk, one), n + 1)
  BY <1>1, <1>2, OneMore DEF Bounded, one
<1>8. /\ Newest(held.full \o one, Keep) \in Seq(Sent')
      /\ EndsAt(Newest(held.full \o one, Keep), n + 1)
  BY <1>1, <1>2, <1>4, OneMore, NewestIs DEF one
<1>9. /\ m.full \in Seq(Sent') /\ EndsAt(m.full, n + 1)
  <2>1. CASE full # <<>>
    BY <1>1, <2>1 DEF MergeHeld
  <2>2. CASE full = <<>> /\ held.full # <<>>
    BY <1>8, <2>2 DEF MergeHeld
  <2>3. CASE full = <<>> /\ held.full = <<>>
    BY <2>3, NoneIn DEF MergeHeld
  <2> QED
    BY <2>1, <2>2, <2>3
<1>10. /\ m.chunk = Bounded(held.chunk, one)
       /\ m.drop = held.drop \cup Overflow(held.chunk, one)
       /\ m.status = status
       /\ m = [chunk |-> m.chunk, full |-> m.full, drop |-> m.drop, status |-> m.status]
  BY DEF MergeHeld
<1> HIDE DEF m
<1>11. m \in [chunk : Seq(Sent'), full : Seq(Sent'), drop : SUBSET Sent', status : Statuses]
  <2>1. m.drop \in SUBSET Sent'
    BY <1>3, <1>6, <1>10
  <2> QED
    BY <1>5, <1>9, <1>10, <2>1
<1> QED
  BY <1>1, <1>5, <1>7, <1>9, <1>10, <1>11 DEF m, one, n

\* All that is on its way or shown was sent.
LEMMA StagesSent ==
    ASSUME OutputTypes, ChunksFit
    PROVE  /\ Sent \in SUBSET Nat
           /\ ToSet(screen) \subseteq Sent /\ ToSet(replies) \subseteq Sent
           /\ Texts(writes, FALSE) \subseteq Sent /\ Texts(writes, TRUE) \subseteq Sent
           /\ ToSet(pane.pending) \subseteq Sent /\ ToSet(held.chunk) \subseteq Sent
           /\ ToSet(snap.chunk) \subseteq Sent /\ ToSet(snap.buf) \subseteq Sent
           /\ Coming \in Seq(Sent) /\ ToSet(Coming) \subseteq Sent /\ Later \subseteq Sent
<1>1. Sent \in SUBSET Nat
  BY DEF OutputTypes, Sent
<1>2. /\ screen \in Seq(Sent) /\ replies \in Seq(Sent) /\ writes \in Seq(Write(Sent))
      /\ pane.pending \in Seq(Sent) /\ held.chunk \in Seq(Sent) /\ snap.chunk \in Seq(Sent)
      /\ snap.buf \in Seq(Sent)
  BY DEF OutputTypes
<1>3. Coming \in Seq(Sent)
  BY <1>2 DEF Coming
<1>4. Texts(writes, FALSE) \subseteq Sent /\ Texts(writes, TRUE) \subseteq Sent
  BY <1>1, <1>2, TextsIn
<1>5. /\ ToSet(screen) \subseteq Sent /\ ToSet(replies) \subseteq Sent
      /\ ToSet(pane.pending) \subseteq Sent /\ ToSet(held.chunk) \subseteq Sent
      /\ ToSet(snap.chunk) \subseteq Sent /\ ToSet(snap.buf) \subseteq Sent
      /\ ToSet(Coming) \subseteq Sent
  BY <1>2, <1>3, TextIn
<1> QED
  BY <1>1, <1>3, <1>4, <1>5 DEF Later

\* At the start nothing was sent.
LEMMA OutputBegins == OutputInit => OutputInv
<1> SUFFICES ASSUME OutputInit
             PROVE  OutputInv
  OBVIOUS
<1> USE DEF OutputInit, NothingHeld, NoShot, Unmounted
<1>1. Sent = 1..0 /\ stream.n = 0 /\ \A S : <<>> \in Seq(S)
  BY DEF Sent
<1>2. OutputTypes
  BY <1>1, NoWrites DEF OutputTypes, Dues, Statuses
<1>3. Timed
  BY DEF Timed, WaitingIsScheduled, Comes
<1>4. SameEnd(<<>>, <<>>)
  BY DEF SameEnd
<1>5. ChunksFit
  BY <1>4, NoneIn DEF ChunksFit
<1>6. Accounted
  BY DEF Accounted
<1>7. Coming = <<>> /\ Later = {}
  BY NoneIn DEF Coming, Later
<1>8. /\ ToSet(<<>>) = {} /\ Rising(<<>>) /\ InLine(<<>>)
      /\ Texts(<<>>, TRUE) = {} /\ Texts(<<>>, FALSE) = {}
  BY NoneIn, NoWrites
<1>a. DOMAIN <<>> = {} /\ Precedes({}, {})
  BY DEF Precedes
<1>9. InTurn
  BY <1>7, <1>8, <1>a DEF InTurn
<1>10. Replied
  BY <1>7, <1>8, <1>a DEF Replied
<1> QED
  BY <1>2, <1>3, <1>5, <1>6, <1>9, <1>10 DEF OutputInv

\* A character that comes while the pane listens keeps the invariant, wherever it is held.
LEMMA Heard ==
    ASSUME OutputInv, stream' \in [n : Nat, up : BOOLEAN], stream'.n = stream.n + 1,
           NEW full \in Seq(Sent'), EndsAt(full, stream'.n), NEW status \in Statuses,
           Hear(<<stream.n + 1>>, full, status),
           UNCHANGED <<snap, shot, fresh, pane, writes, screen, hidden, told, gone, again, replies>>
    PROVE  OutputInv'
<1> USE DEF OutputInv
<1>1. /\ Sent \subseteq Sent' /\ stream'.n \in Sent' /\ Sent' = Sent \cup {stream'.n}
      /\ \A x \in Sent : x < stream'.n /\ x \in Nat
      /\ Seq(Sent) \subseteq Seq(Sent') /\ Seq(Write(Sent)) \subseteq Seq(Write(Sent'))
  BY StreamGrows
<1>2. /\ held' \in [chunk : Seq(Sent'), full : Seq(Sent'), drop : SUBSET Sent', status : Statuses]
      /\ EndsAt(held'.chunk, stream'.n) /\ EndsAt(held'.full, stream'.n) /\ held'.chunk # <<>>
      /\ ToSet(held.chunk) \cup {stream'.n} \subseteq ToSet(held'.chunk) \cup held'.drop
      /\ held.drop \subseteq held'.drop
      /\ ToSet(held'.chunk) \subseteq ToSet(held.chunk) \cup {stream'.n}
  BY HeldMerged DEF Hear
<1>3. heldDue' = IF heldDue = "none" THEN Soon ELSE heldDue
  BY DEF Hear
<1>4. OutputTypes'
  <2>1. heldDue' \in Dues
    BY <1>3 DEF OutputTypes, Soon, Dues
  <2>2. /\ snap' \in [shown : BOOLEAN, buf : Seq(Sent'), chunk : Seq(Sent'), drop : SUBSET Sent',
                      status : Statuses]
        /\ shot' \in [on : BOOLEAN, text : Seq(Sent')]
    BY <1>1 DEF OutputTypes
  <2>3. pane' \in [ready : BOOLEAN, prev : Seq(Sent'), pending : Seq(Sent'), drop : SUBSET Sent',
                   busy : BOOLEAN, due : Dues, replaying : BOOLEAN]
    BY <1>1 DEF OutputTypes
  <2> QED
    BY <1>1, <1>2, <2>1, <2>2, <2>3 DEF OutputTypes
<1>5. Timed'
  BY <1>3 DEF OutputTypes, Dues, Timed, WaitingIsScheduled, Comes, Soon
<1>6. ChunksFit'
  BY <1>2 DEF ChunksFit, Unmounted
<1>7. Accounted'
  BY <1>1, <1>2, ZenonT(30) DEF Accounted, Unseen
<1>8. Coming' = Coming /\ Later' \subseteq Later \cup {stream'.n}
  BY <1>2 DEF Coming, Later
<1>9. /\ ToSet(screen) \subseteq Sent /\ ToSet(replies) \subseteq Sent
      /\ Texts(writes, FALSE) \subseteq Sent /\ Texts(writes, TRUE) \subseteq Sent
      /\ ToSet(pane.pending) \subseteq Sent /\ ToSet(snap.buf) \subseteq Sent
      /\ ToSet(Coming) \subseteq Sent
  BY StagesSent
<1>10. \A S, T, U : /\ S \subseteq Sent /\ Precedes(S, T)
                    /\ U \subseteq T \cup {stream'.n}
                    => Precedes(S, U)
  BY <1>1 DEF Precedes
<1>11. ~again => InTurn /\ Replied
  BY DEF OutputInv
<1> HIDE DEF OutputInv
<1>12. InTurn'
  <2> SUFFICES ASSUME ~again
               PROVE  InTurn'
    BY DEF InTurn
  <2>1. InTurn
    BY DEF OutputInv
  <2>2. Precedes(ToSet(screen), Texts(writes, FALSE) \cup ToSet(pane.pending) \cup Later')
    <3>1. Precedes(ToSet(screen), Texts(writes, FALSE) \cup ToSet(pane.pending) \cup Later)
      BY <2>1 DEF InTurn
    <3> QED
      BY <1>1, <1>8, <1>9, <3>1 DEF Precedes
  <2>3. Precedes(Texts(writes, FALSE), ToSet(pane.pending) \cup Later')
    <3>1. Precedes(Texts(writes, FALSE), ToSet(pane.pending) \cup Later)
      BY <2>1 DEF InTurn
    <3> QED
      BY <1>1, <1>8, <1>9, <3>1 DEF Precedes
  <2>4. Precedes(ToSet(pane.pending), Later')
    <3>1. Precedes(ToSet(pane.pending), Later)
      BY <2>1 DEF InTurn
    <3> QED
      BY <1>1, <1>8, <1>9, <3>1 DEF Precedes
  <2>5. Precedes(ToSet(snap.buf), ToSet(held'.chunk))
    <3>1. Precedes(ToSet(snap.buf), ToSet(held.chunk))
      BY <2>1 DEF InTurn
    <3> QED
      BY <1>2, <1>9, <1>10, <3>1
  <2>6. Precedes(ToSet(Coming), ToSet(held'.chunk))
    <3>1. Precedes(ToSet(Coming), ToSet(held.chunk))
      BY <2>1 DEF InTurn
    <3> QED
      BY <1>2, <1>9, <1>10, <3>1
  <2> QED
    BY <1>8, <2>1, <2>2, <2>3, <2>4, <2>5, <2>6 DEF InTurn
<1>13. Replied'
  <2>1. ~again => Precedes(ToSet(replies), Texts(writes, TRUE) \cup ToSet(pane.pending) \cup Later')
    <3> SUFFICES ASSUME ~again
                 PROVE  Precedes(ToSet(replies), Texts(writes, TRUE) \cup ToSet(pane.pending) \cup Later')
      OBVIOUS
    <3>1. Precedes(ToSet(replies), Texts(writes, TRUE) \cup ToSet(pane.pending) \cup Later)
      BY <1>11 DEF Replied
    <3> QED
      BY <1>1, <1>8, <1>9, <3>1 DEF Precedes
  <2> QED
    BY <2>1 DEF OutputInv, Replied
<1> QED
  BY <1>4, <1>5, <1>6, <1>7, <1>12, <1>13 DEF OutputInv

\* Output of the backend keeps the invariant.
LEMMA EmitKeeps == OutputInv /\ Emit => OutputInv'
<1> SUFFICES ASSUME OutputInv, Emit
             PROVE  OutputInv'
  OBVIOUS
<1>1. stream' \in [n : Nat, up : BOOLEAN] /\ stream'.n = stream.n + 1
  <2>1. /\ stream \in [n : Nat, up : BOOLEAN] /\ stream' = [stream EXCEPT !.n = @ + 1]
        /\ stream.n + 1 \in Nat
    BY DEF Emit, OutputInv, OutputTypes
  <2> QED
    BY <2>1
<1>2. <<>> \in Seq(Sent') /\ EndsAt(<<>>, stream'.n) /\ "attached" \in Statuses
  BY NoneIn DEF Statuses
<1> QED
  BY <1>1, <1>2, Heard DEF Emit

\* A lost connection keeps the invariant.
LEMMA DisconnectKeeps == OutputInv /\ Disconnect => OutputInv'
<1> SUFFICES ASSUME OutputInv, Disconnect
             PROVE  OutputInv'
  OBVIOUS
<1> DEFINE full == Newest([i \in 1..(stream.n + 1) |-> i], Keep)
<1>1. stream' \in [n : Nat, up : BOOLEAN] /\ stream'.n = stream.n + 1 /\ stream.n + 1 \in Nat
  BY DEF Disconnect, OutputInv, OutputTypes
<1>2. full \in Seq(1..(stream.n + 1)) /\ EndsAt(full, stream.n + 1)
  BY <1>1, WholeEnds, OutputAssumption
<1>3. full \in Seq(Sent') /\ EndsAt(full, stream'.n) /\ "closed" \in Statuses
  BY <1>1, <1>2 DEF Sent, Statuses
<1>4. Hear(<<stream.n + 1>>, full, "closed")
  BY DEF Disconnect
<1> HIDE DEF full
<1> QED
  BY <1>1, <1>3, <1>4, Heard DEF Disconnect

\* What is not newer than before keeps its turn.
LEMMA StagesNarrow ==
    ASSUME NEW S, NEW T, NEW S1, NEW T1, Precedes(S, T), S1 \subseteq S, T1 \subseteq T
    PROVE  Precedes(S1, T1)
BY DEF Precedes

\* The stages keep their order when less is to come, and none of them changes.
LEMMA TurnsKept ==
    ASSUME OutputInv, UNCHANGED <<pane, writes, screen, replies>>, again' = again, Later' \subseteq Later
    PROVE  /\ Replied'
           /\ ~again => /\ Rising(screen') /\ Rising(pane'.pending) /\ InLine(writes')
                        /\ Precedes(ToSet(screen'), Texts(writes', FALSE) \cup ToSet(pane'.pending) \cup Later')
                        /\ Precedes(Texts(writes', FALSE), ToSet(pane'.pending) \cup Later')
                        /\ Precedes(ToSet(pane'.pending), Later')
<1>1. CASE again
  BY <1>1 DEF Replied
<1>2. CASE ~again
  <2>1. /\ Rising(screen) /\ Rising(pane.pending) /\ InLine(writes)
        /\ Precedes(ToSet(screen), Texts(writes, FALSE) \cup ToSet(pane.pending) \cup Later)
        /\ Precedes(Texts(writes, FALSE), ToSet(pane.pending) \cup Later)
        /\ Precedes(ToSet(pane.pending), Later)
    BY <1>2 DEF OutputInv, InTurn
  <2>2. /\ Rising(replies)
        /\ Precedes(ToSet(replies), Texts(writes, TRUE) \cup ToSet(pane.pending) \cup Later)
        /\ pane.replaying \/ \A i \in DOMAIN writes : writes[i].live
    BY <1>2 DEF OutputInv, Replied
  <2>3. Precedes(ToSet(replies), Texts(writes, TRUE) \cup ToSet(pane.pending) \cup Later')
    BY <2>2 DEF Precedes
  <2>4. /\ Precedes(ToSet(screen), Texts(writes, FALSE) \cup ToSet(pane.pending) \cup Later')
        /\ Precedes(Texts(writes, FALSE), ToSet(pane.pending) \cup Later')
        /\ Precedes(ToSet(pane.pending), Later')
    BY <2>1 DEF Precedes
  <2>5. Replied'
    BY <2>2, <2>3 DEF Replied
  <2> QED
    BY <2>1, <2>4, <2>5
<1> QED
  BY <1>1, <1>2

\* The timer that hands batches on keeps the invariant.
LEMMA FlushSnapshotsKeeps == OutputInv /\ FlushSnapshots => OutputInv'
<1> SUFFICES ASSUME OutputInv, FlushSnapshots
             PROVE  OutputInv'
  OBVIOUS
<1>1. /\ held' = NothingHeld /\ heldDue' = "none"
      /\ UNCHANGED <<stream, shot, pane, writes, screen, hidden, again, told, replies>>
      /\ held'.chunk = <<>> /\ held'.full = <<>> /\ held'.drop = {} /\ ToSet(held'.chunk) = {}
  BY NoneIn DEF FlushSnapshots, NothingHeld
<1>2. Sent' = Sent /\ <<>> \in Seq(Sent) /\ Keep \in Nat /\ stream.n \in Nat /\ Sent = 1..stream.n
      /\ Sent \in SUBSET Nat
  BY <1>1, OutputAssumption DEF Sent, OutputInv, OutputTypes
<1>3. held' \in [chunk : Seq(Sent), full : Seq(Sent), drop : SUBSET Sent, status : Statuses]
  BY <1>1, <1>2 DEF NothingHeld, Statuses
<1>4. /\ held.chunk \in Seq(Sent) /\ held.full \in Seq(Sent) /\ held.drop \in SUBSET Sent
      /\ held.status \in Statuses /\ snap.buf \in Seq(Sent)
  BY DEF OutputInv, OutputTypes
<1>5. CASE ~snap.shown
  <2>1. UNCHANGED <<snap, fresh>> /\ gone' = gone \cup ToSet(held.chunk) \cup held.drop
    BY <1>5 DEF FlushSnapshots
  <2>2. OutputTypes'
    BY <1>1, <1>2, <1>3, <2>1 DEF OutputInv, OutputTypes, Dues
  <2>3. Timed'
    BY <1>1 DEF OutputInv, Timed, WaitingIsScheduled, Comes
  <2>4. ChunksFit'
    BY <1>1, <1>2, <2>1, NoneIn DEF OutputInv, ChunksFit, Unmounted
  <2>5. Accounted'
    BY <1>1, <1>2, <1>5, <2>1 DEF OutputInv, Accounted, ChunksFit
  <2>6. Coming = <<>> /\ Coming' = <<>> /\ Later' = {}
    BY <1>1, <1>5, <2>1, NoneIn DEF OutputInv, ChunksFit, Coming, Later
  <2>7. /\ Precedes(ToSet(snap'.buf), ToSet(held'.chunk))
        /\ Precedes(ToSet(Coming'), ToSet(held'.chunk))
    BY <1>1 DEF Precedes
  <2>8. InTurn' /\ Replied'
    <3>1. Later' \subseteq Later
      BY <2>6
    <3>2. ~again => Rising(snap.chunk) /\ Rising(snap.buf) /\ Rising(shot.text)
      BY DEF OutputInv, InTurn
    <3> QED
      BY <1>1, <2>1, <2>7, <3>1, <3>2, TurnsKept DEF InTurn
  <2> QED
    BY <2>2, <2>3, <2>4, <2>5, <2>8 DEF OutputInv
<1>6. CASE snap.shown
  <2>1. /\ fresh' = TRUE /\ gone' = gone \cup Unrendered
        /\ snap' = MergeSnapshot
        /\ snap'.shown /\ snap'.chunk = held.chunk /\ snap'.drop = held.drop
        /\ snap'.buf = Newest(IF held.full # <<>> THEN held.full ELSE snap.buf \o held.chunk, Keep)
    BY <1>6 DEF FlushSnapshots, MergeSnapshot
  <2>2. /\ snap'.buf \in Seq(Sent)
        /\ SameEnd(held.chunk, snap'.buf)
        /\ ~again => Rising(snap'.buf) /\ Rising(held.chunk)
    <3>1. EndsAt(held.chunk, stream.n) /\ EndsAt(held.full, stream.n)
      BY DEF OutputInv, ChunksFit
    <3>2. Rising(held.chunk)
      BY <1>2, <1>4, <3>1, EndsAtIsRising
    <3>3. CASE held.full # <<>>
      <4>1. snap'.buf = Newest(held.full, Keep)
        BY <2>1, <3>3
      <4>2. snap'.buf \in Seq(Sent) /\ EndsAt(snap'.buf, stream.n)
        <5>1. \A n \in Nat : EndsAt(held.full, n) => EndsAt(Newest(held.full, Keep), n)
          BY <1>2, <1>4, NewestKeeps
        <5>2. Newest(held.full, Keep) \in Seq(Sent)
          BY <1>2, <1>4, NewestIs
        <5> QED
          BY <1>2, <3>1, <4>1, <5>1, <5>2
      <4>3. SameEnd(held.chunk, snap'.buf) /\ Rising(snap'.buf)
        BY <1>2, <1>4, <3>1, <4>2, EndsAgree, EndsAtIsRising
      <4> QED
        BY <3>2, <4>2, <4>3
    <3>4. CASE held.full = <<>>
      <4>1. snap'.buf = Newest(snap.buf \o held.chunk, Keep)
        BY <2>1, <3>4
      <4>2. snap.buf \o held.chunk \in Seq(Sent)
        BY <1>4
      <4>3. snap'.buf \in Seq(Sent) /\ SameEnd(held.chunk, snap'.buf)
        <5>1. Newest(snap.buf \o held.chunk, Keep) \in Seq(Sent)
          BY <1>2, <4>2, NewestIs
        <5>2. SameEnd(held.chunk, Newest(snap.buf \o held.chunk, Keep))
          BY <1>2, <1>4, AppendedEnds
        <5> QED
          BY <4>1, <5>1, <5>2
      <4>4. ~again => Rising(snap.buf) /\ Precedes(ToSet(snap.buf), ToSet(held.chunk))
        BY DEF OutputInv, InTurn
      <4>5. ~again => Rising(snap.buf \o held.chunk)
        BY <1>2, <1>4, <3>2, <4>4, Joined2
      <4> QED
        BY <1>2, <3>2, <4>1, <4>2, <4>3, <4>5, NewestKeeps
    <3> QED
      BY <3>3, <3>4
  <2>3. OutputTypes'
    <3>1. snap' \in [shown : BOOLEAN, buf : Seq(Sent), chunk : Seq(Sent), drop : SUBSET Sent,
                     status : Statuses]
      BY <1>4, <2>1, <2>2 DEF MergeSnapshot
    <3> QED
      BY <1>1, <1>2, <1>3, <2>1, <3>1 DEF OutputInv, OutputTypes, Dues
  <2>4. Timed'
    BY <1>1 DEF OutputInv, Timed, WaitingIsScheduled, Comes
  <2>5. ChunksFit'
    BY <1>1, <1>2, <2>1, <2>2, NoneIn DEF OutputInv, ChunksFit, Unmounted
  <2>6. Accounted'
    BY <1>1, <1>2, <2>1 DEF OutputInv, Accounted, Unseen, Unrendered
  <2>7. ToSet(Coming') \subseteq ToSet(held.chunk) /\ Later' \subseteq Later
    BY <1>1, <2>1, NoneIn DEF Coming, Later
  <2>8. /\ Precedes(ToSet(snap'.buf), ToSet(held'.chunk))
        /\ Precedes(ToSet(Coming'), ToSet(held'.chunk))
    BY <1>1 DEF Precedes
  <2>9. InTurn' /\ Replied'
    <3>1. ~again => Rising(snap'.chunk) /\ Rising(snap'.buf) /\ Rising(shot'.text)
      BY <1>1, <2>1, <2>2 DEF OutputInv, InTurn
    <3> QED
      BY <1>1, <2>7, <2>8, <3>1, TurnsKept DEF InTurn
  <2> QED
    BY <2>3, <2>4, <2>5, <2>6, <2>9 DEF OutputInv
<1> QED
  BY <1>5, <1>6

\* Hiding and showing the pane keeps the invariant.
LEMMA VisibilityChangeKeeps == OutputInv /\ VisibilityChange => OutputInv'
<1> SUFFICES ASSUME OutputInv, VisibilityChange
             PROVE  OutputInv'
  OBVIOUS
<1>1. /\ hidden' = ~hidden
      /\ heldDue' = IF ~hidden /\ heldDue = "frame" THEN "timer" ELSE heldDue
      /\ UNCHANGED <<stream, held, snap, shot, fresh, writes, screen, told, gone, again, replies>>
      /\ pane' = IF ~hidden /\ pane.due = "frame"
                 THEN [pane EXCEPT !.due = IF pane.pending = <<>> THEN "none" ELSE "timer"]
                 ELSE pane
  BY DEF VisibilityChange
<1>2. /\ pane \in [ready : BOOLEAN, prev : Seq(Sent), pending : Seq(Sent), drop : SUBSET Sent,
                   busy : BOOLEAN, due : Dues, replaying : BOOLEAN]
      /\ heldDue \in Dues /\ hidden \in BOOLEAN
  BY DEF OutputInv, OutputTypes
<1>3. /\ pane'.ready = pane.ready /\ pane'.prev = pane.prev /\ pane'.pending = pane.pending
      /\ pane'.drop = pane.drop /\ pane'.busy = pane.busy /\ pane'.replaying = pane.replaying
      /\ pane'.due = IF ~hidden /\ pane.due = "frame"
                     THEN IF pane.pending = <<>> THEN "none" ELSE "timer" ELSE pane.due
      /\ pane' \in [ready : BOOLEAN, prev : Seq(Sent), pending : Seq(Sent), drop : SUBSET Sent,
                   busy : BOOLEAN, due : Dues, replaying : BOOLEAN]
  BY <1>1, <1>2 DEF Dues
<1>4. Sent' = Sent
  BY <1>1 DEF Sent
<1>5. OutputTypes'
  BY <1>1, <1>2, <1>3, <1>4 DEF OutputInv, OutputTypes, Dues
<1>6. Timed'
  BY <1>1, <1>2, <1>3 DEF OutputInv, Timed, WaitingIsScheduled, Comes, Dues
<1>7. ~pane.ready => pane' = pane
  BY <1>1 DEF OutputInv, ChunksFit, Unmounted
<1>8. ChunksFit'
  BY <1>1, <1>3, <1>7 DEF OutputInv, ChunksFit, Unmounted
<1>9. Accounted'
  BY <1>1, <1>3, <1>4 DEF OutputInv, Accounted, Unseen
<1>10. Coming' = Coming /\ Later' = Later
  BY <1>1, <1>3 DEF Coming, Later
<1>11. InTurn' /\ Replied'
  BY <1>1, <1>3, <1>10 DEF OutputInv, InTurn, Replied
<1> QED
  BY <1>5, <1>6, <1>8, <1>9, <1>11 DEF OutputInv

\* A change of status keeps the invariant.
LEMMA StatusChangeKeeps == OutputInv /\ StatusChange => OutputInv'
<1> SUFFICES ASSUME OutputInv, StatusChange
             PROVE  OutputInv'
  OBVIOUS
<1>1. /\ snap.status = "closed" /\ fresh' = TRUE
      /\ snap' = [snap EXCEPT !.status = "attached"]
      /\ stream' \in {stream, [stream EXCEPT !.up = TRUE]}
      /\ UNCHANGED <<held, heldDue, shot, pane, writes, screen, hidden, told, gone, again, replies>>
  BY DEF StatusChange
<1>2. /\ snap \in [shown : BOOLEAN, buf : Seq(Sent), chunk : Seq(Sent), drop : SUBSET Sent,
                   status : Statuses]
      /\ stream \in [n : Nat, up : BOOLEAN] /\ "attached" \in Statuses
  BY DEF OutputInv, OutputTypes, Statuses
<1>3. /\ snap'.shown = snap.shown /\ snap'.buf = snap.buf /\ snap'.chunk = snap.chunk
      /\ snap'.drop = snap.drop /\ snap'.status = "attached"
      /\ snap' \in [shown : BOOLEAN, buf : Seq(Sent), chunk : Seq(Sent), drop : SUBSET Sent,
                    status : Statuses]
      /\ stream' \in [n : Nat, up : BOOLEAN] /\ stream'.n = stream.n
  BY <1>1, <1>2
<1>4. Sent' = Sent
  BY <1>3 DEF Sent
<1>5. OutputTypes'
  BY <1>1, <1>3, <1>4 DEF OutputInv, OutputTypes
<1>6. Timed'
  BY <1>1 DEF OutputInv, Timed, WaitingIsScheduled, Comes
<1>7. ChunksFit'
  BY <1>1, <1>3 DEF OutputInv, ChunksFit, Unmounted
<1>8. Accounted'
  BY <1>1, <1>3, <1>4 DEF OutputInv, Accounted, Unseen
<1>9. Coming' = Coming /\ Later' = Later
  <2>1. Coming' = Coming
    BY <1>1, <1>3 DEF OutputInv, ChunksFit, Coming
  <2> QED
    BY <1>1, <2>1 DEF Later
<1>10. InTurn' /\ Replied'
  BY <1>1, <1>3, <1>9 DEF OutputInv, InTurn, Replied
<1> QED
  BY <1>5, <1>6, <1>7, <1>8, <1>10 DEF OutputInv

\* Asking for the buffer keeps the invariant.
LEMMA ReadSnapshotKeeps == OutputInv /\ ReadSnapshot => OutputInv'
<1> SUFFICES ASSUME OutputInv, ReadSnapshot
             PROVE  OutputInv'
  OBVIOUS
<1> DEFINE text == Newest([i \in 1..stream.n |-> i], Keep)
<1>1. /\ shot' = [on |-> TRUE, text |-> text]
      /\ UNCHANGED <<stream, held, heldDue, snap, fresh, pane, writes, screen, hidden,
                     told, gone, again, replies>>
  BY DEF ReadSnapshot
<1>2. text \in Seq(Sent) /\ Rising(text)
  BY WholeEnds, OutputAssumption DEF OutputInv, OutputTypes, Sent
<1> HIDE DEF text
<1>3. Sent' = Sent /\ shot'.text = text
  BY <1>1 DEF Sent
<1>4. OutputTypes'
  BY <1>1, <1>2, <1>3 DEF OutputInv, OutputTypes
<1>5. Timed' /\ ChunksFit' /\ Accounted'
  BY <1>1, <1>3 DEF OutputInv, Timed, WaitingIsScheduled, Comes, ChunksFit, Unmounted, Accounted, Unseen
<1>6. Coming' = Coming /\ Later' = Later
  BY <1>1 DEF Coming, Later
<1>7. InTurn' /\ Replied'
  BY <1>1, <1>2, <1>3, <1>6 DEF OutputInv, InTurn, Replied
<1> QED
  BY <1>4, <1>5, <1>7 DEF OutputInv

\* The answer with the buffer keeps the invariant.
LEMMA TakeSnapshotKeeps == OutputInv /\ TakeSnapshot => OutputInv'
<1> SUFFICES ASSUME OutputInv, TakeSnapshot
             PROVE  OutputInv'
  OBVIOUS
<1>1. /\ snap' = [snap EXCEPT !.shown = TRUE, !.buf = shot.text, !.chunk = <<>>, !.drop = {}]
      /\ shot' = NoShot /\ fresh' = TRUE
      /\ gone' = gone \cup (ToSet(snap.buf) \ ToSet(shot.text)) \cup Unrendered
      /\ again' = (again \/ ToSet(shot.text) \cap ToSet(held.chunk) # {})
      /\ UNCHANGED <<stream, held, heldDue, pane, writes, screen, hidden, turns, told, replies>>
  BY DEF TakeSnapshot
<1>2. /\ snap \in [shown : BOOLEAN, buf : Seq(Sent), chunk : Seq(Sent), drop : SUBSET Sent,
                   status : Statuses]
      /\ shot \in [on : BOOLEAN, text : Seq(Sent)] /\ <<>> \in Seq(Sent) /\ {} \in SUBSET Sent
  BY DEF OutputInv, OutputTypes
<1>3. /\ snap'.shown /\ snap'.buf = shot.text /\ snap'.chunk = <<>> /\ snap'.drop = {}
      /\ snap' \in [shown : BOOLEAN, buf : Seq(Sent), chunk : Seq(Sent), drop : SUBSET Sent,
                    status : Statuses]
      /\ shot'.text = <<>> /\ shot' \in [on : BOOLEAN, text : Seq(Sent)]
  BY <1>1, <1>2 DEF NoShot
<1>4. Sent' = Sent
  BY <1>1 DEF Sent
<1>5. OutputTypes'
  <2>1. again' \in BOOLEAN
    BY <1>1 DEF OutputInv, OutputTypes
  <2> QED
    BY <1>1, <1>3, <1>4, <2>1 DEF OutputInv, OutputTypes
<1>6. Timed'
  BY <1>1 DEF OutputInv, Timed, WaitingIsScheduled, Comes
<1>7. SameEnd(<<>>, shot.text)
  BY DEF SameEnd
<1>8. ChunksFit'
  BY <1>1, <1>3, <1>7 DEF OutputInv, ChunksFit, Unmounted
<1>9. Accounted'
  BY <1>1, <1>3, <1>4 DEF OutputInv, Accounted, Unseen, Unrendered
<1>10. Coming' = <<>> /\ Later' \subseteq Later /\ ToSet(Coming') = {}
  BY <1>1, <1>3, NoneIn DEF Coming, Later
<1>11. ASSUME ToSet(shot.text) \cap ToSet(held.chunk) = {}
       PROVE  Precedes(ToSet(shot.text), ToSet(held.chunk))
  <2> SUFFICES ASSUME NEW i \in DOMAIN held.chunk, NEW x \in ToSet(shot.text), x >= held.chunk[i]
               PROVE  FALSE
    <3>1. ToSet(shot.text) \subseteq Nat /\ ToSet(held.chunk) \subseteq Nat
      BY <1>2, TextIn, StagesSent DEF OutputInv
    <3> QED
      BY <3>1 DEF Precedes, ToSet
  <2> DEFINE c == held.chunk
             n == stream.n
  <2>1. /\ Len(c) \in Nat /\ DOMAIN c = 1..Len(c) /\ n \in Nat
        /\ \A k \in DOMAIN c : c[k] = n - Len(c) + k
    BY DEF OutputInv, OutputTypes, ChunksFit, EndsAt
  <2>2. x \in 1..n
    BY <1>2, TextIn DEF Sent
  <2> HIDE DEF c, n
  <2>3. x - n + Len(c) \in DOMAIN c
    BY <2>1, <2>2 DEF c
  <2>4. c[x - n + Len(c)] = x
    BY <2>1, <2>2, <2>3
  <2> QED
    BY <1>11, <2>3, <2>4 DEF ToSet, c
<1>12. again \in BOOLEAN /\ again' \in BOOLEAN
  BY <1>1 DEF OutputInv, OutputTypes
<1>13. CASE ~again'
  <2>1. ~again /\ again' = again /\ ToSet(shot.text) \cap ToSet(held.chunk) = {}
    BY <1>1, <1>12, <1>13
  <2>2. /\ Rising(snap'.chunk) /\ Rising(snap'.buf) /\ Rising(shot'.text)
        /\ Precedes(ToSet(snap'.buf), ToSet(held'.chunk))
    BY <1>1, <1>3, <1>11, <2>1, NoneIn DEF OutputInv, InTurn
  <2>3. Precedes(ToSet(Coming'), ToSet(held'.chunk))
    BY <1>10 DEF Precedes
  <2>4. InTurn' /\ Replied'
    BY <1>1, <1>10, <2>1, <2>2, <2>3, TurnsKept DEF InTurn
  <2> QED
    BY <1>5, <1>6, <1>8, <1>9, <2>4 DEF OutputInv
<1>14. CASE again'
  BY <1>5, <1>6, <1>8, <1>9, <1>14 DEF OutputInv, InTurn, Replied
<1> QED
  BY <1>13, <1>14

\* What the pane holds was sent.
LEMMA PaneTyped ==
    ASSUME OutputInv
    PROVE  /\ pane \in PaneRefs /\ snap.buf \in Seq(Sent) /\ snap.chunk \in Seq(Sent)
           /\ snap.drop \in SUBSET Sent /\ writes \in Seq(Write(Sent)) /\ Sent \in SUBSET Nat
           /\ <<>> \in Seq(Sent) /\ held.chunk \in Seq(Sent) /\ again \in BOOLEAN
<1>1. OutputTypes /\ ChunksFit
  BY DEF OutputInv
<1>2. pane \in PaneRefs /\ again \in BOOLEAN
  BY <1>1 DEF OutputTypes, PaneRefs
<1>3. Sent \in SUBSET Nat
  BY <1>1, StagesSent
<1> QED
  BY <1>1, <1>2, <1>3 DEF OutputTypes

\* The first drawing of a pane keeps the invariant.
LEMMA RenderFirstKeeps == OutputInv /\ RenderFirst => OutputInv'
<1> SUFFICES ASSUME OutputInv, RenderFirst
             PROVE  OutputInv'
  OBVIOUS
<1> DEFINE w == [live |-> FALSE, text |-> snap.buf]
<1>1. /\ fresh /\ ~pane.ready /\ fresh' = FALSE
      /\ pane' = [pane EXCEPT !.ready = TRUE, !.prev = snap.buf, !.replaying = TRUE]
      /\ writes' = Append(writes, w)
      /\ gone' = gone \cup ((1..stream.n) \ (ToSet(snap.buf) \cup ToSet(held.chunk) \cup held.drop))
      /\ UNCHANGED <<stream, held, heldDue, snap, shot, screen, hidden, turns, told, again, replies>>
  BY DEF RenderFirst, Replay
<1>2. /\ pane \in PaneRefs /\ snap.buf \in Seq(Sent) /\ writes \in Seq(Write(Sent)) /\ Sent \in SUBSET Nat
  BY PaneTyped
<1>3. /\ pane' \in PaneRefs /\ pane'.ready /\ pane'.prev = snap.buf /\ pane'.pending = pane.pending
      /\ pane'.drop = pane.drop /\ pane'.busy = pane.busy /\ pane'.due = pane.due /\ pane'.replaying
  BY <1>1, <1>2 DEF PaneRefs
<1>4. pane.pending = <<>> /\ writes = <<>> /\ screen = <<>>
  BY <1>1 DEF OutputInv, ChunksFit, Unmounted
<1>5. Sent' = Sent /\ Sent = 1..stream.n
  BY <1>1 DEF Sent
<1>6. /\ w \in Write(Sent) /\ w.text = snap.buf /\ ~w.live
  BY <1>2 DEF Write
<1> HIDE DEF w
<1>7. /\ writes' \in Seq(Write(Sent))
      /\ Texts(writes', FALSE) = Texts(writes, FALSE) \cup ToSet(snap.buf)
      /\ Texts(writes', TRUE) \subseteq Texts(writes, TRUE)
      /\ InLine(writes) /\ Rising(snap.buf) /\ Precedes(Texts(writes, FALSE), ToSet(snap.buf))
           => InLine(writes')
  BY <1>1, <1>2, <1>6, WriteAdded
<1>8. /\ Texts(writes, FALSE) = {} /\ Texts(writes, TRUE) = {} /\ InLine(writes)
      /\ Texts(writes', FALSE) = ToSet(snap.buf) /\ Texts(writes', TRUE) = {}
  BY <1>4, <1>7, NoWrites
<1>9. OutputTypes'
  BY <1>1, <1>3, <1>5, <1>7 DEF OutputInv, OutputTypes, PaneRefs
<1>10. Timed'
  BY <1>1, <1>3 DEF OutputInv, Timed, WaitingIsScheduled, Comes
<1>11. ChunksFit'
  BY <1>1, <1>3 DEF OutputInv, ChunksFit, Unmounted
<1>12. Accounted'
  BY <1>1, <1>3, <1>5, <1>8 DEF Accounted, Unseen
<1>13. /\ Later' = ToSet(held.chunk) /\ ToSet(Coming') = {} /\ ToSet(pane'.pending) = {}
       /\ ToSet(screen) = {} /\ Rising(<<>>)
  BY <1>1, <1>3, <1>4, NoneIn DEF Coming, Later
<1>14. ASSUME ~again
       PROVE  InTurn' /\ Replied'
  <2>1. /\ Rising(snap.chunk) /\ Rising(snap.buf) /\ Rising(shot.text)
        /\ Precedes(ToSet(snap.buf), ToSet(held.chunk))
        /\ Rising(replies) /\ Precedes(ToSet(replies), ToSet(held.chunk))
    BY <1>14 DEF OutputInv, InTurn, Replied, Later, Precedes
  <2>2. InLine(writes')
    BY <1>7, <1>8, <2>1 DEF Precedes
  <2>3. InTurn'
    BY <1>1, <1>3, <1>4, <1>8, <1>13, <2>1, <2>2 DEF InTurn, Precedes
  <2>4. Replied'
    BY <1>1, <1>3, <1>8, <1>13, <2>1 DEF Replied, Precedes
  <2> QED
    BY <2>3, <2>4
<1>15. again => InTurn' /\ Replied'
  BY <1>1 DEF InTurn, Replied
<1> QED
  BY <1>9, <1>10, <1>11, <1>12, <1>14, <1>15 DEF OutputInv

\* Drawing a chunk keeps the invariant.
LEMMA RenderChunkKeeps == OutputInv /\ RenderChunk => OutputInv'
<1> SUFFICES ASSUME OutputInv, RenderChunk
             PROVE  OutputInv'
  OBVIOUS
<1> DEFINE p == Bounded(pane.pending, snap.chunk)
           o == Overflow(pane.pending, snap.chunk)
           q == [pane EXCEPT !.prev = snap.buf, !.pending = Bounded(@, snap.chunk),
                             !.drop = @ \cup snap.drop \cup o]
<1>1. /\ fresh /\ pane.ready /\ fresh' = FALSE
      /\ pane' = Scheduled(q)
      /\ again' = (again \/ pane.prev = snap.buf)
      /\ UNCHANGED <<stream, held, heldDue, snap, shot, writes, screen, hidden, turns, told, gone, replies>>
  BY DEF RenderChunk, Queued
<1>2. /\ pane \in PaneRefs /\ snap.buf \in Seq(Sent) /\ snap.chunk \in Seq(Sent)
      /\ snap.drop \in SUBSET Sent /\ Sent \in SUBSET Nat /\ pane.pending \in Seq(Sent)
      /\ again \in BOOLEAN
  BY PaneTyped DEF PaneRefs, OutputInv, OutputTypes
<1>3. /\ p \in Seq(Sent) /\ o \in SUBSET Sent
      /\ ToSet(pane.pending) \cup ToSet(snap.chunk) = ToSet(p) \cup o
      /\ Rising(pane.pending) /\ Rising(snap.chunk) /\ Precedes(ToSet(pane.pending), ToSet(snap.chunk))
           => Rising(p)
  BY <1>2, BoundedIs
<1> HIDE DEF o
<1>4. /\ q \in PaneRefs /\ q.ready = pane.ready /\ q.prev = snap.buf /\ q.pending = p
      /\ q.drop = pane.drop \cup snap.drop \cup o /\ q.busy = pane.busy /\ q.due = pane.due
      /\ q.replaying = pane.replaying
  BY <1>2, <1>3 DEF PaneRefs
<1> HIDE DEF p, q
<1>5. Soon \in Dues
  BY DEF Soon, Dues
<1>6. /\ pane' \in PaneRefs /\ pane'.ready /\ pane'.prev = snap.buf /\ pane'.pending = p
      /\ pane'.drop = pane.drop \cup snap.drop \cup o /\ pane'.busy = pane.busy
      /\ pane'.due = (IF pane.busy \/ pane.due # "none" THEN pane.due ELSE Soon)
      /\ pane'.replaying = pane.replaying
  BY <1>1, <1>4, <1>5 DEF Scheduled, PaneRefs
<1>7. Sent' = Sent
  BY <1>1 DEF Sent
<1>8. OutputTypes'
  <2>1. again' \in BOOLEAN
    BY <1>1, <1>2
  <2> QED
    BY <1>1, <1>6, <1>7, <2>1 DEF OutputInv, OutputTypes, PaneRefs
<1>9. Timed'
  BY <1>1, <1>2, <1>6 DEF OutputInv, Timed, WaitingIsScheduled, Comes, Soon, PaneRefs, Dues
<1>10. ChunksFit'
  BY <1>1, <1>6 DEF OutputInv, ChunksFit, Unmounted
<1>11. Accounted'
  BY <1>1, <1>3, <1>6, <1>7 DEF OutputInv, Accounted, Unseen
<1>12. Later' = ToSet(held.chunk) /\ ToSet(Coming') = {}
  BY <1>1, <1>6, NoneIn DEF Coming, Later
<1>13. ASSUME ~again'
       PROVE  InTurn' /\ Replied'
  <2>1. ~again /\ pane.prev # snap.buf
    BY <1>1, <1>13
  <2>2. Coming = snap.chunk /\ Later = ToSet(snap.chunk) \cup ToSet(held.chunk)
    BY <1>1, <2>1 DEF Coming, Later
  <2>3. /\ Rising(screen) /\ Rising(pane.pending) /\ Rising(snap.chunk) /\ Rising(snap.buf)
        /\ Rising(shot.text) /\ InLine(writes)
        /\ Precedes(ToSet(screen), Texts(writes, FALSE) \cup ToSet(pane.pending) \cup Later)
        /\ Precedes(Texts(writes, FALSE), ToSet(pane.pending) \cup Later)
        /\ Precedes(ToSet(pane.pending), Later)
        /\ Precedes(ToSet(snap.buf), ToSet(held.chunk))
        /\ Precedes(ToSet(Coming), ToSet(held.chunk))
    BY <2>1 DEF OutputInv, InTurn
  <2>4. ToSet(p) \subseteq ToSet(pane.pending) \cup ToSet(snap.chunk)
    BY <1>3
  <2>5. /\ Rising(p)
        /\ Precedes(ToSet(screen), Texts(writes, FALSE) \cup ToSet(p) \cup Later')
        /\ Precedes(Texts(writes, FALSE), ToSet(p) \cup Later')
        /\ Precedes(ToSet(p), Later') /\ Precedes(ToSet(Coming'), ToSet(held.chunk))
    <3>1. Precedes(ToSet(pane.pending), ToSet(snap.chunk))
      BY <2>2, <2>3 DEF Precedes
    <3>2. Precedes(ToSet(screen), Texts(writes, FALSE) \cup ToSet(p) \cup Later')
      BY <1>12, <2>2, <2>3, <2>4 DEF Precedes
    <3>3. Precedes(Texts(writes, FALSE), ToSet(p) \cup Later')
      BY <1>12, <2>2, <2>3, <2>4 DEF Precedes
    <3>4. Precedes(ToSet(p), Later')
      BY <1>12, <2>2, <2>3, <2>4 DEF Precedes
    <3>5. Precedes(ToSet(Coming'), ToSet(held.chunk))
      BY <1>12 DEF Precedes
    <3> QED
      BY <1>3, <2>3, <3>1, <3>2, <3>3, <3>4, <3>5
  <2>6. InTurn'
    BY <1>1, <1>6, <2>3, <2>5 DEF InTurn
  <2>7. /\ Rising(replies)
        /\ Precedes(ToSet(replies), Texts(writes, TRUE) \cup ToSet(pane.pending) \cup Later)
        /\ pane.replaying \/ \A i \in DOMAIN writes : writes[i].live
    BY <2>1 DEF OutputInv, Replied
  <2>8. Precedes(ToSet(replies), Texts(writes, TRUE) \cup ToSet(p) \cup Later')
    BY <1>12, <2>2, <2>4, <2>7 DEF Precedes
  <2>9. Replied'
    BY <1>1, <1>6, <2>7, <2>8 DEF Replied
  <2> QED
    BY <2>6, <2>9
<1>14. again' => InTurn' /\ Replied'
  BY DEF InTurn, Replied
<1> QED
  BY <1>8, <1>9, <1>10, <1>11, <1>13, <1>14 DEF OutputInv

\* Drawing when nothing came keeps the invariant.
LEMMA RenderQuietKeeps == OutputInv /\ RenderQuiet => OutputInv'
<1> SUFFICES ASSUME OutputInv, RenderQuiet
             PROVE  OutputInv'
  OBVIOUS
<1>1. snap.chunk = <<>> /\ snap.drop = {}
  BY ChunkIsTaken DEF RenderQuiet, OutputInv, ChunksFit
<1>2. /\ fresh /\ pane.ready /\ fresh' = FALSE
      /\ pane' = [pane EXCEPT !.prev = snap.buf]
      /\ UNCHANGED <<stream, held, heldDue, snap, shot, writes, screen, hidden, turns, told, gone,
                     again, replies>>
  BY <1>1 DEF RenderQuiet
<1>3. /\ pane' \in PaneRefs /\ pane'.ready /\ pane'.prev = snap.buf /\ pane'.pending = pane.pending
      /\ pane'.drop = pane.drop /\ pane'.busy = pane.busy /\ pane'.due = pane.due
      /\ pane'.replaying = pane.replaying
  BY <1>2, PaneTyped DEF PaneRefs
<1>4. Sent' = Sent
  BY <1>2 DEF Sent
<1>5. OutputTypes'
  BY <1>2, <1>3, <1>4 DEF OutputInv, OutputTypes, PaneRefs
<1>6. Timed'
  BY <1>2, <1>3 DEF OutputInv, Timed, WaitingIsScheduled, Comes
<1>7. ChunksFit'
  BY <1>2, <1>3 DEF OutputInv, ChunksFit, Unmounted
<1>8. Accounted'
  BY <1>1, <1>2, <1>3, <1>4, NoneIn DEF OutputInv, Accounted, Unseen
<1>9. Coming' = <<>> /\ Coming = <<>> /\ Later' = Later
  BY <1>1, <1>2, <1>3 DEF Coming, Later
<1>10. InTurn' /\ Replied'
  BY <1>2, <1>3, <1>9 DEF OutputInv, InTurn, Replied
<1> QED
  BY <1>5, <1>6, <1>7, <1>8, <1>10 DEF OutputInv

\* Drawing anew from the buffer keeps the invariant.
LEMMA RenderResetKeeps == OutputInv /\ RenderReset => OutputInv'
<1> SUFFICES ASSUME OutputInv, RenderReset
             PROVE  OutputInv'
  OBVIOUS
<1> DEFINE w == [live |-> FALSE, text |-> snap.buf]
<1>1. snap.chunk = <<>> /\ snap.drop = {}
  BY ChunkIsTaken DEF RenderReset, OutputInv, ChunksFit
<1>2. /\ fresh /\ pane.ready /\ fresh' = FALSE
      /\ pane' = [pane EXCEPT !.pending = <<>>, !.due = "none", !.prev = snap.buf,
                              !.drop = @ \cup snap.drop, !.replaying = TRUE]
      /\ writes' = Append(writes, w)
      /\ screen' = <<>>
      /\ gone' = gone \cup ToSet(pane.pending) \cup ToSet(screen)
      /\ again' = (again \/ writes # <<>>)
      /\ UNCHANGED <<stream, held, heldDue, snap, shot, hidden, turns, told, replies>>
  BY DEF RenderReset
<1>3. /\ pane \in PaneRefs /\ snap.buf \in Seq(Sent) /\ writes \in Seq(Write(Sent)) /\ Sent \in SUBSET Nat
      /\ <<>> \in Seq(Sent) /\ again \in BOOLEAN /\ "none" \in Dues
  BY PaneTyped DEF Dues
<1>4. /\ pane' \in PaneRefs /\ pane'.ready /\ pane'.prev = snap.buf /\ pane'.pending = <<>>
      /\ pane'.drop = pane.drop /\ pane'.due = "none" /\ pane'.replaying
  BY <1>1, <1>2, <1>3 DEF PaneRefs
<1>5. Sent' = Sent
  BY <1>2 DEF Sent
<1>6. /\ w \in Write(Sent) /\ w.text = snap.buf /\ ~w.live
  BY <1>3 DEF Write
<1> HIDE DEF w
<1>7. /\ writes' \in Seq(Write(Sent))
      /\ Texts(writes', FALSE) = Texts(writes, FALSE) \cup ToSet(snap.buf)
      /\ Texts(writes', TRUE) \subseteq Texts(writes, TRUE)
      /\ InLine(writes) /\ Rising(snap.buf) /\ Precedes(Texts(writes, FALSE), ToSet(snap.buf))
           => InLine(writes')
  BY <1>2, <1>3, <1>6, WriteAdded
<1>8. OutputTypes'
  <2>1. again' \in BOOLEAN
    BY <1>2, <1>3
  <2> QED
    BY <1>2, <1>3, <1>4, <1>5, <1>7, <2>1 DEF OutputInv, OutputTypes, PaneRefs
<1>9. Timed'
  BY <1>2, <1>4 DEF OutputInv, Timed, WaitingIsScheduled, Comes
<1>10. ChunksFit'
  BY <1>2, <1>4 DEF OutputInv, ChunksFit, Unmounted
<1>11. ToSet(<<>>) = {} /\ Rising(<<>>)
  BY NoneIn
<1>12. Accounted'
  BY <1>1, <1>2, <1>4, <1>5, <1>7, <1>11 DEF OutputInv, Accounted, Unseen
<1>13. Later' = ToSet(held.chunk) /\ ToSet(Coming') = {}
  BY <1>2, <1>4, <1>11 DEF Coming, Later
<1>14. ASSUME ~again'
       PROVE  InTurn' /\ Replied'
  <2>1. ~again /\ writes = <<>>
    BY <1>2, <1>3, <1>14
  <2>2. /\ Texts(writes, FALSE) = {} /\ Texts(writes, TRUE) = {} /\ InLine(writes)
        /\ Texts(writes', FALSE) = ToSet(snap.buf) /\ Texts(writes', TRUE) = {}
    BY <1>7, <2>1, NoWrites
  <2>3. /\ Rising(snap.chunk) /\ Rising(snap.buf) /\ Rising(shot.text)
        /\ Precedes(ToSet(snap.buf), ToSet(held.chunk))
        /\ Rising(replies) /\ Precedes(ToSet(replies), ToSet(held.chunk))
    BY <2>1 DEF OutputInv, InTurn, Replied, Later, Precedes
  <2>4. InLine(writes')
    BY <1>7, <2>2, <2>3 DEF Precedes
  <2>5. InTurn'
    BY <1>2, <1>4, <1>11, <1>13, <2>2, <2>3, <2>4 DEF InTurn, Precedes
  <2>6. Replied'
    BY <1>2, <1>4, <1>11, <1>13, <2>2, <2>3 DEF Replied, Precedes
  <2> QED
    BY <2>5, <2>6
<1>15. again' => InTurn' /\ Replied'
  BY DEF InTurn, Replied
<1> QED
  BY <1>8, <1>9, <1>10, <1>12, <1>14, <1>15 DEF OutputInv

\* Clearing the screen keeps the invariant.
LEMMA ClearKeeps == OutputInv /\ Clear => OutputInv'
<1> SUFFICES ASSUME OutputInv, Clear
             PROVE  OutputInv'
  OBVIOUS
<1>1. /\ pane.ready /\ ~fresh
      /\ pane' = [pane EXCEPT !.pending = <<>>, !.due = "none", !.prev = snap.buf]
      /\ screen' = <<>>
      /\ gone' = gone \cup ToSet(pane.pending) \cup ToSet(screen)
      /\ UNCHANGED <<stream, held, heldDue, snap, shot, fresh, writes, hidden, told, again, replies>>
  BY DEF Clear
<1>2. pane \in PaneRefs /\ snap.buf \in Seq(Sent) /\ <<>> \in Seq(Sent) /\ "none" \in Dues
  BY PaneTyped DEF Dues
<1>3. /\ pane' \in PaneRefs /\ pane'.ready /\ pane'.prev = snap.buf /\ pane'.pending = <<>>
      /\ pane'.drop = pane.drop /\ pane'.due = "none" /\ pane'.replaying = pane.replaying
  BY <1>1, <1>2 DEF PaneRefs
<1>4. Sent' = Sent /\ ToSet(<<>>) = {} /\ Rising(<<>>)
  BY <1>1, NoneIn DEF Sent
<1>5. OutputTypes'
  BY <1>1, <1>2, <1>3, <1>4 DEF OutputInv, OutputTypes, PaneRefs
<1>6. Timed'
  BY <1>1, <1>3 DEF OutputInv, Timed, WaitingIsScheduled, Comes
<1>7. ChunksFit'
  BY <1>1, <1>3 DEF OutputInv, ChunksFit, Unmounted
<1>8. Accounted'
  BY <1>1, <1>3, <1>4 DEF OutputInv, Accounted, Unseen
<1>9. Later' = Later /\ Coming' = Coming
  BY <1>1 DEF Coming, Later
<1>10. ASSUME ~again
       PROVE  InTurn' /\ Replied'
  <2>1. /\ Rising(snap.chunk) /\ Rising(snap.buf) /\ Rising(shot.text) /\ InLine(writes)
        /\ Precedes(Texts(writes, FALSE), ToSet(pane.pending) \cup Later)
        /\ Precedes(ToSet(snap.buf), ToSet(held.chunk))
        /\ Precedes(ToSet(Coming), ToSet(held.chunk))
    BY <1>10 DEF OutputInv, InTurn
  <2>2. /\ Rising(replies)
        /\ Precedes(ToSet(replies), Texts(writes, TRUE) \cup ToSet(pane.pending) \cup Later)
        /\ pane.replaying \/ \A i \in DOMAIN writes : writes[i].live
    BY <1>10 DEF OutputInv, Replied
  <2>3. /\ Precedes(ToSet(screen'), Texts(writes, FALSE) \cup ToSet(pane'.pending) \cup Later)
        /\ Precedes(Texts(writes, FALSE), ToSet(pane'.pending) \cup Later)
        /\ Precedes(ToSet(pane'.pending), Later)
        /\ Precedes(ToSet(replies), Texts(writes, TRUE) \cup ToSet(pane'.pending) \cup Later)
    BY <1>1, <1>3, <1>4, <2>1, <2>2 DEF Precedes
  <2>4. InTurn'
    BY <1>1, <1>3, <1>4, <1>9, <2>1, <2>3 DEF InTurn
  <2>5. Replied'
    BY <1>1, <1>3, <1>9, <2>2, <2>3 DEF Replied
  <2> QED
    BY <2>4, <2>5
<1>11. again => InTurn' /\ Replied'
  BY <1>1 DEF InTurn, Replied
<1> QED
  BY <1>5, <1>6, <1>7, <1>8, <1>10, <1>11 DEF OutputInv

\* Mounting the pane anew keeps the invariant.
LEMMA RemountKeeps == OutputInv /\ Remount => OutputInv'
<1> SUFFICES ASSUME OutputInv, Remount
             PROVE  OutputInv'
  OBVIOUS
<1>1. /\ pane.ready /\ pane' = Unmounted /\ writes' = <<>> /\ screen' = <<>> /\ fresh' = TRUE
      /\ UNCHANGED <<stream, held, heldDue, snap, shot, hidden, told, gone, again, replies>>
  BY DEF Remount
<1>2. /\ ~pane'.ready /\ pane'.pending = <<>> /\ pane'.due = "none"
  BY <1>1 DEF Unmounted
<1>3. Sent' = Sent /\ ToSet(<<>>) = {} /\ Rising(<<>>) /\ <<>> \in Seq(Sent)
  BY <1>1, NoneIn DEF Sent
<1>4. OutputTypes'
  <2>1. <<>> \in Seq(Write(Sent))
    BY NoWrites
  <2>2. Unmounted \in PaneRefs
    BY <1>3 DEF Unmounted, PaneRefs, Dues
  <2> QED
    BY <1>1, <1>3, <2>1, <2>2 DEF OutputInv, OutputTypes, PaneRefs
<1>5. Timed'
  BY <1>1, <1>2 DEF OutputInv, Timed, WaitingIsScheduled, Comes
<1>6. ChunksFit'
  BY <1>1, <1>2 DEF OutputInv, ChunksFit
<1>7. Accounted'
  BY <1>2 DEF Accounted
<1>8. Later' = ToSet(held.chunk) /\ ToSet(Coming') = {}
  BY <1>1, <1>2, <1>3 DEF Coming, Later
<1>9. Texts(<<>>, FALSE) = {} /\ Texts(<<>>, TRUE) = {} /\ InLine(<<>>)
  BY NoWrites
<1>10. DOMAIN <<>> = {}
  OBVIOUS
<1>11. ASSUME ~again
       PROVE  InTurn' /\ Replied'
  <2>1. /\ Rising(snap.chunk) /\ Rising(snap.buf) /\ Rising(shot.text)
        /\ Precedes(ToSet(snap.buf), ToSet(held.chunk))
        /\ Rising(replies) /\ Precedes(ToSet(replies), ToSet(held.chunk))
    BY <1>11 DEF OutputInv, InTurn, Replied, Later, Precedes
  <2>2. /\ Precedes({}, ToSet(held.chunk)) /\ Precedes({}, {})
    BY DEF Precedes
  <2>3. InTurn'
    BY <1>1, <1>2, <1>3, <1>8, <1>9, <1>10, <2>1, <2>2 DEF InTurn
  <2>4. Replied'
    BY <1>1, <1>2, <1>3, <1>8, <1>9, <1>10, <2>1 DEF Replied
  <2> QED
    BY <2>3, <2>4
<1>12. again => InTurn' /\ Replied'
  BY <1>1 DEF InTurn, Replied
<1> QED
  BY <1>4, <1>5, <1>6, <1>7, <1>11, <1>12 DEF OutputInv

\* The frame that flushes held output keeps the invariant.
LEMMA FlushOutputKeeps == OutputInv /\ FlushOutput => OutputInv'
<1> SUFFICES ASSUME OutputInv, FlushOutput
             PROVE  OutputInv'
  OBVIOUS
<1> DEFINE w == [live |-> TRUE, text |-> pane.pending]
<1>1. /\ pane.pending # <<>>
      /\ writes' = Append(writes, w)
      /\ told' = told \cup pane.drop
      /\ pane' = [pane EXCEPT !.pending = <<>>, !.drop = {}, !.busy = TRUE, !.due = "none"]
      /\ UNCHANGED <<stream, held, heldDue, snap, shot, fresh, screen, hidden, turns, gone, again, replies>>
  BY DEF FlushOutput
<1>2. /\ pane \in PaneRefs /\ writes \in Seq(Write(Sent)) /\ Sent \in SUBSET Nat
      /\ <<>> \in Seq(Sent) /\ "none" \in Dues
  BY PaneTyped DEF Dues
<1>3. /\ pane' \in PaneRefs /\ pane'.ready = pane.ready /\ pane'.prev = pane.prev /\ pane'.pending = <<>>
      /\ pane'.drop = {} /\ pane'.due = "none" /\ pane'.replaying = pane.replaying
  BY <1>1, <1>2 DEF PaneRefs
<1>4. Sent' = Sent /\ ToSet(<<>>) = {} /\ Rising(<<>>)
  BY <1>1, NoneIn DEF Sent
<1>5. /\ w \in Write(Sent) /\ w.text = pane.pending /\ w.live
  BY <1>2 DEF Write, PaneRefs
<1> HIDE DEF w
<1>6. /\ writes' \in Seq(Write(Sent))
      /\ Texts(writes', FALSE) = Texts(writes, FALSE) \cup ToSet(pane.pending)
      /\ Texts(writes', TRUE) \subseteq Texts(writes, TRUE) \cup ToSet(pane.pending)
      /\ InLine(writes) /\ Rising(pane.pending) /\ Precedes(Texts(writes, FALSE), ToSet(pane.pending))
           => InLine(writes')
      /\ (\A i \in DOMAIN writes : writes[i].live) => \A i \in DOMAIN writes' : writes'[i].live
  BY <1>1, <1>2, <1>5, WriteAdded
<1>7. OutputTypes'
  BY <1>1, <1>3, <1>4, <1>6 DEF OutputInv, OutputTypes, PaneRefs
<1>8. Timed'
  BY <1>1, <1>3 DEF OutputInv, Timed, WaitingIsScheduled, Comes
<1>9. pane.ready
  BY <1>1 DEF OutputInv, ChunksFit, Unmounted
<1>10. ChunksFit'
  BY <1>1, <1>3, <1>9 DEF OutputInv, ChunksFit, Unmounted
<1>11. Accounted'
  BY <1>1, <1>3, <1>4, <1>6 DEF OutputInv, Accounted, Unseen
<1>12. Coming' = Coming /\ Later' = Later
  BY <1>1, <1>3 DEF Coming, Later
<1>13. ASSUME ~again
       PROVE  InTurn' /\ Replied'
  <2>1. /\ Rising(screen) /\ Rising(pane.pending) /\ Rising(snap.chunk) /\ Rising(snap.buf)
        /\ Rising(shot.text) /\ InLine(writes)
        /\ Precedes(ToSet(screen), Texts(writes, FALSE) \cup ToSet(pane.pending) \cup Later)
        /\ Precedes(Texts(writes, FALSE), ToSet(pane.pending) \cup Later)
        /\ Precedes(ToSet(pane.pending), Later)
        /\ Precedes(ToSet(snap.buf), ToSet(held.chunk))
        /\ Precedes(ToSet(Coming), ToSet(held.chunk))
    BY <1>13 DEF OutputInv, InTurn
  <2>2. /\ Rising(replies)
        /\ Precedes(ToSet(replies), Texts(writes, TRUE) \cup ToSet(pane.pending) \cup Later)
        /\ pane.replaying \/ \A i \in DOMAIN writes : writes[i].live
    BY <1>13 DEF OutputInv, Replied
  <2>3. Precedes(Texts(writes, FALSE), ToSet(pane.pending))
    BY <2>1 DEF Precedes
  <2>4. /\ Precedes(ToSet(screen), Texts(writes', FALSE) \cup ToSet(pane'.pending) \cup Later)
        /\ Precedes(Texts(writes', FALSE), ToSet(pane'.pending) \cup Later)
        /\ Precedes(ToSet(pane'.pending), Later)
    BY <1>3, <1>4, <1>6, <2>1 DEF Precedes
  <2>5. Precedes(ToSet(replies), Texts(writes', TRUE) \cup ToSet(pane'.pending) \cup Later)
    BY <1>3, <1>4, <1>6, <2>2 DEF Precedes
  <2>6. InTurn'
    BY <1>1, <1>3, <1>4, <1>6, <1>12, <2>1, <2>3, <2>4 DEF InTurn
  <2>7. Replied'
    BY <1>1, <1>3, <1>6, <1>12, <2>2, <2>5 DEF Replied
  <2> QED
    BY <2>6, <2>7
<1>14. again => InTurn' /\ Replied'
  BY <1>1 DEF InTurn, Replied
<1> QED
  BY <1>7, <1>8, <1>10, <1>11, <1>13, <1>14 DEF OutputInv

\* The terminal that parses a write keeps the invariant.
LEMMA ParseKeeps == OutputInv /\ Parse => OutputInv'
<1> SUFFICES ASSUME OutputInv, Parse
             PROVE  OutputInv'
  OBVIOUS
<1> DEFINE w == Head(writes)
           rest == Tail(writes)
<1>1. /\ writes # <<>> /\ writes' = rest
      /\ screen' = screen \o w.text
      /\ replies' = replies \o Answers(w.text)
      /\ pane' = IF w.live THEN WriteEnd(pane)
                 ELSE [pane EXCEPT !.replaying = (\E i \in 2..Len(writes) : ~writes[i].live)]
      /\ UNCHANGED <<stream, held, heldDue, snap, shot, fresh, hidden, turns, told, gone, again>>
  BY DEF Parse
<1>2. /\ pane \in PaneRefs /\ writes \in Seq(Write(Sent)) /\ Sent \in SUBSET Nat
      /\ screen \in Seq(Sent) /\ replies \in Seq(Sent) /\ <<>> \in Seq(Sent)
  BY PaneTyped DEF OutputInv, OutputTypes
<1>3. /\ w \in Write(Sent) /\ rest \in Seq(Write(Sent))
      /\ Texts(writes, FALSE) = ToSet(w.text) \cup Texts(rest, FALSE)
      /\ Texts(rest, TRUE) \subseteq Texts(writes, TRUE)
      /\ w.live => ToSet(w.text) \subseteq Texts(writes, TRUE)
      /\ InLine(writes) => /\ InLine(rest) /\ Rising(w.text)
                           /\ Precedes(ToSet(w.text), Texts(rest, FALSE))
      /\ (\A i \in DOMAIN writes : writes[i].live)
           => w.live /\ \A i \in DOMAIN rest : rest[i].live
      /\ (\A i \in 2..Len(writes) : writes[i].live) => \A i \in DOMAIN rest : rest[i].live
  BY <1>1, <1>2, WriteTaken
<1> HIDE DEF w, rest
<1>4. w.text \in Seq(Sent) /\ Texts(rest, TRUE) \subseteq Texts(rest, FALSE)
  BY <1>2, <1>3, TextsIn DEF Write
<1>5. pane.ready
  BY <1>1 DEF OutputInv, ChunksFit
<1>6. /\ pane' \in PaneRefs /\ pane'.ready = pane.ready /\ pane'.prev = pane.prev
      /\ pane'.pending = pane.pending /\ pane'.drop = pane.drop
      /\ pane'.replaying = IF w.live THEN pane.replaying
                           ELSE \E i \in 2..Len(writes) : ~writes[i].live
      /\ pane'.due = IF ~w.live \/ pane.pending = <<>> \/ pane.due # "none" THEN pane.due ELSE Soon
      /\ ~w.live => pane'.busy = pane.busy
  <2>1. CASE ~w.live
    <3>1. (\E i \in 2..Len(writes) : ~writes[i].live) \in BOOLEAN
      OBVIOUS
    <3> QED
      BY <1>1, <1>2, <2>1, <3>1 DEF PaneRefs
  <2>2. CASE w.live /\ pane.pending = <<>>
    BY <1>1, <1>2, <2>2 DEF PaneRefs, WriteEnd
  <2>3. CASE w.live /\ pane.pending # <<>>
    <3> DEFINE q == [pane EXCEPT !.busy = FALSE]
    <3>1. /\ q \in PaneRefs /\ q.ready = pane.ready /\ q.prev = pane.prev /\ q.pending = pane.pending
          /\ q.drop = pane.drop /\ q.replaying = pane.replaying /\ q.due = pane.due /\ ~q.busy
      BY <1>2 DEF PaneRefs
    <3>2. pane' = Scheduled(q)
      BY <1>1, <2>3 DEF WriteEnd
    <3> HIDE DEF q
    <3> QED
      BY <2>3, <3>1, <3>2 DEF PaneRefs, Scheduled, Soon, Dues
  <2> QED
    BY <2>1, <2>2, <2>3
<1>7. Sent' = Sent
  BY <1>1 DEF Sent
<1>8. Answers(w.text) \in Seq(Sent) /\ (Answers(w.text) = <<>> \/ (~pane.replaying /\ Answers(w.text) = w.text))
  BY <1>2, <1>4 DEF Answers
<1>9. /\ screen' \in Seq(Sent) /\ ToSet(screen') = ToSet(screen) \cup ToSet(w.text)
      /\ Rising(screen) /\ Rising(w.text) /\ Precedes(ToSet(screen), ToSet(w.text)) => Rising(screen')
  BY <1>1, <1>2, <1>4, Joined2
<1>10. /\ replies' \in Seq(Sent) /\ ToSet(replies') = ToSet(replies) \cup ToSet(Answers(w.text))
       /\ Rising(replies) /\ Rising(Answers(w.text))
            /\ Precedes(ToSet(replies), ToSet(Answers(w.text))) => Rising(replies')
  BY <1>1, <1>2, <1>8, Joined2
<1>11. OutputTypes'
  BY <1>1, <1>3, <1>6, <1>7, <1>9, <1>10 DEF OutputInv, OutputTypes, PaneRefs
<1>12. Timed'
  BY <1>1, <1>2, <1>6 DEF OutputInv, Timed, WaitingIsScheduled, Comes, Soon, PaneRefs, Dues
<1>13. ChunksFit'
  BY <1>1, <1>5, <1>6 DEF OutputInv, ChunksFit, Unmounted
<1>14. Accounted'
  BY <1>1, <1>3, <1>6, <1>7, <1>9 DEF OutputInv, Accounted, Unseen
<1>15. Coming' = Coming /\ Later' = Later
  BY <1>1, <1>6 DEF Coming, Later
<1>16. ASSUME ~again
       PROVE  InTurn' /\ Replied'
  <2>1. /\ Rising(screen) /\ Rising(pane.pending) /\ Rising(snap.chunk) /\ Rising(snap.buf)
        /\ Rising(shot.text) /\ InLine(writes)
        /\ Precedes(ToSet(screen), Texts(writes, FALSE) \cup ToSet(pane.pending) \cup Later)
        /\ Precedes(Texts(writes, FALSE), ToSet(pane.pending) \cup Later)
        /\ Precedes(ToSet(pane.pending), Later)
        /\ Precedes(ToSet(snap.buf), ToSet(held.chunk))
        /\ Precedes(ToSet(Coming), ToSet(held.chunk))
    BY <1>16 DEF OutputInv, InTurn
  <2>2. /\ Rising(replies)
        /\ Precedes(ToSet(replies), Texts(writes, TRUE) \cup ToSet(pane.pending) \cup Later)
        /\ pane.replaying \/ \A i \in DOMAIN writes : writes[i].live
    BY <1>16 DEF OutputInv, Replied
  <2>3. /\ InLine(rest) /\ Rising(w.text) /\ Precedes(ToSet(w.text), Texts(rest, FALSE))
    BY <1>3, <2>1
  <2>4. Precedes(ToSet(screen), ToSet(w.text))
    BY <1>3, <2>1 DEF Precedes
  <2>5. /\ Precedes(ToSet(screen'), Texts(rest, FALSE) \cup ToSet(pane.pending) \cup Later)
        /\ Precedes(Texts(rest, FALSE), ToSet(pane.pending) \cup Later)
    BY <1>3, <1>9, <2>1, <2>3 DEF Precedes
  <2>6. InTurn'
    BY <1>1, <1>6, <1>9, <1>15, <2>1, <2>3, <2>4, <2>5 DEF InTurn
  <2>7. Rising(replies') /\ Precedes(ToSet(replies'), Texts(rest, TRUE) \cup ToSet(pane.pending) \cup Later)
    <3>1. CASE Answers(w.text) = <<>>
      <4>1. ToSet(replies') = ToSet(replies)
        BY <1>10, <3>1, NoneIn
      <4>2. Rising(replies')
        <5>1. Rising(<<>>) /\ Precedes(ToSet(replies), ToSet(<<>>))
          BY NoneIn DEF Precedes
        <5> QED
          BY <1>10, <2>2, <3>1, <5>1
      <4>3. Precedes(ToSet(replies'), Texts(rest, TRUE) \cup ToSet(pane.pending) \cup Later)
        BY <1>3, <2>2, <4>1 DEF Precedes
      <4> QED
        BY <4>2, <4>3
    <3>2. CASE ~pane.replaying /\ Answers(w.text) = w.text
      <4>1. w.live
        BY <1>3, <2>2, <3>2
      <4>2. Precedes(ToSet(replies), ToSet(w.text))
        BY <1>3, <2>2, <4>1 DEF Precedes
      <4>3. Rising(replies')
        BY <1>10, <2>2, <2>3, <3>2, <4>2
      <4>4. Precedes(ToSet(w.text), Texts(rest, TRUE) \cup ToSet(pane.pending) \cup Later)
        BY <1>3, <1>4, <2>1, <2>3 DEF Precedes
      <4>5. Precedes(ToSet(replies'), Texts(rest, TRUE) \cup ToSet(pane.pending) \cup Later)
        BY <1>3, <1>10, <2>2, <3>2, <4>4 DEF Precedes
      <4> QED
        BY <4>3, <4>5
    <3> QED
      BY <1>8, <3>1, <3>2
  <2>8. pane'.replaying \/ \A i \in DOMAIN rest : rest[i].live
    <3>1. CASE w.live
      BY <1>3, <1>6, <2>2, <3>1
    <3>2. CASE ~w.live
      BY <1>3, <1>6, <3>2
    <3> QED
      BY <3>1, <3>2
  <2>9. Replied'
    BY <1>1, <1>6, <1>15, <2>7, <2>8 DEF Replied
  <2> QED
    BY <2>6, <2>9
<1>17. again => InTurn' /\ Replied'
  BY <1>1 DEF InTurn, Replied
<1> QED
  BY <1>11, <1>12, <1>13, <1>14, <1>16, <1>17 DEF OutputInv

\* Every step of the output keeps the invariant.
LEMMA OutputKept == OutputInv /\ [OutputNext]_outputVars => OutputInv'
<1> SUFFICES ASSUME OutputInv, [OutputNext]_outputVars
             PROVE  OutputInv'
  OBVIOUS
<1>1. CASE UNCHANGED outputVars
  <2>1. OutputTypes'
    BY <1>1 DEF outputVars, OutputInv, OutputTypes, Sent
  <2>2. Timed' /\ ChunksFit'
    BY <1>1 DEF outputVars, OutputInv, Timed, WaitingIsScheduled, Comes, ChunksFit, Unmounted
  <2>3. Accounted'
    BY <1>1 DEF outputVars, OutputInv, Accounted, Sent, Unseen
  <2>4. InTurn' /\ Replied'
    BY <1>1 DEF outputVars, OutputInv, InTurn, Replied, Coming, Later
  <2> QED
    BY <2>1, <2>2, <2>3, <2>4 DEF OutputInv
<1> QED
  BY <1>1, EmitKeeps, DisconnectKeeps, FlushSnapshotsKeeps, VisibilityChangeKeeps,
     StatusChangeKeeps, ReadSnapshotKeeps, TakeSnapshotKeeps, RenderFirstKeeps,
     RenderChunkKeeps, RenderQuietKeeps, RenderResetKeeps, ClearKeeps, RemountKeeps,
     FlushOutputKeeps, ParseKeeps
  DEF OutputNext

\* The invariant gives what the reader of the screen relies on.
LEMMA OutputInvSound == OutputInv => OutputSound
<1> SUFFICES ASSUME OutputInv
             PROVE  OutputSound
  OBVIOUS
<1>1. \A s \in Seq(Sent) : Rising(s) => Increasing(s)
  <2> SUFFICES ASSUME NEW s \in Seq(Sent), Rising(s), NEW i \in 1..(Len(s) - 1)
               PROVE  s[i] < s[i + 1]
    BY DEF Increasing
  <2>1. Len(s) \in Nat /\ DOMAIN s = 1..Len(s)
    OBVIOUS
  <2>2. i \in 1..Len(s) /\ i + 1 \in 1..Len(s) /\ i < i + 1
    BY <2>1
  <2> QED
    BY <2>1, <2>2 DEF Rising
<1>2. ShownInOrder /\ AnsweredOnce
  BY <1>1 DEF OutputInv, OutputTypes, InTurn, Replied, ShownInOrder, AnsweredOnce
<1>3. WaitingIsScheduled
  BY DEF OutputInv, Timed
<1>4. MissingIsTold
  <2> SUFFICES ASSUME AtRest
               PROVE  Sent \subseteq ToSet(screen) \cup told \cup pane.drop \cup gone
    BY DEF MissingIsTold, Sent
  <2>1. /\ ToSet(held.chunk) = {} /\ held.drop = {} /\ ToSet(pane.pending) = {} /\ Unseen = {}
        /\ Texts(writes, FALSE) = {}
    BY NoneIn, NoWrites DEF AtRest, NothingHeld, Unseen
  <2>2. pane.ready
    BY DEF AtRest, OutputInv, ChunksFit
  <2> QED
    BY <2>1, <2>2 DEF OutputInv, Accounted
<1> QED
  BY <1>2, <1>3, <1>4 DEF OutputSound

\* Whatever batches, frames, timers and snapshots do, a terminal's output comes to the
\* screen in the order it was sent, each character once unless a chunk was taken twice or
\* a reset came between; what is missing is told; a query is answered once; and what
\* waits is going to be flushed.
THEOREM OutputIsSound == OutputSpec => []OutputSound
<1>1. OutputInit => OutputInv
  BY OutputBegins
<1>2. OutputInv /\ [OutputNext]_outputVars => OutputInv'
  BY OutputKept
<1>3. OutputInv => OutputSound
  BY OutputInvSound
<1> QED
  BY <1>1, <1>2, <1>3, PTL DEF OutputSpec

-----------------------------------------------------------------------------
(* How the terminals of a page share it (SplitGrid).                       *)

\* The paths of a layout: which half is taken at each branch.
Path == Seq({0, 1})

\* Leaf r stands in the other half of the branch that q leaves at its step k.
Turns(q, r, k) == k <= Len(r) /\ r[k] # q[k] /\ \A i \in 1 .. k - 1 : r[i] = q[i]

\* Node p is on the way to q.
Under(p, q) == Len(p) <= Len(q) /\ \A i \in 1 .. Len(p) : q[i] = p[i]

\* D is the set of leaves of a binary tree: none is below another, and each
\* branch on the way to a leaf has a leaf in its other half.
TreeOK(D) ==
    /\ IsFiniteSet(D) /\ D \subseteq Path
    /\ \A p, q \in D : Under(p, q) => p = q
    /\ \A q \in D : \A k \in 1 .. Len(q) : \E r \in D : Turns(q, r, k)

\* A layout the panel can draw, with shares the dividers can be dragged to.
LayoutOK(l) ==
    /\ l = [leaf |-> l.leaf, ratio |-> l.ratio]
    /\ TreeOK(DOMAIN l.leaf) /\ Cardinality(DOMAIN l.leaf) <= MaxGridPanes
    /\ \A p \in DOMAIN l.ratio : l.ratio[p] \in 10 .. 90

\* A leaf lies no deeper than there are other leaves.
LEMMA Depth ==
    ASSUME NEW D, TreeOK(D), NEW q \in D
    PROVE  Len(q) \in Nat /\ Cardinality(D) \in Nat /\ Len(q) < Cardinality(D)
<1> DEFINE side == [k \in 1 .. Len(q) |-> CHOOSE r \in D : Turns(q, r, k)]
           other == D \ {q}
<1>1. q \in Path /\ Len(q) \in Nat
  BY DEF TreeOK, Path
<1>2. \A k \in 1 .. Len(q) : side[k] \in D /\ Turns(q, side[k], k)
  BY DEF TreeOK
<1> HIDE DEF side
<1>3. \A k \in 1 .. Len(q) : side[k] \in other
  BY <1>2 DEF Turns
<1>4. ASSUME NEW j \in 1 .. Len(q), NEW k \in 1 .. Len(q), j < k
      PROVE  side[j] # side[k]
  <2>1. j \in 1 .. k - 1
    BY <1>1, <1>4
  <2>2. side[k][j] = q[j] /\ side[j][j] # q[j]
    BY <1>2, <2>1 DEF Turns
  <2>3. QED
    BY <2>2
<1>5. \A j, k \in 1 .. Len(q) : side[j] = side[k] => j = k
  BY <1>1, <1>4
<1>6. side \in [1 .. Len(q) -> other]
  BY <1>3 DEF side
<1>7. side \in Injection(1 .. Len(q), other)
  BY <1>5, <1>6 DEF Injection, IsInjective
<1>8. IsFiniteSet(D) /\ IsFiniteSet(other) /\ Cardinality(other) = Cardinality(D) - 1
  BY FS_RemoveElement DEF TreeOK
<1>9. Cardinality(1 .. Len(q)) <= Cardinality(other)
  BY <1>7, <1>8, FS_Injection, Zenon
<1>10. Cardinality(1 .. Len(q)) = Len(q)
  BY <1>1, FS_Interval, SMTT(30)
<1>11. Cardinality(D) \in Nat
  BY <1>8, FS_CardinalityType
<1>12. QED
  BY <1>1, <1>8, <1>9, <1>10, <1>11

\* What is accepted of a layout.
LEMMA LayoutAccepted ==
    ASSUME NEW l, LayoutOK(l)
    PROVE  Accepted(l)
<1>1. \A p \in DOMAIN l.leaf : Len(p) <= MaxGridPanes
  <2>1. SUFFICES ASSUME NEW p \in DOMAIN l.leaf PROVE Len(p) <= MaxGridPanes
    OBVIOUS
  <2>2. Len(p) \in Nat /\ Cardinality(DOMAIN l.leaf) \in Nat /\ Len(p) < Cardinality(DOMAIN l.leaf)
    BY <2>1, Depth DEF LayoutOK
  <2>3. QED
    BY <2>2, GridAssumption DEF LayoutOK
<1>2. \A p \in DOMAIN l.ratio : 10 <= l.ratio[p] /\ l.ratio[p] <= 90
  BY DEF LayoutOK
<1>3. Cardinality(DOMAIN l.leaf) <= MaxGridPanes
  BY DEF LayoutOK
<1>4. QED
  BY <1>1, <1>2, <1>3, Zenon DEF Accepted

\* A path with one more step.
LEMMA Longer ==
    ASSUME NEW p \in Path, NEW b \in {0, 1}
    PROVE  /\ p \o <<b>> \in Path /\ Len(p) \in Nat /\ Len(p \o <<b>>) = Len(p) + 1
           /\ (p \o <<b>>)[Len(p) + 1] = b /\ \A i \in 1 .. Len(p) : (p \o <<b>>)[i] = p[i]
<1>1. p \in Seq({0, 1}) /\ <<b>> \in Seq({0, 1}) /\ Len(<<b>>) = 1
  BY DEF Path
<1>2. /\ p \o <<b>> \in Seq({0, 1}) /\ Len(p \o <<b>>) = Len(p) + Len(<<b>>)
      /\ \A i \in 1 .. Len(p) + Len(<<b>>) : (p \o <<b>>)[i] = IF i <= Len(p) THEN p[i] ELSE <<b>>[i - Len(p)]
  BY <1>1, ConcatProperties, Zenon
<1> DEFINE q == p \o <<b>>
<1>3. /\ q \in Seq({0, 1}) /\ Len(q) = Len(p) + Len(<<b>>)
      /\ \A i \in 1 .. Len(p) + Len(<<b>>) : q[i] = IF i <= Len(p) THEN p[i] ELSE <<b>>[i - Len(p)]
  BY <1>2
<1> HIDE DEF q
<1>4. q[Len(p) + 1] = b /\ \A i \in 1 .. Len(p) : q[i] = p[i]
  BY <1>1, <1>3
<1>5. QED
  BY <1>1, <1>3, <1>4 DEF q, Path

\* A leaf that becomes a branch of two.
LEMMA SplitTree ==
    ASSUME NEW D, TreeOK(D), NEW p \in D
    PROVE  LET E == (D \ {p}) \cup {p \o <<0>>, p \o <<1>>}
           IN  TreeOK(E) /\ Cardinality(E) <= Cardinality(D) + 1
<1> DEFINE a == p \o <<0>>
           b == p \o <<1>>
           E == (D \ {p}) \cup {a, b}
<1>1. /\ IsFiniteSet(D) /\ D \subseteq Path
      /\ \A r, q \in D : Under(r, q) => r = q
      /\ \A q \in D : \A k \in 1 .. Len(q) : \E r \in D : Turns(q, r, k)
  BY DEF TreeOK
<1>2. /\ a \in Path /\ b \in Path /\ Len(p) \in Nat /\ Len(a) = Len(p) + 1 /\ Len(b) = Len(p) + 1
      /\ a[Len(p) + 1] = 0 /\ b[Len(p) + 1] = 1 /\ \A i \in 1 .. Len(p) : a[i] = p[i] /\ b[i] = p[i]
  <2>1. p \in Path
    BY <1>1
  <2>2. QED
    BY <2>1, Longer
<1> HIDE DEF a, b
<1>3. \A q \in Path : Len(q) \in Nat
  BY DEF Path
<1>4. IsFiniteSet(E) /\ Cardinality(E) <= Cardinality(D) + 1
  <2>1. IsFiniteSet(D \ {p}) /\ Cardinality(D \ {p}) = Cardinality(D) - 1 /\ Cardinality(D) \in Nat
    BY <1>1, FS_RemoveElement, FS_CardinalityType
  <2> DEFINE F == (D \ {p}) \cup {a}
  <2>2. IsFiniteSet(F) /\ Cardinality(F) \in Nat /\ Cardinality(F) <= Cardinality(D)
    <3>1. IsFiniteSet(F) /\ Cardinality(F) = IF a \in D \ {p} THEN Cardinality(D \ {p}) ELSE Cardinality(D \ {p}) + 1
      BY <2>1, FS_AddElement, Zenon
    <3>2. Cardinality(F) \in Nat
      BY <3>1, FS_CardinalityType
    <3> HIDE DEF F
    <3>3. QED
      BY <2>1, <3>1, <3>2
  <2>3. E = F \cup {b}
    OBVIOUS
  <2> HIDE DEF E, F
  <2>4. IsFiniteSet(E) /\ Cardinality(E) = IF b \in F THEN Cardinality(F) ELSE Cardinality(F) + 1
    BY <2>2, <2>3, FS_AddElement, Zenon
  <2>5. QED
    BY <2>1, <2>2, <2>4
<1>5. ASSUME NEW r \in E, NEW q \in E, Under(r, q)
      PROVE  r = q
  <2>1. CASE r \in D \ {p} /\ q \in D \ {p}
    BY <1>1, <1>5, <2>1
  <2>2. CASE r \in D \ {p} /\ q \in {a, b}
    <3>1. Len(r) \in Nat /\ Len(r) <= Len(p) + 1 /\ \A i \in 1 .. Len(r) : q[i] = r[i]
      BY <1>1, <1>2, <1>3, <1>5, <2>2 DEF Under
    <3>2. CASE Len(r) <= Len(p)
      <4>1. Under(r, p)
        BY <1>2, <2>2, <3>1, <3>2 DEF Under
      <4>2. QED
        BY <1>1, <2>2, <4>1
    <3>3. CASE Len(r) = Len(p) + 1
      <4>1. Under(p, r)
        BY <1>2, <2>2, <3>1, <3>3 DEF Under
      <4>2. QED
        BY <1>1, <2>2, <4>1
    <3>4. QED
      BY <1>2, <3>1, <3>2, <3>3
  <2>3. CASE r \in {a, b} /\ q \in D \ {p}
    <3>1. Under(p, q)
      BY <1>1, <1>2, <1>3, <1>5, <2>3 DEF Under
    <3>2. QED
      BY <1>1, <2>3, <3>1
  <2>4. CASE r \in {a, b} /\ q \in {a, b}
    <3>1. Len(p) + 1 \in 1 .. Len(r) /\ q[Len(p) + 1] = r[Len(p) + 1]
      BY <1>2, <1>5, <2>4 DEF Under
    <3>2. QED
      BY <1>2, <2>4, <3>1
  <2>5. QED
    BY <2>1, <2>2, <2>3, <2>4
<1>6. ASSUME NEW q \in E, NEW k \in 1 .. Len(q)
      PROVE  \E r \in E : Turns(q, r, k)
  <2>1. CASE q \in D \ {p}
    <3>1. PICK r \in D : Turns(q, r, k)
      BY <1>1, <1>6, <2>1
    <3>2. CASE r = p
      <4>1. Turns(q, a, k)
        BY <1>1, <1>2, <1>3, <1>6, <2>1, <3>1, <3>2 DEF Turns
      <4>2. QED
        BY <4>1
    <3>3. CASE r # p
      BY <3>1, <3>3
    <3>4. QED
      BY <3>2, <3>3
  <2>2. CASE q \in {a, b}
    <3>1. CASE k = Len(p) + 1
      <4>1. Turns(a, b, k) /\ Turns(b, a, k)
        BY <1>2, <3>1 DEF Turns
      <4>2. QED
        BY <2>2, <4>1
    <3>2. CASE k # Len(p) + 1
      <4>1. k \in 1 .. Len(p)
        BY <1>2, <1>6, <2>2, <3>2
      <4>2. PICK r \in D : Turns(p, r, k)
        BY <1>1, <4>1
      <4>3. r \in D \ {p}
        BY <4>2 DEF Turns
      <4>4. Turns(q, r, k)
        BY <1>2, <2>2, <4>1, <4>2 DEF Turns
      <4>5. QED
        BY <4>3, <4>4
    <3>3. QED
      BY <3>1, <3>2
  <2>3. QED
    BY <2>1, <2>2
<1>7. E \subseteq Path
  BY <1>1, <1>2
<1> HIDE DEF E
<1>8. TreeOK(E)
  BY <1>4, <1>5, <1>6, <1>7 DEF TreeOK
<1>9. QED
  BY <1>4, <1>8 DEF E, a, b
\* A path is a finite sequence of turns.
LEMMA PathsType ==
    ASSUME NEW q \in Path
    PROVE  Len(q) \in Nat /\ \A i \in 1 .. Len(q) : q[i] \in {0, 1}
BY DEF Path

\* The prefix of the library and being below a node are the same for paths.
LEMMA PrefixIsUnder ==
    ASSUME NEW p \in Path, NEW q \in Path
    PROVE  IsPrefix(p, q) <=> Under(p, q)
<1>1. Len(p) \in Nat /\ Len(q) \in Nat
  BY PathsType
<1>2. CASE Len(p) <= Len(q)
  <2> DEFINE a == SubSeq(p, 1, Len(p))
             b == SubSeq(q, 1, Len(p))
  <2>1. /\ a \in Path /\ Len(a) = Len(p) /\ \A i \in 1 .. Len(p) : a[i] = p[i]
    BY <1>1 DEF Path
  <2>2. /\ b \in Path /\ Len(b) = Len(p) /\ \A i \in 1 .. Len(p) : b[i] = q[i]
    BY <1>1, <1>2 DEF Path
  <2>3. IsPrefix(p, q) <=> a = b
    BY <1>2 DEF IsPrefix
  <2> HIDE DEF a, b
  <2>4. a = b <=> \A i \in 1 .. Len(p) : q[i] = p[i]
    BY <2>1, <2>2 DEF Path
  <2>5. QED
    BY <1>2, <2>3, <2>4 DEF Under
<1>3. CASE ~(Len(p) <= Len(q))
  BY <1>3 DEF IsPrefix, Under
<1>4. QED
  BY <1>2, <1>3

\* The first steps of a path.
LEMMA FirstSteps ==
    ASSUME NEW q \in Path, NEW m \in Nat, m <= Len(q)
    PROVE  SubSeq(q, 1, m) \in Path /\ Len(SubSeq(q, 1, m)) = m /\ \A i \in 1 .. m : SubSeq(q, 1, m)[i] = q[i]
BY DEF Path

\* The last steps of a path.
LEMMA LastSteps ==
    ASSUME NEW q \in Path, NEW m \in Nat, m <= Len(q)
    PROVE  /\ SubSeq(q, m + 1, Len(q)) \in Path /\ Len(SubSeq(q, m + 1, Len(q))) = Len(q) - m
           /\ \A i \in 1 .. Len(q) - m : SubSeq(q, m + 1, Len(q))[i] = q[i + m]
BY DEF Path

\* Lifting takes the one step out that the removed branch was for, and leaves other paths
\* alone.
LEMMA Lifting ==
    ASSUME NEW branch \in Path, NEW other \in Path, Len(other) = Len(branch) + 1, NEW q \in Path
    PROVE  /\ Lifted(q, branch, other) \in Path
           /\ ~Under(other, q) => Lifted(q, branch, other) = q
           /\ Under(other, q) =>
                /\ Len(Lifted(q, branch, other)) = Len(q) - 1
                /\ \A i \in 1 .. Len(branch) : Lifted(q, branch, other)[i] = branch[i]
                /\ \A i \in Len(branch) + 1 .. Len(q) - 1 : Lifted(q, branch, other)[i] = q[i + 1]
<1> DEFINE rest == SubSeq(q, Len(other) + 1, Len(q))
           all  == branch \o rest
<1>1. Len(branch) \in Nat /\ Len(other) \in Nat /\ Len(q) \in Nat
  BY PathsType
<1>2. IsPrefix(other, q) <=> Under(other, q)
  BY PrefixIsUnder
<1>3. CASE ~Under(other, q)
  BY <1>2, <1>3 DEF Lifted
<1>4. CASE Under(other, q)
  <2>1. Len(other) <= Len(q)
    BY <1>4 DEF Under
  <2>2. /\ rest \in Path /\ Len(rest) = Len(q) - Len(other)
        /\ \A i \in 1 .. Len(q) - Len(other) : rest[i] = q[i + Len(other)]
    BY <1>1, <2>1, LastSteps
  <2> HIDE DEF rest
  <2>3. /\ all \in Seq({0, 1}) /\ Len(all) = Len(branch) + Len(rest)
        /\ \A i \in 1 .. Len(branch) + Len(rest) : all[i] = IF i <= Len(branch) THEN branch[i] ELSE rest[i - Len(branch)]
    <3>1. branch \in Seq({0, 1}) /\ rest \in Seq({0, 1})
      BY <2>2 DEF Path
    <3>2. QED
      BY <3>1, ConcatProperties, Zenon
  <2>4. Lifted(q, branch, other) = all
    BY <1>2, <1>4 DEF Lifted, rest
  <2> HIDE DEF all
  <2>5. Len(all) = Len(q) - 1
    BY <1>1, <2>1, <2>2, <2>3
  <2>6. \A i \in 1 .. Len(branch) : all[i] = branch[i]
    BY <1>1, <2>1, <2>2, <2>3
  <2>7. ASSUME NEW i \in Len(branch) + 1 .. Len(q) - 1
        PROVE  all[i] = q[i + 1]
    <3>1. i \in 1 .. Len(branch) + Len(rest) /\ i - Len(branch) \in 1 .. Len(q) - Len(other)
          /\ (i - Len(branch)) + Len(other) = i + 1 /\ ~(i <= Len(branch))
      BY <1>1, <2>1, <2>2, <2>7
    <3>2. QED
      BY <2>2, <2>3, <3>1
  <2>8. QED
    BY <1>4, <2>3, <2>4, <2>5, <2>6, <2>7 DEF Path
<1>5. QED
  BY <1>3, <1>4

\* The two halves of the last branch on the way to a leaf.
LEMMA Halves ==
    ASSUME NEW p \in Path, Len(p) > 0
    PROVE  /\ Front(p) \in Path /\ Len(Front(p)) = Len(p) - 1 /\ \A i \in 1 .. Len(p) - 1 : Front(p)[i] = p[i]
           /\ Last(p) = p[Len(p)] /\ 1 - Last(p) \in {0, 1} /\ 1 - Last(p) # Last(p)
<1>1. Len(p) \in Nat /\ p[Len(p)] \in {0, 1}
  BY PathsType
<1> DEFINE m == Len(p) - 1
<1>2. m \in Nat /\ m <= Len(p)
  BY <1>1
<1>3. Front(p) = SubSeq(p, 1, m)
  BY DEF Front
<1> HIDE DEF m
<1>4. Front(p) \in Path /\ Len(Front(p)) = m /\ \A i \in 1 .. m : Front(p)[i] = p[i]
  BY <1>2, <1>3, FirstSteps
<1>5. Last(p) = p[Len(p)]
  BY DEF Last
<1>6. QED
  BY <1>1, <1>4, <1>5 DEF m

\* When a pane is removed, its sibling takes the place of the branch: a tree with a leaf
\* less.
LEMMA RemoveTree ==
    ASSUME NEW D, TreeOK(D), D # {<<>>}, NEW p \in D
    PROVE  LET branch == Front(p)
               E == {Lifted(r, branch, branch \o <<1 - Last(p)>>) : r \in D \ {p}}
           IN  TreeOK(E) /\ Cardinality(E) <= Cardinality(D) - 1
<1> DEFINE branch == Front(p)
           other  == branch \o <<1 - Last(p)>>
           lift(q) == Lifted(q, branch, other)
           n == Len(p)
           rest == D \ {p}
           E == {lift(r) : r \in rest}
<1>1. /\ IsFiniteSet(D) /\ D \subseteq Path
      /\ \A r, q \in D : Under(r, q) => r = q
      /\ \A q \in D : \A k \in 1 .. Len(q) : \E r \in D : Turns(q, r, k)
  BY DEF TreeOK
<1>2. \A q \in D : Len(q) \in Nat
  BY <1>1, PathsType
<1>3. n > 0
  <2>1. SUFFICES ASSUME n = 0 PROVE FALSE
    BY <1>2
  <2>2. p = <<>>
    BY <1>1, <2>1 DEF Path
  <2>3. \A q \in D : Under(p, q)
    BY <1>2, <2>1 DEF Under
  <2>4. D = {p}
    BY <1>1, <2>3
  <2>5. QED
    BY <2>2, <2>4
<1>4. /\ branch \in Path /\ Len(branch) = n - 1 /\ \A i \in 1 .. n - 1 : branch[i] = p[i]
      /\ Last(p) = p[n] /\ 1 - Last(p) \in {0, 1} /\ 1 - Last(p) # Last(p)
  BY <1>1, <1>3, Halves
<1>5. /\ other \in Path /\ Len(other) = n /\ other[n] = 1 - p[n] /\ \A i \in 1 .. n - 1 : other[i] = p[i]
  <2>1. /\ other \in Path /\ Len(other) = Len(branch) + 1
        /\ other[Len(branch) + 1] = 1 - Last(p) /\ \A i \in 1 .. Len(branch) : other[i] = branch[i]
    BY <1>4, Longer
  <2> HIDE DEF other, branch
  <2>2. QED
    BY <1>2, <1>4, <2>1
<1>6. ASSUME NEW q \in D
      PROVE  /\ lift(q) \in Path
             /\ ~Under(other, q) => lift(q) = q
             /\ Under(other, q) =>
                  /\ Len(lift(q)) = Len(q) - 1
                  /\ \A i \in 1 .. n - 1 : lift(q)[i] = p[i]
                  /\ \A i \in n .. Len(q) - 1 : lift(q)[i] = q[i + 1]
  <2> DEFINE l == lift(q)
  <2>1. q \in Path /\ branch \in Path /\ other \in Path /\ Len(other) = Len(branch) + 1
    BY <1>1, <1>2, <1>4, <1>5
  <2> HIDE DEF branch, other
  <2>2. /\ l \in Path
        /\ ~Under(other, q) => l = q
        /\ Under(other, q) =>
                /\ Len(l) = Len(q) - 1
                /\ \A i \in 1 .. Len(branch) : l[i] = branch[i]
                /\ \A i \in Len(branch) + 1 .. Len(q) - 1 : l[i] = q[i + 1]
    <3>1. /\ Lifted(q, branch, other) \in Path
          /\ ~Under(other, q) => Lifted(q, branch, other) = q
          /\ Under(other, q) =>
                /\ Len(Lifted(q, branch, other)) = Len(q) - 1
                /\ \A i \in 1 .. Len(branch) : Lifted(q, branch, other)[i] = branch[i]
                /\ \A i \in Len(branch) + 1 .. Len(q) - 1 : Lifted(q, branch, other)[i] = q[i + 1]
      BY <2>1, Lifting, Zenon
    <3>2. l = Lifted(q, branch, other)
      OBVIOUS
    <3> HIDE DEF l
    <3>3. QED
      BY <3>1, <3>2, Zenon
  <2> HIDE DEF l
  <2>3. Len(branch) = n - 1 /\ Len(branch) + 1 = n
    BY <1>2, <1>4
  <2>4. Under(other, q) => \A i \in 1 .. n - 1 : l[i] = p[i]
    BY <1>2, <1>4, <2>2, <2>3
  <2>5. Under(other, q) => \A i \in n .. Len(q) - 1 : l[i] = q[i + 1]
    BY <2>2, <2>3
  <2>6. QED
    BY <2>2, <2>4, <2>5 DEF l
<1> HIDE DEF branch, other
<1> HIDE DEF lift
<1>7. n \in Nat /\ p[n] \in {0, 1} /\ \A q \in D : \A i \in 1 .. Len(q) : q[i] \in {0, 1}
  BY <1>1, <1>2, <1>3, PathsType
\* Beside p, nothing but the other half is below its branch.
<1>8. ASSUME NEW r \in rest, Len(r) >= n, \A i \in 1 .. n - 1 : r[i] = p[i]
      PROVE  Under(other, r)
  <2>1. r[n] # p[n]
    <3>1. SUFFICES ASSUME r[n] = p[n] PROVE FALSE
      OBVIOUS
    <3>2. Under(p, r)
      BY <1>2, <1>7, <1>8, <3>1 DEF Under
    <3>3. QED
      BY <1>1, <3>2
  <2>2. r[n] \in {0, 1}
    BY <1>2, <1>3, <1>7, <1>8
  <2>3. r[n] = other[n]
    BY <1>5, <1>7, <2>1, <2>2
  <2>4. QED
    BY <1>2, <1>5, <1>7, <1>8, <2>3 DEF Under
<1>9. ASSUME NEW r \in rest
      PROVE  ~Under(r, p) /\ ~Under(p, r)
  BY <1>1
<1>10. ASSUME NEW r \in D, Under(other, r)
       PROVE  /\ Len(r) >= n /\ \A i \in 1 .. n - 1 : r[i] = p[i]
              /\ r[n] = other[n]
  BY <1>2, <1>3, <1>5, <1>7, <1>10 DEF Under
<1>11. PICK s \in rest : Under(other, s)
  <2>1. PICK s \in D : Turns(p, s, n)
    BY <1>1, <1>3, <1>7
  <2>2. s \in rest /\ Len(s) >= n /\ \A i \in 1 .. n - 1 : s[i] = p[i]
    BY <1>2, <1>7, <2>1 DEF Turns
  <2>3. QED
    BY <1>8, <2>2
<1>12. ASSUME NEW r \in rest, NEW q \in rest, Under(lift(r), lift(q))
       PROVE  r = q
  <2>1. Len(lift(r)) <= Len(lift(q)) /\ \A i \in 1 .. Len(lift(r)) : lift(q)[i] = lift(r)[i]
    BY <1>12 DEF Under
  <2>2. CASE Under(other, r) /\ Under(other, q)
    <3>1. Len(r) <= Len(q)
      BY <1>2, <1>6, <2>1, <2>2
    <3>2. ASSUME NEW i \in 1 .. Len(r)
          PROVE  q[i] = r[i]
      <4>1. CASE i < n
        BY <1>2, <1>7, <1>10, <2>2, <4>1
      <4>2. CASE i = n
        BY <1>10, <2>2, <4>2
      <4>3. CASE i > n
        <5>1. i - 1 \in n .. Len(r) - 1 /\ i - 1 \in n .. Len(q) - 1 /\ (i - 1) + 1 = i /\ i - 1 \in 1 .. Len(r) - 1
          BY <1>2, <1>3, <1>7, <3>1, <4>3
        <5>2. lift(r)[i - 1] = r[i] /\ lift(q)[i - 1] = q[i] /\ Len(lift(r)) = Len(r) - 1
          BY <1>6, <2>2, <5>1
        <5>3. QED
          BY <2>1, <5>1, <5>2
      <4>4. QED
        BY <1>2, <1>7, <4>1, <4>2, <4>3
    <3>3. Under(r, q)
      BY <3>1, <3>2 DEF Under
    <3>4. QED
      BY <1>1, <3>3
  <2>3. CASE Under(other, r) /\ ~Under(other, q)
    <3>1. lift(q) = q /\ Len(lift(r)) = Len(r) - 1 /\ Len(r) >= n /\ \A i \in 1 .. n - 1 : lift(r)[i] = p[i]
      BY <1>6, <1>10, <2>3
    <3>2. Len(q) >= n - 1 /\ \A i \in 1 .. n - 1 : q[i] = p[i]
      BY <1>2, <1>7, <2>1, <3>1
    <3>3. CASE Len(q) >= n
      BY <1>8, <2>3, <3>2, <3>3
    <3>4. CASE Len(q) = n - 1
      <4>1. Under(q, p)
        BY <1>7, <3>2, <3>4 DEF Under
      <4>2. QED
        BY <1>9, <4>1
    <3>5. QED
      BY <1>2, <1>7, <3>2, <3>3, <3>4
  <2>4. CASE ~Under(other, r) /\ Under(other, q)
    <3>1. lift(r) = r /\ Len(lift(q)) = Len(q) - 1 /\ Len(q) >= n /\ \A i \in 1 .. n - 1 : lift(q)[i] = p[i]
      BY <1>6, <1>10, <2>4
    <3>2. Len(r) \in Nat /\ \A i \in 1 .. Len(r) : i <= n - 1 => r[i] = p[i]
      BY <1>2, <1>7, <2>1, <3>1
    <3>3. CASE Len(r) >= n
      <4>1. \A i \in 1 .. n - 1 : r[i] = p[i]
        BY <1>7, <3>2, <3>3
      <4>2. QED
        BY <1>8, <2>4, <3>3, <4>1
    <3>4. CASE Len(r) < n
      <4>1. Under(r, p)
        BY <1>7, <3>2, <3>4 DEF Under
      <4>2. QED
        BY <1>9, <4>1
    <3>5. QED
      BY <1>7, <3>2, <3>3, <3>4
  <2>5. CASE ~Under(other, r) /\ ~Under(other, q)
    <3>1. Under(r, q)
      BY <1>6, <1>12, <2>5
    <3>2. QED
      BY <1>1, <3>1
  <2>6. QED
    BY <2>2, <2>3, <2>4, <2>5
<1>13. ASSUME NEW q \in rest, NEW k \in 1 .. Len(lift(q))
       PROVE  \E r \in rest : Turns(lift(q), lift(r), k)
  <2>1. CASE Under(other, q)
    <3>1. /\ Len(lift(q)) = Len(q) - 1 /\ Len(q) >= n
          /\ \A i \in 1 .. n - 1 : lift(q)[i] = p[i] /\ q[i] = p[i]
          /\ \A i \in n .. Len(q) - 1 : lift(q)[i] = q[i + 1]
      BY <1>6, <1>10, <2>1
    <3>2. CASE k < n
      <4>1. k \in 1 .. Len(q)
        BY <1>2, <1>7, <3>1, <3>2
      <4>2. PICK r \in D : Turns(q, r, k)
        BY <1>1, <4>1
      <4>3. k <= Len(r) /\ r[k] # q[k] /\ \A i \in 1 .. k - 1 : r[i] = q[i]
        BY <4>2 DEF Turns
      <4>4. q[k] = p[k] /\ k \in 1 .. n - 1
        BY <1>7, <3>1, <3>2, <4>1
      <4>5. r # p /\ ~Under(other, r)
        BY <1>10, <4>3, <4>4
      <4>6. lift(r) = r
        BY <1>6, <4>5
      <4>7. Turns(lift(q), r, k)
        <5>1. \A i \in 1 .. k - 1 : lift(q)[i] = q[i]
          <6>1. \A i \in 1 .. k - 1 : i \in 1 .. n - 1
            BY <1>7, <3>2, <4>1
          <6>2. QED
            BY <3>1, <6>1
        <5>2. lift(q)[k] = q[k]
          BY <3>1, <4>4
        <5>3. QED
          BY <4>3, <5>1, <5>2 DEF Turns
      <4>8. QED
        BY <4>5, <4>6, <4>7
    <3>3. CASE k >= n
      <4>1. k + 1 \in 1 .. Len(q) /\ k \in n .. Len(q) - 1 /\ k \in Nat
        BY <1>2, <1>7, <3>1, <3>3
      <4>2. PICK r \in D : Turns(q, r, k + 1)
        BY <1>1, <4>1
      <4>3. k + 1 <= Len(r) /\ r[k + 1] # q[k + 1] /\ \A i \in 1 .. k : r[i] = q[i]
        BY <4>1, <4>2 DEF Turns
      <4>4. Under(other, r)
        <5>1. Len(q) >= n /\ \A i \in 1 .. n : q[i] = other[i]
          BY <1>5, <2>1 DEF Under
        <5>2. QED
          BY <1>2, <1>5, <1>7, <3>3, <4>1, <4>3, <5>1 DEF Under
      <4>5. r # p
        BY <1>5, <1>7, <1>10, <4>4
      <4>6. /\ Len(lift(r)) = Len(r) - 1 /\ \A i \in 1 .. n - 1 : lift(r)[i] = p[i]
            /\ \A i \in n .. Len(r) - 1 : lift(r)[i] = r[i + 1]
        BY <1>6, <4>4
      <4>7. k <= Len(lift(r)) /\ k \in n .. Len(r) - 1 /\ lift(r)[k] # lift(q)[k]
        BY <1>2, <1>7, <3>1, <4>1, <4>3, <4>6
      <4>8. ASSUME NEW i \in 1 .. k - 1
            PROVE  lift(r)[i] = lift(q)[i]
        <5>1. CASE i < n
          BY <1>7, <3>1, <4>6, <5>1
        <5>2. CASE i >= n
          <6>1. i \in n .. Len(r) - 1 /\ i \in n .. Len(q) - 1 /\ i + 1 \in 1 .. k
            BY <1>2, <1>7, <4>1, <4>7, <5>2
          <6>2. QED
            BY <3>1, <4>3, <4>6, <6>1
        <5>3. QED
          BY <1>7, <5>1, <5>2
      <4>9. QED
        BY <4>5, <4>7, <4>8 DEF Turns
    <3>4. QED
      BY <1>7, <3>2, <3>3
  <2>2. CASE ~Under(other, q)
    <3>1. lift(q) = q
      BY <1>6, <2>2
    <3>2. PICK r \in D : Turns(q, r, k)
      BY <1>1, <1>13, <3>1
    <3>3. k <= Len(r) /\ r[k] # q[k] /\ (\A i \in 1 .. k - 1 : r[i] = q[i]) /\ k \in 1 .. Len(q)
      BY <1>13, <3>1, <3>2 DEF Turns
    <3>4. ASSUME NEW t \in rest, Under(other, t), k < n, q[k] # p[k], \A i \in 1 .. k - 1 : p[i] = q[i]
          PROVE  Turns(q, lift(t), k)
      <4>1. Len(lift(t)) = Len(t) - 1 /\ Len(t) >= n /\ \A i \in 1 .. n - 1 : lift(t)[i] = p[i]
        BY <1>6, <1>10, <3>4
      <4>2. k \in 1 .. n - 1 /\ \A i \in 1 .. k - 1 : i \in 1 .. n - 1
        BY <1>7, <3>3, <3>4
      <4>3. k <= Len(lift(t))
        BY <1>2, <1>7, <4>1, <4>2
      <4>4. QED
        BY <3>4, <4>1, <4>2, <4>3 DEF Turns
    <3>5. CASE r = p
      <4>1. k # n
        <5>1. SUFFICES ASSUME k = n PROVE FALSE
          OBVIOUS
        <5>2. Len(q) >= n /\ \A i \in 1 .. n - 1 : q[i] = p[i]
          BY <1>2, <1>7, <3>3, <3>5, <5>1
        <5>3. QED
          BY <1>8, <2>2, <5>2
      <4>2. k < n
        BY <1>7, <3>3, <3>5, <4>1
      <4>3. q[k] # p[k] /\ \A i \in 1 .. k - 1 : p[i] = q[i]
        BY <3>3, <3>5
      <4>4. Turns(q, lift(s), k)
        BY <1>11, <3>4, <4>2, <4>3
      <4>5. QED
        BY <3>1, <4>4
    <3>6. CASE r # p /\ Under(other, r)
      <4>1. Len(r) >= n /\ (\A i \in 1 .. n - 1 : r[i] = p[i]) /\ r[n] = other[n]
        BY <1>10, <3>6
      <4>2. CASE k < n
        <5>1. q[k] # p[k] /\ \A i \in 1 .. k - 1 : p[i] = q[i]
          BY <1>7, <3>3, <4>1, <4>2
        <5>2. r \in rest
          BY <3>6
        <5>3. Turns(q, lift(r), k)
          BY <3>4, <3>6, <4>2, <5>1, <5>2
        <5>4. QED
          BY <3>1, <5>2, <5>3
      <4>3. CASE k >= n
        <5>1. Len(q) >= n /\ \A i \in 1 .. n - 1 : q[i] = p[i]
          BY <1>2, <1>7, <3>3, <4>1, <4>3
        <5>2. QED
          BY <1>8, <2>2, <5>1
      <4>4. QED
        BY <1>7, <3>3, <4>2, <4>3
    <3>7. CASE r # p /\ ~Under(other, r)
      <4>1. lift(r) = r
        BY <1>6, <3>7
      <4>2. QED
        BY <3>1, <3>2, <3>7, <4>1
    <3>8. QED
      BY <3>1, <3>5, <3>6, <3>7
  <2>3. QED
    BY <2>1, <2>2
<1>14. IsFiniteSet(E) /\ Cardinality(E) <= Cardinality(D) - 1
  <2> DEFINE f == [r \in rest |-> lift(r)]
  <2>1. f \in Surjection(rest, E)
    BY DEF Surjection
  <2>2. IsFiniteSet(rest) /\ Cardinality(rest) = Cardinality(D) - 1
    BY <1>1, FS_RemoveElement
  <2> HIDE DEF f, E, rest
  <2>3. IsFiniteSet(E) /\ Cardinality(E) <= Cardinality(rest)
    BY <2>1, <2>2, FS_Surjection, Zenon
  <2>4. QED
    BY <2>2, <2>3
<1>15. E \subseteq Path
  BY <1>6
<1>16. \A a, c \in E : Under(a, c) => a = c
  BY <1>12
<1>17. \A a \in E : \A k \in 1 .. Len(a) : \E c \in E : Turns(a, c, k)
  BY <1>13
<1> HIDE DEF E, rest
<1>18. TreeOK(E)
  BY <1>14, <1>15, <1>16, <1>17 DEF TreeOK
<1>19. QED
  BY <1>14, <1>18 DEF E, rest, lift, other, branch

\* The shape of the default layout.
ShapeOK(at, n) ==
    /\ DOMAIN at = 1 .. n /\ \A i, j \in 1 .. n : at[i] = at[j] => i = j
    /\ \A i \in 1 .. n : at[i] \in Path
    /\ \A i, j \in 1 .. n : Under(at[i], at[j]) => i = j
    /\ \A i \in 1 .. n : \A k \in 1 .. Len(at[i]) : \E j \in 1 .. n : Turns(at[i], at[j], k)

\* A shape lists the leaves of a tree.
LEMMA ShapeIsTree ==
    ASSUME NEW n \in Nat, NEW at, ShapeOK(at, n)
    PROVE  TreeOK(Range(at)) /\ Cardinality(Range(at)) <= n
<1>1. \A p \in Range(at) : \E i \in 1 .. n : p = at[i]
  BY DEF ShapeOK, Range
<1>2. \A i \in 1 .. n : at[i] \in Range(at)
  BY DEF ShapeOK, Range
<1> DEFINE f == [i \in 1 .. n |-> at[i]]
           D == Range(at)
<1> HIDE DEF D
<1>3. f \in Surjection(1 .. n, D)
  BY <1>1, <1>2 DEF Surjection, D
<1>4. IsFiniteSet(1 .. n) /\ Cardinality(1 .. n) = n
  BY FS_Interval
<1> HIDE DEF f
<1>5. IsFiniteSet(D) /\ Cardinality(D) <= Cardinality(1 .. n)
  BY <1>3, <1>4, FS_Surjection, Zenon
<1>6. D \subseteq Path
  BY <1>1 DEF ShapeOK, D
<1>7. ASSUME NEW p \in D, NEW q \in D, Under(p, q) PROVE p = q
  BY <1>1, <1>7 DEF ShapeOK, D
<1>8. ASSUME NEW q \in D, NEW k \in 1 .. Len(q) PROVE \E r \in D : Turns(q, r, k)
  <2>1. PICK i \in 1 .. n : q = at[i]
    BY <1>1 DEF D
  <2>2. PICK j \in 1 .. n : Turns(at[i], at[j], k)
    BY <2>1 DEF ShapeOK
  <2>3. QED
    BY <1>2, <2>1, <2>2 DEF D
<1>9. TreeOK(D)
  BY <1>5, <1>6, <1>7, <1>8 DEF TreeOK
<1>10. QED
  BY <1>4, <1>5, <1>9 DEF D

\* The default layouts for one, two, three and four panes are such shapes.
LEMMA DefaultShape ==
    ASSUME NEW n \in 1 .. 4
    PROVE  ShapeOK(DefaultLeaves(n), n)
<1>1. CASE n = 1
  <2> DEFINE at == <<<<>>>>
  <2>1. ShapeOK(at, 1)
    BY DEF ShapeOK, Path, Under, Turns
  <2>2. QED
    BY <1>1, <2>1 DEF DefaultLeaves
<1>2. CASE n = 2
  <2> DEFINE at == <<<<0>>, <<1>>>>
  <2>1. ShapeOK(at, 2)
    BY DEF ShapeOK, Path, Under, Turns
  <2>2. QED
    BY <1>2, <2>1 DEF DefaultLeaves
<1>3. CASE n = 3
  <2> DEFINE at == <<<<0>>, <<1, 0>>, <<1, 1>>>>
  <2>1. ShapeOK(at, 3)
    BY DEF ShapeOK, Path, Under, Turns
  <2>2. QED
    BY <1>3, <2>1 DEF DefaultLeaves
<1>4. CASE n = 4
  <2> DEFINE at == <<<<0, 0>>, <<0, 1>>, <<1, 0>>, <<1, 1>>>>
  <2>1. ShapeOK(at, 4)
    BY DEF ShapeOK, Path, Under, Turns
  <2>2. QED
    BY <1>4, <2>1 DEF DefaultLeaves
<1>5. QED
  BY <1>1, <1>2, <1>3, <1>4

\* The panes of a tab.
Distinct(ids) == \A i, j \in 1 .. Len(ids) : ids[i] = ids[j] => i = j
IdsOK(ids) == ids \in Seq(Nat) /\ Len(ids) \in 1 .. MaxGridPanes /\ Distinct(ids)

\* Every terminal has one leaf, and there are no others.
Fits(l, ids) ==
    /\ LayoutOK(l) /\ Cardinality(DOMAIN l.leaf) <= Len(ids) /\ PaneIds(l) = Range(ids)
    /\ \A p, q \in DOMAIN l.leaf : l.leaf[p] = l.leaf[q] => p = q

\* A tab has one to four panes.
LEMMA IdsCount ==
    ASSUME NEW ids, IdsOK(ids)
    PROVE  Len(ids) \in 1 .. 4 /\ Len(ids) \in Nat /\ Len(ids) <= MaxGridPanes
<1>1. Len(ids) \in 1 .. MaxGridPanes
  BY DEF IdsOK
<1>2. MaxGridPanes \in 1 .. 4
  BY GridAssumption
<1>3. \A n, m : m \in 1 .. 4 /\ n \in 1 .. m => n \in 1 .. 4 /\ n \in Nat /\ n <= m
  OBVIOUS
<1>4. QED
  BY <1>1, <1>2, <1>3, Zenon

\* The ids of the panes are as many as there are panes.
LEMMA IdsRange ==
    ASSUME NEW ids, IdsOK(ids)
    PROVE  /\ IsFiniteSet(Range(ids)) /\ Cardinality(Range(ids)) = Len(ids)
           /\ DOMAIN ids = 1 .. Len(ids) /\ Range(ids) = {ids[i] : i \in 1 .. Len(ids)}
<1>1. /\ Len(ids) \in Nat /\ DOMAIN ids = 1 .. Len(ids) /\ \A i, j \in 1 .. Len(ids) : ids[i] = ids[j] => i = j
  BY DEF IdsOK, Distinct
<1> DEFINE n == Len(ids)
           R == Range(ids)
           f == [i \in 1 .. n |-> ids[i]]
<1>2. R = {ids[i] : i \in 1 .. n}
  BY <1>1 DEF Range
<1>3. f \in Surjection(1 .. n, R) /\ f \in Injection(1 .. n, R)
  BY <1>1, <1>2 DEF Surjection, Injection, IsInjective
<1>4. IsFiniteSet(1 .. n) /\ Cardinality(1 .. n) = n
  BY <1>1, FS_Interval
<1> HIDE DEF f, R
<1>5. IsFiniteSet(R) /\ (Cardinality(R) = Cardinality(1 .. n) <=> f \in Injection(1 .. n, R))
  BY <1>3, <1>4, FS_Surjection, Zenon
<1>6. QED
  BY <1>1, <1>2, <1>3, <1>4, <1>5 DEF R

\* The default layout has one leaf for each pane.
LEMMA DefaultFits ==
    ASSUME NEW ids, IdsOK(ids)
    PROVE  Fits(Default(ids), ids)
<1> DEFINE n  == Len(ids)
           at == DefaultLeaves(n)
           D  == Range(at)
           l  == Default(ids)
           i(p) == CHOOSE k \in DOMAIN at : at[k] = p
<1>1. n \in 1 .. 4 /\ n \in Nat /\ n <= MaxGridPanes
  BY IdsCount
<1>2. ShapeOK(at, n)
  BY <1>1, DefaultShape
<1>3. TreeOK(D) /\ Cardinality(D) <= n
  BY <1>1, <1>2, ShapeIsTree
<1>4. DOMAIN at = 1 .. n /\ (\A j, k \in 1 .. n : at[j] = at[k] => j = k) /\ D = {at[j] : j \in 1 .. n}
  BY <1>2 DEF ShapeOK, Range
<1>5. l = [leaf |-> [p \in D |-> ids[i(p)]], ratio |-> [p \in DefaultBranches(n) |-> 50]]
  BY DEF Default
<1> HIDE DEF at, l
<1>6. \A p \in D : i(p) \in 1 .. n /\ at[i(p)] = p
  BY <1>4
<1>7. \A k \in 1 .. n : i(at[k]) = k /\ at[k] \in D
  BY <1>4, <1>6
<1> HIDE DEF i, D
<1>8. /\ l = [leaf |-> l.leaf, ratio |-> l.ratio] /\ DOMAIN l.leaf = D /\ (\A p \in D : l.leaf[p] = ids[i(p)])
      /\ \A p \in DOMAIN l.ratio : l.ratio[p] \in 10 .. 90
  <2> DEFINE leaf == [p \in D |-> ids[i(p)]]
             ratio == [p \in DefaultBranches(n) |-> 50]
  <2>1. DOMAIN leaf = D /\ \A p \in D : leaf[p] = ids[i(p)]
    OBVIOUS
  <2>2. \A p \in DOMAIN ratio : ratio[p] \in 10 .. 90
    OBVIOUS
  <2>3. l = [leaf |-> leaf, ratio |-> ratio]
    BY <1>5
  <2> HIDE DEF leaf, ratio
  <2>4. l.leaf = leaf /\ l.ratio = ratio
    BY <2>3
  <2>5. QED
    BY <2>1, <2>2, <2>3, <2>4
<1>9. Range(ids) = {ids[k] : k \in 1 .. n} /\ \A j, k \in 1 .. n : ids[j] = ids[k] => j = k
  BY IdsRange DEF IdsOK, Distinct
<1>10. PaneIds(l) = Range(ids)
  BY <1>6, <1>7, <1>8, <1>9 DEF PaneIds
<1>11. \A p, q \in D : l.leaf[p] = l.leaf[q] => p = q
  BY <1>6, <1>8, <1>9
<1>12. Cardinality(D) <= MaxGridPanes
  <2>1. Cardinality(D) \in Nat
    BY <1>3, FS_CardinalityType DEF TreeOK
  <2>2. QED
    BY <1>1, <1>3, <2>1, GridAssumption
<1>13. QED
  BY <1>3, <1>8, <1>10, <1>11, <1>12 DEF Fits, LayoutOK, l

\* What is shown has one leaf for each pane, whatever layout is kept.
LEMMA ResolvedFits ==
    ASSUME NEW ids, IdsOK(ids), NEW l, LayoutOK(l)
    PROVE  Fits(Resolved(l, ids), ids)
<1>1. CASE Matches(l, ids)
  <2> DEFINE D == DOMAIN l.leaf
             R == Range(ids)
             f == [p \in D |-> l.leaf[p]]
  <2>1. IsFiniteSet(D) /\ Cardinality(D) = Len(ids) /\ R = {l.leaf[p] : p \in D}
    BY <1>1 DEF Matches, LayoutOK, TreeOK, PaneIds
  <2>2. IsFiniteSet(R) /\ Cardinality(R) = Len(ids)
    BY IdsRange
  <2> HIDE DEF R
  <2>3. f \in Surjection(D, R)
    BY <2>1 DEF Surjection
  <2> HIDE DEF f
  <2>4. f \in Injection(D, R)
    BY <2>1, <2>2, <2>3, FS_Surjection, Zenon
  <2>5. \A p, q \in D : f[p] = f[q] => p = q
    BY <2>4 DEF Injection, IsInjective
  <2>6. \A p, q \in D : l.leaf[p] = l.leaf[q] => p = q
    BY <2>5 DEF f
  <2>7. Cardinality(D) <= Len(ids)
    BY <2>1 DEF IdsOK
  <2>8. QED
    BY <1>1, <2>6, <2>7 DEF Fits, Resolved, Matches
<1>2. CASE ~Matches(l, ids)
  BY <1>2, DefaultFits DEF Resolved
<1>3. QED
  BY <1>1, <1>2

\* Having no layout is a layout.
LEMMA NoLayoutOK == LayoutOK(NoLayout)
<1>1. DOMAIN NoLayout.leaf = {} /\ DOMAIN NoLayout.ratio = {}
  BY DEF NoLayout
<1>2. TreeOK({}) /\ Cardinality({}) = 0
  BY FS_EmptySet DEF TreeOK
<1>3. 0 <= MaxGridPanes
  BY GridAssumption
<1>4. NoLayout = [leaf |-> NoLayout.leaf, ratio |-> NoLayout.ratio]
  BY DEF NoLayout
<1>5. QED
  BY <1>1, <1>2, <1>3, <1>4 DEF LayoutOK

\* Splitting a pane leaves a tree, with at most the panes a tab may have.
LEMMA SplitOK ==
    ASSUME NEW l, LayoutOK(l), Cardinality(DOMAIN l.leaf) < MaxGridPanes, NEW target, NEW new
    PROVE  LayoutOK(SplitLayout(l, target, new))
<1>1. CASE target \notin PaneIds(l)
  BY <1>1 DEF SplitLayout
<1>2. CASE target \in PaneIds(l)
  <2> DEFINE D == DOMAIN l.leaf
             p == PathOf(l, target)
             E == (D \ {p}) \cup {p \o <<0>>, p \o <<1>>}
             m == SplitLayout(l, target, new)
  <2>1. p \in D
    BY <1>2 DEF PathOf, PaneIds
  <2>2. TreeOK(D) /\ \A q \in DOMAIN l.ratio : l.ratio[q] \in 10 .. 90
    BY DEF LayoutOK
  <2> HIDE DEF p
  <2>3. TreeOK(E) /\ Cardinality(E) <= Cardinality(D) + 1
    BY <2>1, <2>2, SplitTree, Zenon
  <2>4. m = [leaf |-> [q \in E |-> IF q = p \o <<0>> THEN target ELSE IF q = p \o <<1>> THEN new ELSE l.leaf[q]],
             ratio |-> [q \in DOMAIN l.ratio \cup {p} |-> IF q = p THEN 50 ELSE l.ratio[q]]]
    BY <1>2 DEF SplitLayout, p
  <2> HIDE DEF E, m
  <2>5. DOMAIN m.leaf = E /\ m = [leaf |-> m.leaf, ratio |-> m.ratio] /\ \A q \in DOMAIN m.ratio : m.ratio[q] \in 10 .. 90
    BY <2>2, <2>4
  <2>6. Cardinality(E) <= MaxGridPanes
    <3>1. Cardinality(D) \in Nat /\ Cardinality(E) \in Nat
      BY <2>2, <2>3, FS_CardinalityType DEF TreeOK
    <3>2. QED
      BY <2>3, <3>1, GridAssumption
  <2>7. QED
    BY <2>3, <2>5, <2>6 DEF LayoutOK, m
<1>3. QED
  BY <1>1, <1>2

\* Removing a pane leaves a tree.
LEMMA RemoveOK ==
    ASSUME NEW l, LayoutOK(l), NEW id
    PROVE  LayoutOK(RemoveLayout(l, id))
<1>1. CASE id \notin PaneIds(l) \/ DOMAIN l.leaf = {<<>>}
  BY <1>1, NoLayoutOK DEF RemoveLayout
<1>2. CASE id \in PaneIds(l) /\ DOMAIN l.leaf # {<<>>}
  <2> DEFINE D == DOMAIN l.leaf
             p == PathOf(l, id)
             branch == Front(p)
             other  == branch \o <<1 - Last(p)>>
             lift(q) == Lifted(q, branch, other)
             rest(f) == DOMAIN f \ {p, branch}
             without(f) == [q \in {lift(r) : r \in rest(f)} |-> f[CHOOSE r \in rest(f) : lift(r) = q]]
             E == {lift(r) : r \in D \ {p}}
             m == RemoveLayout(l, id)
  <2>1. p \in D
    BY <1>2 DEF PathOf, PaneIds
  <2>2. TreeOK(D) /\ \A q \in DOMAIN l.ratio : l.ratio[q] \in 10 .. 90
    BY DEF LayoutOK
  <2>3. m = [leaf |-> without(l.leaf), ratio |-> without(l.ratio)]
    BY <1>2 DEF RemoveLayout
  <2> HIDE DEF p, m
  <2>4. TreeOK(E) /\ Cardinality(E) <= Cardinality(D) - 1
    BY <1>2, <2>1, <2>2, RemoveTree, Zenon
  <2>5. branch \notin D \/ branch = p
    <3>1. p \in Path /\ Len(p) \in Nat
      BY <2>1, <2>2, PathsType DEF TreeOK
    <3>2. CASE Len(p) > 0
      <4>1. branch \in Path /\ Len(branch) = Len(p) - 1 /\ \A i \in 1 .. Len(p) - 1 : branch[i] = p[i]
        BY <3>1, <3>2, Halves
      <4>2. Under(branch, p)
        BY <3>1, <4>1 DEF Under
      <4>3. QED
        BY <2>1, <2>2, <4>2 DEF TreeOK
    <3>3. CASE Len(p) = 0
      <4>1. \A q \in D : Under(p, q)
        BY <2>2, <3>3, PathsType DEF TreeOK, Under
      <4>2. D = {p}
        BY <2>1, <2>2, <4>1 DEF TreeOK
      <4>3. p = <<>>
        BY <3>1, <3>3 DEF Path
      <4>4. QED
        BY <1>2, <4>2, <4>3
    <3>4. QED
      BY <3>1, <3>2, <3>3
  <2> HIDE DEF branch, other
  <2>6. rest(l.leaf) = D \ {p}
    BY <2>5
  <2> HIDE DEF lift, rest
  <2>7. DOMAIN m.leaf = E /\ m = [leaf |-> m.leaf, ratio |-> m.ratio]
    BY <2>3, <2>6
  <2>8. \A q \in DOMAIN m.ratio : m.ratio[q] \in 10 .. 90
    <3>1. m.ratio = without(l.ratio)
      BY <2>3
    <3>2. SUFFICES ASSUME NEW q \in {lift(r) : r \in rest(l.ratio)} PROVE without(l.ratio)[q] \in 10 .. 90
      BY <3>1
    <3> DEFINE r == CHOOSE r \in rest(l.ratio) : lift(r) = q
    <3>3. r \in rest(l.ratio)
      BY <3>2
    <3>4. without(l.ratio)[q] = l.ratio[r]
      BY <3>2
    <3> HIDE DEF r
    <3>5. QED
      BY <2>2, <3>3, <3>4 DEF rest
  <2>9. Cardinality(E) <= MaxGridPanes
    <3>1. Cardinality(D) \in Nat /\ Cardinality(E) \in Nat
      BY <2>2, <2>4, FS_CardinalityType DEF TreeOK
    <3>2. Cardinality(D) <= MaxGridPanes
      BY DEF LayoutOK
    <3>3. QED
      BY <2>4, <3>1, <3>2, GridAssumption
  <2> HIDE DEF E
  <2>10. QED
    BY <2>4, <2>7, <2>8, <2>9 DEF LayoutOK, m
<1>3. QED
  BY <1>1, <1>2

\* Replacing a terminal leaves the tree as it is.
LEMMA ReplaceOK ==
    ASSUME NEW l, LayoutOK(l), NEW id, NEW new
    PROVE  LayoutOK(ReplaceLayout(l, id, new))
<1> DEFINE m == ReplaceLayout(l, id, new)
<1>1. m = [leaf |-> m.leaf, ratio |-> l.ratio] /\ DOMAIN m.leaf = DOMAIN l.leaf /\ m.ratio = l.ratio
  BY DEF LayoutOK, ReplaceLayout
<1> HIDE DEF m
<1>2. LayoutOK(m)
  BY <1>1 DEF LayoutOK
<1>3. QED
  BY <1>2 DEF m

\* Dragging a divider leaves its share between 10 and 90.
LEMMA RatioOK ==
    ASSUME NEW l, LayoutOK(l), NEW path, NEW r \in 0 .. 100
    PROVE  LayoutOK(RatioLayout(l, path, r))
<1> DEFINE m == RatioLayout(l, path, r)
<1>1. Clamp(r) \in 10 .. 90
  BY DEF Clamp
<1>2. /\ m = [leaf |-> m.leaf, ratio |-> m.ratio] /\ m.leaf = l.leaf
      /\ DOMAIN m.ratio = DOMAIN l.ratio
      /\ \A p \in DOMAIN l.ratio : m.ratio[p] = l.ratio[p] \/ m.ratio[p] = Clamp(r)
  BY DEF LayoutOK, RatioLayout
<1> HIDE DEF m
<1>3. LayoutOK(m)
  BY <1>1, <1>2 DEF LayoutOK
<1>4. QED
  BY <1>3 DEF m
GridInv ==
    /\ attached \in Nat /\ panes \in Seq(1 .. attached) /\ IdsOK(panes) /\ LayoutOK(layout)
    /\ replacing.new \in 0 .. attached
    /\ replacing.new # 0 => \A i \in 1 .. Len(panes) : panes[i] # replacing.new
    /\ \A c \in closings : /\ c.promoted \in 0 .. attached
                           /\ c.promoted # 0 => c.promoted # replacing.new

\* A tab begins with one pane and no layout.
LEMMA GridAtFirst ==
    ASSUME GridInit
    PROVE  GridInv
<1>1. panes \in Seq(1 .. 1) /\ Len(panes) = 1 /\ attached = 1 /\ closings = {} /\ replacing.new = 0
  BY DEF GridInit, NoReplace
<1>2. IdsOK(panes)
  BY <1>1, GridAssumption DEF IdsOK, Distinct
<1>3. QED
  BY <1>1, <1>2, NoLayoutOK DEF GridInv, GridInit

\* One more terminal at the end.
LEMMA AppendedIds ==
    ASSUME NEW n \in Nat, NEW ids \in Seq(1 .. n), IdsOK(ids), Len(ids) < MaxGridPanes
    PROVE  /\ Append(ids, n + 1) \in Seq(1 .. n + 1) /\ IdsOK(Append(ids, n + 1))
           /\ \A i \in 1 .. Len(Append(ids, n + 1)) : Append(ids, n + 1)[i] = n + 1
                 \/ \E j \in 1 .. Len(ids) : Append(ids, n + 1)[i] = ids[j]
<1> DEFINE s == Append(ids, n + 1)
<1>1. /\ s \in Seq(1 .. n + 1) /\ Len(s) = Len(ids) + 1 /\ s[Len(ids) + 1] = n + 1
      /\ \A i \in 1 .. Len(ids) : s[i] = ids[i] /\ ids[i] \in 1 .. n
  OBVIOUS
<1>2. Len(ids) \in Nat /\ Len(ids) >= 1
  BY DEF IdsOK
<1> HIDE DEF s
<1>3. s \in Seq(Nat)
  BY <1>1
<1>4. Len(s) \in 1 .. MaxGridPanes
  BY <1>1, <1>2, GridAssumption
<1>5. ASSUME NEW i \in 1 .. Len(s), NEW j \in 1 .. Len(s), s[i] = s[j]
      PROVE  i = j
  <2>1. CASE i \in 1 .. Len(ids) /\ j \in 1 .. Len(ids)
    BY <1>1, <1>5, <2>1 DEF IdsOK, Distinct
  <2>2. CASE i \in 1 .. Len(ids) /\ j = Len(ids) + 1
    BY <1>1, <1>5, <2>2
  <2>3. CASE i = Len(ids) + 1 /\ j \in 1 .. Len(ids)
    <3>1. s[j] = ids[j] /\ ids[j] \in 1 .. n /\ s[i] = n + 1
      BY <1>1, <2>3
    <3>2. QED
      BY <1>5, <3>1
  <2>4. QED
    BY <1>1, <1>2, <2>1, <2>2, <2>3
<1>6. ASSUME NEW i \in 1 .. Len(s)
      PROVE  s[i] = n + 1 \/ \E j \in 1 .. Len(ids) : s[i] = ids[j]
  <2>1. i = Len(ids) + 1 \/ i \in 1 .. Len(ids)
    BY <1>1, <1>2
  <2>2. QED
    BY <1>1, <2>1
<1>7. QED
  BY <1>1, <1>3, <1>4, <1>5, <1>6 DEF s, IdsOK, Distinct

\* A terminal in front of what is kept of the others.
Fronted(s, head, ids, n) ==
    /\ s \in Seq(1 .. n) /\ IdsOK(s)
    /\ \A i \in 1 .. Len(s) : s[i] = head \/ \E j \in 1 .. Len(ids) : s[i] = ids[j]

\* When another terminal comes to the front, the rest follow in their order.
LEMMA FrontedIds ==
    ASSUME NEW n \in Nat, NEW ids \in Seq(1 .. n), IdsOK(ids), NEW head \in 1 .. n, NEW left,
           head = left \/ head = ids[1]
    PROVE  LET others == Tail(ids)
               s == <<head>> \o Kept(others, {i \in DOMAIN others : others[i] # left})
           IN  Fronted(s, head, ids, n)
<1> DEFINE others == Tail(ids)
           P == {i \in DOMAIN others : others[i] # left}
           kept == Kept(others, P)
           one == <<head>>
           s == one \o kept
<1>1. ids # <<>> /\ Len(ids) \in Nat /\ Len(ids) >= 1 /\ Len(ids) <= MaxGridPanes
      /\ \A i, j \in 1 .. Len(ids) : ids[i] = ids[j] => i = j
  BY GridAssumption DEF IdsOK, Distinct
<1>2. others \in Seq(1 .. n) /\ Len(others) = Len(ids) - 1 /\ \A i \in 1 .. Len(others) : others[i] = ids[i + 1]
  BY <1>1
<1>3. \A p \in P : others[p] # left
  OBVIOUS
<1> HIDE DEF others, P
<1>4. kept \in Seq(1 .. n) /\ Len(kept) <= Len(others) /\ IsPartOf(kept, others, P)
  BY <1>2, KeptElements, KeptIsPart
<1> HIDE DEF kept
<1>5. one \in Seq(1 .. n) /\ Len(one) = 1 /\ one[1] = head
  OBVIOUS
<1> HIDE DEF one
<1>6. /\ s \in Seq(1 .. n) /\ Len(s) = Len(one) + Len(kept)
      /\ \A i \in 1 .. Len(one) + Len(kept) : s[i] = IF i <= Len(one) THEN one[i] ELSE kept[i - Len(one)]
  BY <1>4, <1>5, ConcatProperties, Zenon
<1> HIDE DEF s
<1>7. Len(kept) \in Nat /\ Len(s) = Len(kept) + 1 /\ s[1] = head
      /\ \A i \in 2 .. Len(s) : i - 1 \in 1 .. Len(kept) /\ s[i] = kept[i - 1]
  <2>1. Len(kept) \in Nat /\ Len(s) = Len(kept) + 1
    BY <1>4, <1>5, <1>6
  <2>2. \A i \in 1 .. Len(kept) + 1 : s[i] = IF i <= 1 THEN one[i] ELSE kept[i - 1]
    BY <1>5, <1>6, <2>1
  <2>3. s[1] = head
    BY <1>5, <2>1, <2>2
  <2>4. ASSUME NEW i \in 2 .. Len(s)
        PROVE  i - 1 \in 1 .. Len(kept) /\ s[i] = kept[i - 1]
    BY <2>1, <2>2
  <2>5. QED
    BY <2>1, <2>3, <2>4
<1>8. \A i \in 1 .. Len(kept) : \E p \in 2 .. Len(ids) : kept[i] = ids[p] /\ ids[p] # left
  <2>1. SUFFICES ASSUME NEW i \in 1 .. Len(kept) PROVE \E p \in 2 .. Len(ids) : kept[i] = ids[p] /\ ids[p] # left
    OBVIOUS
  <2>2. PICK p \in P \cap (1 .. Len(others)) : kept[i] = others[p]
    BY <1>4 DEF IsPartOf
  <2>3. p + 1 \in 2 .. Len(ids) /\ others[p] = ids[p + 1] /\ others[p] # left
    <3>1. p \in 1 .. Len(others) /\ Len(others) = Len(ids) - 1 /\ others[p] = ids[p + 1]
      BY <1>2, <2>2
    <3>2. p + 1 \in 2 .. Len(ids)
      BY <1>1, <3>1
    <3>3. QED
      BY <1>3, <2>2, <3>1, <3>2
  <2>4. QED
    BY <2>2, <2>3
<1>9. ASSUME NEW i \in 1 .. Len(kept), NEW j \in 1 .. Len(kept), i < j
      PROVE  kept[i] # kept[j]
  <2>1. PICK p \in P \cap (1 .. Len(others)) : \E r \in P \cap (1 .. Len(others)) :
          p < r /\ kept[i] = others[p] /\ kept[j] = others[r]
    BY <1>4, <1>9 DEF IsPartOf
  <2>2. PICK r \in P \cap (1 .. Len(others)) : p < r /\ kept[i] = others[p] /\ kept[j] = others[r]
    BY <2>1
  <2>3. others[p] = ids[p + 1] /\ others[r] = ids[r + 1] /\ p + 1 \in 1 .. Len(ids) /\ r + 1 \in 1 .. Len(ids)
    <3>1. p \in 1 .. Len(others) /\ r \in 1 .. Len(others) /\ Len(others) = Len(ids) - 1
      BY <1>2
    <3>2. p + 1 \in 1 .. Len(ids) /\ r + 1 \in 1 .. Len(ids)
      BY <1>1, <3>1
    <3>3. QED
      BY <1>2, <3>1, <3>2, Zenon
  <2>4. p + 1 # r + 1
    BY <2>2
  <2>5. QED
    BY <1>1, <2>2, <2>3, <2>4
<1>10. \A i \in 1 .. Len(kept) : kept[i] # head
  BY <1>1, <1>8
<1>11. Distinct(s)
  <2>1. ASSUME NEW i \in 1 .. Len(s), NEW j \in 1 .. Len(s), i < j
        PROVE  s[i] # s[j]
    <3>1. j \in 2 .. Len(s)
      BY <1>7, <2>1
    <3>2. CASE i = 1
      BY <1>7, <1>10, <3>1, <3>2
    <3>3. CASE i # 1
      <4>1. i \in 2 .. Len(s) /\ i - 1 < j - 1
        BY <1>7, <2>1, <3>3
      <4>2. QED
        BY <1>7, <1>9, <3>1, <4>1, SMTT(30)
    <3>4. QED
      BY <3>2, <3>3
  <2>2. QED
    BY <1>7, <2>1 DEF Distinct
<1>12. Len(s) \in 1 .. MaxGridPanes
  BY <1>1, <1>2, <1>4, <1>7, GridAssumption
<1>13. s \in Seq(Nat)
  BY <1>6
<1>14. ASSUME NEW i \in 1 .. Len(s)
       PROVE  s[i] = head \/ \E j \in 1 .. Len(ids) : s[i] = ids[j]
  <2>1. CASE i = 1
    BY <1>7, <2>1
  <2>2. CASE i # 1
    <3>1. i \in 2 .. Len(s)
      BY <1>7, <2>2
    <3>2. \E p \in 2 .. Len(ids) : s[i] = ids[p]
      BY <1>7, <1>8, <3>1
    <3>3. QED
      BY <3>2
  <2>3. QED
    BY <2>1, <2>2
<1>15. QED
  BY <1>6, <1>11, <1>12, <1>13, <1>14 DEF IdsOK, Fronted, s, one, kept, P, others

\* A terminal in the place of another.
LEMMA ReplacedIds ==
    ASSUME NEW n \in Nat, NEW ids \in Seq(1 .. n), IdsOK(ids), NEW old, NEW new \in 1 .. n,
           \A i \in 1 .. Len(ids) : ids[i] # new
    PROVE  LET s == [i \in DOMAIN ids |-> IF ids[i] = old THEN new ELSE ids[i]]
           IN  s \in Seq(1 .. n) /\ IdsOK(s)
<1> DEFINE s == [i \in DOMAIN ids |-> IF ids[i] = old THEN new ELSE ids[i]]
<1>1. DOMAIN ids = 1 .. Len(ids) /\ Len(ids) \in Nat /\ \A i \in 1 .. Len(ids) : ids[i] \in 1 .. n
  OBVIOUS
<1>2. s \in Seq(1 .. n) /\ Len(s) = Len(ids) /\ \A i \in 1 .. Len(ids) : s[i] = IF ids[i] = old THEN new ELSE ids[i]
  BY <1>1
<1> HIDE DEF s
<1>3. s \in Seq(Nat)
  BY <1>2
<1>4. Len(s) \in 1 .. MaxGridPanes /\ Distinct(s)
  BY <1>2 DEF IdsOK, Distinct
<1>5. QED
  BY <1>2, <1>3, <1>4 DEF s, IdsOK

\* Every step of the grid keeps panes distinct and the layout a tree.
LEMMA GridStep ==
    ASSUME GridInv, [GridNext]_gridVars
    PROVE  GridInv'
<1> DEFINE l == Resolved(layout, panes)
<1>1. /\ attached \in Nat /\ panes \in Seq(1 .. attached) /\ IdsOK(panes) /\ LayoutOK(layout)
      /\ replacing.new \in 0 .. attached
      /\ replacing.new # 0 => \A i \in 1 .. Len(panes) : panes[i] # replacing.new
      /\ \A c \in closings : /\ c.promoted \in 0 .. attached
                             /\ c.promoted # 0 => c.promoted # replacing.new
  BY DEF GridInv
<1>2. LayoutOK(l) /\ Cardinality(DOMAIN l.leaf) <= Len(panes) /\ Len(panes) \in Nat /\ Len(panes) >= 1
  BY <1>1, ResolvedFits DEF Fits, IdsOK
<1> HIDE DEF l
<1>3. CASE StartGridSplit \/ GridSplitFails \/ Focus \/ StartDrag \/ UNCHANGED gridVars
  BY <1>1, <1>3 DEF GridInv, StartGridSplit, GridSplitFails, Focus, StartDrag, gridVars
<1>4. CASE GridSplit
  <2>1. attached' = attached + 1 /\ UNCHANGED <<closings, replacing>>
    BY <1>4 DEF GridSplit
  <2>2. CASE panes' = Append(panes, attached + 1) /\ layout' = SplitLayout(l, splitting.target, attached')
             /\ Len(panes) < MaxGridPanes
    <3>1. /\ panes' \in Seq(1 .. attached + 1) /\ IdsOK(panes')
          /\ \A i \in 1 .. Len(panes') : panes'[i] = attached + 1 \/ \E j \in 1 .. Len(panes) : panes'[i] = panes[j]
      BY <1>1, <2>2, AppendedIds
    <3>2. Cardinality(DOMAIN l.leaf) < MaxGridPanes
      <4>1. Cardinality(DOMAIN l.leaf) \in Nat
        BY <1>2, FS_CardinalityType DEF LayoutOK, TreeOK
      <4>2. QED
        BY <1>2, <2>2, <4>1, GridAssumption
    <3>3. LayoutOK(layout')
      BY <1>2, <2>2, <3>2, SplitOK
    <3>4. ASSUME replacing.new # 0, NEW i \in 1 .. Len(panes')
          PROVE  panes'[i] # replacing.new
      <4>1. CASE panes'[i] = attached + 1
        BY <1>1, <4>1
      <4>2. CASE \E j \in 1 .. Len(panes) : panes'[i] = panes[j]
        BY <1>1, <3>4, <4>2
      <4>3. QED
        BY <3>1, <4>1, <4>2
    <3>5. QED
      BY <1>1, <2>1, <3>1, <3>3, <3>4 DEF GridInv, IdsOK, Distinct, LayoutOK, TreeOK
  <2>3. CASE UNCHANGED <<panes, layout>>
    <3>1. panes \in Seq(1 .. attached + 1)
      BY <1>1
    <3>2. QED
      BY <1>1, <2>1, <2>3, <3>1 DEF GridInv
  <2>4. QED
    BY <1>4, <2>1, <2>2, <2>3 DEF GridSplit, l
<1>5. CASE StartGridClose
  <2>1. PICK id \in Range(panes) :
          closings' = closings \cup {[id |-> id, promoted |-> IF id = panes[1] THEN panes[2] ELSE 0]}
    BY <1>5 DEF StartGridClose
  <2>2. Len(panes) > 1 /\ UNCHANGED <<panes, layout, attached, replacing>>
    BY <1>5 DEF StartGridClose
  <2> DEFINE c == [id |-> id, promoted |-> IF id = panes[1] THEN panes[2] ELSE 0]
  <2>3. panes[2] \in 1 .. attached /\ (replacing.new # 0 => panes[2] # replacing.new)
    BY <1>1, <2>2
  <2>4. c.promoted = 0 \/ c.promoted = panes[2]
    OBVIOUS
  <2> HIDE DEF c
  <2>5. closings' = closings \cup {c}
    BY <2>1 DEF c
  <2>6. \A x \in closings' : /\ x.promoted \in 0 .. attached
                             /\ x.promoted # 0 => x.promoted # replacing.new
    BY <1>1, <2>3, <2>4, <2>5
  <2>7. QED
    BY <1>1, <2>2, <2>6 DEF GridInv
<1>6. CASE GridClosed
  <2>1. PICK c \in closings : /\ closings' = closings \ {c} /\ panes' = WithoutGridPane(c)
                              /\ layout' = RemoveLayout(l, c.id)
    BY <1>6 DEF GridClosed, l
  <2>2. UNCHANGED <<attached, replacing>>
    BY <1>6 DEF GridClosed
  <2> DEFINE promotes == c.promoted # 0 /\ panes[1] = c.id
             left     == IF promotes THEN c.promoted ELSE c.id
             head     == IF promotes THEN c.promoted ELSE panes[1]
             others   == Tail(panes)
             s        == <<head>> \o Kept(others, {i \in DOMAIN others : others[i] # left})
  <2>3. panes' = s
    BY <2>1 DEF WithoutGridPane
  <2>4. panes[1] \in 1 .. attached /\ (replacing.new # 0 => panes[1] # replacing.new)
    BY <1>1, <1>2
  <2>5. head \in 1 .. attached /\ (head = left \/ head = panes[1]) /\ (replacing.new # 0 => head # replacing.new)
    BY <1>1, <2>4
  <2> HIDE DEF head, left
  <2>6. /\ s \in Seq(1 .. attached) /\ IdsOK(s)
        /\ \A i \in 1 .. Len(s) : s[i] = head \/ \E j \in 1 .. Len(panes) : s[i] = panes[j]
    <3>1. attached \in Nat /\ panes \in Seq(1 .. attached) /\ IdsOK(panes)
      BY <1>1
    <3>2. head \in 1 .. attached /\ (head = left \/ head = panes[1])
      BY <2>5
    <3> HIDE DEF s
    <3>3. \A n \in Nat : \A ids \in Seq(1 .. n) : \A h \in 1 .. n : \A g :
            IdsOK(ids) /\ (h = g \/ h = ids[1]) =>
              Fronted(<<h>> \o Kept(Tail(ids), {i \in DOMAIN Tail(ids) : Tail(ids)[i] # g}), h, ids, n)
      BY FrontedIds
    <3>4. Fronted(<<head>> \o Kept(Tail(panes), {i \in DOMAIN Tail(panes) : Tail(panes)[i] # left}), head, panes, attached)
      BY <3>1, <3>2, <3>3, Zenon
    <3>5. QED
      BY <3>4 DEF Fronted, s
  <2> HIDE DEF s
  <2>7. replacing.new # 0 => \A i \in 1 .. Len(s) : s[i] # replacing.new
    BY <1>1, <2>5, <2>6
  <2>8. LayoutOK(layout')
    BY <1>2, <2>1, RemoveOK
  <2>9. QED
    BY <1>1, <2>1, <2>2, <2>3, <2>6, <2>7, <2>8 DEF GridInv, IdsOK, Distinct, LayoutOK, TreeOK
<1>7. CASE GridCloseFails
  BY <1>1, <1>7 DEF GridInv, GridCloseFails
<1>8. CASE StartReplace
  BY <1>1, <1>8 DEF GridInv, StartReplace
<1>9. CASE ReplacementAttached
  <2>1. attached' = attached + 1 /\ UNCHANGED <<panes, layout, closings>>
    BY <1>9 DEF ReplacementAttached
  <2>2. replacing'.new = attached + 1 \/ replacing'.new = 0
    BY <1>9, <2>1 DEF ReplacementAttached, NoReplace
  <2>3. panes \in Seq(1 .. attached + 1) /\ \A i \in 1 .. Len(panes) : panes[i] # attached + 1
    BY <1>1
  <2>4. QED
    BY <1>1, <2>1, <2>2, <2>3 DEF GridInv
<1>10. CASE Replaced
  <2>1. /\ UNCHANGED <<attached, closings>> /\ replacing'.new = 0 /\ replacing.new # 0
        /\ panes' = [n \in DOMAIN panes |-> IF panes[n] = replacing.old THEN replacing.new ELSE panes[n]]
        /\ layout' = ReplaceLayout(l, replacing.old, replacing.new)
    BY <1>10 DEF Replaced, NoReplace, l
  <2>2. replacing.new \in 1 .. attached
    BY <1>1, <2>1
  <2>3. panes' \in Seq(1 .. attached) /\ IdsOK(panes')
    BY <1>1, <2>1, <2>2, ReplacedIds, ZenonT(30)
  <2>4. LayoutOK(layout')
    BY <1>2, <2>1, ReplaceOK
  <2>5. QED
    BY <1>1, <2>1, <2>3, <2>4 DEF GridInv, IdsOK, Distinct, LayoutOK, TreeOK
<1>11. CASE ReplaceFails
  BY <1>1, <1>11 DEF GridInv, ReplaceFails, NoReplace
<1>12. CASE EndDrag
  <2>1. PICK r \in Ratios : layout' = RatioLayout(l, dragging, r)
    BY <1>12 DEF EndDrag, l
  <2>2. r \in 0 .. 100
    BY GridAssumption
  <2>3. LayoutOK(layout')
    BY <1>2, <2>1, <2>2, RatioOK
  <2>4. QED
    BY <1>1, <1>12, <2>3 DEF GridInv, EndDrag, LayoutOK, TreeOK
<1>13. CASE MoveGrid
  <2>1. LayoutOK(layout')
    BY <1>1, <1>13, NoLayoutOK DEF MoveGrid
  <2>2. QED
    BY <1>1, <1>13, <2>1 DEF GridInv, MoveGrid, LayoutOK, TreeOK
<1>14. QED
  BY <1>3, <1>4, <1>5, <1>6, <1>7, <1>8, <1>9, <1>10, <1>11, <1>12, <1>13 DEF GridNext

\* For any sequence of splits, closes, replacements and drags, however they overlap with the
\* answers to them: every terminal of a page has one place in what is shown, and the kept
\* layout is one the panel accepts (terminalSplits.ts).
THEOREM GridIsSound == GridSpec => []GridSound
<1>1. GridInv => GridSound
  <2>1. SUFFICES ASSUME GridInv PROVE GridSound
    OBVIOUS
  <2>2. Fits(Resolved(layout, panes), panes) /\ Accepted(layout)
    BY <2>1, ResolvedFits, LayoutAccepted DEF GridInv
  <2>3. QED
    BY <2>2 DEF GridSound, PanesHaveAPlace, LayoutIsAccepted, Fits
<1>2. QED
  BY <1>1, GridAtFirst, GridStep, PTL DEF GridSpec

(* The tab bar of the main window (AppTabs).                               *)

\* In a list that has each of its elements once, of two of them one is before the other.
LEMMA BeforeIsAnOrder ==
    ASSUME NEW S, NEW s \in Seq(S), IsInjective(s)
    PROVE  /\ \A t, u : Before(s, t, u) => /\ t # u /\ t \in Range(s) /\ u \in Range(s)
                                           /\ ~Before(s, u, t)
           /\ \A t, u \in Range(s) : t # u => Before(s, t, u) \/ Before(s, u, t)
<1> DEFINE D == DOMAIN s
<1>1. D \subseteq Nat /\ \A i, j \in D : s[i] = s[j] => i = j
  <2>1. D = 1 .. Len(s) /\ Len(s) \in Nat
    OBVIOUS
  <2>2. QED
    BY <2>1 DEF IsInjective
<1>2. Range(s) = {s[i] : i \in D}
  BY DEF Range
<1>3. \A t, u : Before(s, t, u) <=> \E i, j \in D : i < j /\ s[i] = t /\ s[j] = u
  BY DEF Before
<1> HIDE DEF D
<1>4. ASSUME NEW t, NEW u, Before(s, t, u)
      PROVE  t # u /\ t \in Range(s) /\ u \in Range(s) /\ ~Before(s, u, t)
  <2>1. PICK i \in D, j \in D : i < j /\ s[i] = t /\ s[j] = u
    BY <1>3, <1>4
  <2>2. i # j /\ ~(j < i)
    BY <1>1, <2>1
  <2>3. t # u
    BY <1>1, <2>1, <2>2
  <2>4. ASSUME Before(s, u, t) PROVE FALSE
    <3>1. PICK k \in D, l \in D : k < l /\ s[k] = u /\ s[l] = t
      BY <1>3, <2>4
    <3>2. k = j /\ l = i
      BY <1>1, <2>1, <3>1
    <3>3. QED
      BY <2>2, <3>1, <3>2
  <2>5. QED
    BY <1>2, <2>1, <2>3, <2>4
<1>5. ASSUME NEW t \in Range(s), NEW u \in Range(s), t # u
      PROVE  Before(s, t, u) \/ Before(s, u, t)
  <2>1. PICK i \in D : s[i] = t
    BY <1>2
  <2>2. PICK j \in D : s[j] = u
    BY <1>2
  <2>3. i < j \/ j < i
    BY <1>1, <1>5, <2>1, <2>2
  <2>4. QED
    BY <1>3, <2>1, <2>2, <2>3
<1>6. QED
  BY <1>4, <1>5

\* What is before the other in a list is so in another one, if the other way round goes too.
LEMMA SameOrder ==
    ASSUME NEW S, NEW s \in Seq(S), NEW q \in Seq(S), IsInjective(s), IsInjective(q), NEW T,
           T \subseteq Range(s), T \subseteq Range(q),
           \A t, u \in T : Before(s, t, u) => Before(q, t, u)
    PROVE  \A t, u \in T : Before(s, t, u) <=> Before(q, t, u)
<1> SUFFICES ASSUME NEW t \in T, NEW u \in T, Before(q, t, u) PROVE Before(s, t, u)
  OBVIOUS
<1>1. t # u /\ ~Before(q, u, t)
  BY BeforeIsAnOrder
<1>2. Before(s, t, u) \/ Before(s, u, t)
  BY <1>1, BeforeIsAnOrder
<1>3. QED
  BY <1>1, <1>2

\* What is kept of a list with each element once has each once, in the order of the list.
LEMMA KeptOnce ==
    ASSUME NEW S, NEW s \in Seq(S), IsInjective(s), NEW P
    PROVE  /\ Kept(s, P) \in Seq(S) /\ IsInjective(Kept(s, P))
           /\ Range(Kept(s, P)) = {s[i] : i \in P \cap DOMAIN s}
           /\ \A t, u : Before(Kept(s, P), t, u) => Before(s, t, u)
<1> DEFINE q == Kept(s, P)
<1>1. q \in Seq(S) /\ IsPartOf(q, s, P)
  BY KeptElements
<1> HIDE DEF q
<1>2. DOMAIN q = 1 .. Len(q) /\ DOMAIN s = 1 .. Len(s) /\ Len(q) \in Nat /\ Len(s) \in Nat
  BY <1>1
<1>3. Range(q) = {s[i] : i \in P \cap DOMAIN s}
  <2>1. Range(q) \subseteq {s[i] : i \in P \cap DOMAIN s}
    BY <1>1, <1>2 DEF Range, IsPartOf
  <2>2. ASSUME NEW p \in P \cap DOMAIN s PROVE s[p] \in Range(q)
    <3>1. p \in P \cap (1 .. Len(s))
      BY <1>2
    <3>2. PICK i \in 1 .. Len(q) : q[i] = s[p]
      BY <1>1, <3>1 DEF IsPartOf
    <3>3. QED
      BY <1>2, <3>2 DEF Range
  <2>3. QED
    BY <2>1, <2>2
<1>4. ASSUME NEW i \in 1 .. Len(q), NEW j \in 1 .. Len(q), i < j
      PROVE  Before(s, q[i], q[j])
  <2>1. PICK p \in P \cap (1 .. Len(s)), r \in P \cap (1 .. Len(s)) :
           p < r /\ q[i] = s[p] /\ q[j] = s[r]
    BY <1>1, <1>4 DEF IsPartOf
  <2>2. QED
    BY <1>2, <2>1 DEF Before
<1>5. \A t, u : Before(q, t, u) => Before(s, t, u)
  BY <1>2, <1>4 DEF Before
<1>6. IsInjective(q)
  <2>1. ASSUME NEW i \in 1 .. Len(q), NEW j \in 1 .. Len(q), i < j, q[i] = q[j] PROVE FALSE
    <3>1. Before(s, q[i], q[i])
      BY <1>4, <2>1
    <3>2. QED
      BY <3>1, BeforeIsAnOrder
  <2>2. \A i, j \in 1 .. Len(q) : i = j \/ i < j \/ j < i
    BY <1>2
  <2>3. QED
    BY <1>2, <2>1, <2>2 DEF IsInjective
<1>7. QED
  BY <1>1, <1>3, <1>5, <1>6 DEF q

\* Those elements that are in T, once each and in their order.
LEMMA ThoseOnce ==
    ASSUME NEW S, NEW s \in Seq(S), IsInjective(s), NEW T
    PROVE  /\ Those(s, T) \in Seq(S) /\ IsInjective(Those(s, T))
           /\ Range(Those(s, T)) = Range(s) \cap T
           /\ \A t, u \in T : Before(s, t, u) <=> Before(Those(s, T), t, u)
<1> DEFINE P == {i \in DOMAIN s : s[i] \in T}
           q == Those(s, T)
<1>1. q = Kept(s, P)
  BY DEF Those
<1>2. {s[i] : i \in P \cap DOMAIN s} = Range(s) \cap T
  BY DEF Range
<1> HIDE DEF P, q
<1>3. /\ q \in Seq(S) /\ IsInjective(q) /\ Range(q) = Range(s) \cap T
      /\ \A t, u : Before(q, t, u) => Before(s, t, u)
  BY <1>1, <1>2, KeptOnce
<1>4. ASSUME NEW t \in T, NEW u \in T, Before(s, t, u) PROVE Before(q, t, u)
  <2>1. t # u /\ t \in Range(q) /\ u \in Range(q) /\ ~Before(s, u, t)
    BY <1>3, <1>4, BeforeIsAnOrder
  <2>2. Before(q, t, u) \/ Before(q, u, t)
    BY <1>3, <2>1, BeforeIsAnOrder
  <2>3. QED
    BY <1>3, <2>1, <2>2
<1>5. QED
  BY <1>3, <1>4 DEF q

\* The others, once each and in their order.
LEMMA OthersOnce ==
    ASSUME NEW S, NEW s \in Seq(S), IsInjective(s), NEW T
    PROVE  /\ Others(s, T) \in Seq(S) /\ IsInjective(Others(s, T))
           /\ Range(Others(s, T)) = Range(s) \ T
           /\ \A t, u : t \notin T /\ u \notin T => (Before(s, t, u) <=> Before(Others(s, T), t, u))
<1> DEFINE P == {i \in DOMAIN s : s[i] \notin T}
           q == Others(s, T)
<1>1. q = Kept(s, P)
  BY DEF Others
<1>2. {s[i] : i \in P \cap DOMAIN s} = Range(s) \ T
  BY DEF Range
<1> HIDE DEF P, q
<1>3. /\ q \in Seq(S) /\ IsInjective(q) /\ Range(q) = Range(s) \ T
      /\ \A t, u : Before(q, t, u) => Before(s, t, u)
  BY <1>1, <1>2, KeptOnce
<1>4. ASSUME NEW t, NEW u, t \notin T, u \notin T, Before(s, t, u) PROVE Before(q, t, u)
  <2>1. t # u /\ t \in Range(q) /\ u \in Range(q) /\ ~Before(s, u, t)
    BY <1>3, <1>4, BeforeIsAnOrder
  <2>2. Before(q, t, u) \/ Before(q, u, t)
    BY <1>3, <2>1, BeforeIsAnOrder
  <2>3. QED
    BY <1>3, <2>1, <2>2
<1>5. QED
  BY <1>3, <1>4 DEF q

\* Two lists that have nothing in common, one behind the other.
LEMMA JoinedOnce ==
    ASSUME NEW S, NEW s \in Seq(S), NEW q \in Seq(S), IsInjective(s), IsInjective(q),
           Range(s) \cap Range(q) = {}
    PROVE  /\ s \o q \in Seq(S) /\ IsInjective(s \o q) /\ Range(s \o q) = Range(s) \cup Range(q)
           /\ \A t, u : Before(s, t, u) \/ Before(q, t, u) => Before(s \o q, t, u)
           /\ \A t \in Range(s), u \in Range(q) : Before(s \o q, t, u)
<1> DEFINE m == Len(s)
           n == Len(q)
           r == s \o q
<1>1. /\ m \in Nat /\ n \in Nat /\ DOMAIN s = 1 .. m /\ DOMAIN q = 1 .. n
      /\ r \in Seq(S) /\ Len(r) = m + n /\ DOMAIN r = 1 .. (m + n)
      /\ \A i \in 1 .. m + n : r[i] = IF i <= m THEN s[i] ELSE q[i - m]
  <2>1. r \in Seq(S) /\ Len(r) = m + n
        /\ \A i \in 1 .. m + n : r[i] = IF i <= m THEN s[i] ELSE q[i - m]
    BY ConcatProperties
  <2>2. DOMAIN r = 1 .. Len(r)
    BY <2>1, LenProperties
  <2>3. QED
    BY <2>1, <2>2, LenProperties
<1> HIDE DEF m, n, r
<1>2. /\ \A i \in 1 .. m : i \in 1 .. m + n /\ r[i] = s[i]
      /\ \A j \in 1 .. n : j + m \in 1 .. m + n /\ r[j + m] = q[j]
      /\ \A i \in 1 .. m + n : i \in 1 .. m \/ (i - m \in 1 .. n /\ i = (i - m) + m)
  <2>1. ASSUME NEW i \in 1 .. m PROVE i \in 1 .. m + n /\ r[i] = s[i]
    BY <1>1
  <2>2. ASSUME NEW j \in 1 .. n PROVE j + m \in 1 .. m + n /\ r[j + m] = q[j]
    <3>1. j + m \in 1 .. m + n /\ ~(j + m <= m) /\ (j + m) - m = j
      BY <1>1
    <3>2. QED
      BY <1>1, <3>1
  <2>3. \A i \in 1 .. m + n : i \in 1 .. m \/ (i - m \in 1 .. n /\ i = (i - m) + m)
    BY <1>1
  <2>4. QED
    BY <2>1, <2>2, <2>3
<1>3. /\ Range(s) = {s[i] : i \in 1 .. m} /\ Range(q) = {q[j] : j \in 1 .. n}
      /\ Range(r) = {r[i] : i \in 1 .. m + n}
  BY <1>1 DEF Range
<1>4. Range(r) = Range(s) \cup Range(q)
  BY <1>2, <1>3, SMTT(30)
<1>5. IsInjective(r)
  <2>1. ASSUME NEW i \in 1 .. m + n, NEW j \in 1 .. m + n, r[i] = r[j] PROVE i = j
    <3>1. CASE i \in 1 .. m /\ j \in 1 .. m
      BY <1>1, <1>2, <2>1, <3>1 DEF IsInjective
    <3>2. CASE i \notin 1 .. m /\ j \notin 1 .. m
      <4>1. /\ i - m \in 1 .. n /\ i = (i - m) + m /\ j - m \in 1 .. n /\ j = (j - m) + m
            /\ q[i - m] = q[j - m]
        BY <1>2, <2>1, <3>2
      <4>2. i - m = j - m
        BY <1>1, <4>1 DEF IsInjective
      <4>3. QED
        BY <4>1, <4>2
    <3>3. CASE i \in 1 .. m /\ j \notin 1 .. m
      <4>1. r[i] = s[i] /\ j - m \in 1 .. n /\ r[j] = q[j - m]
        BY <1>2, <3>3
      <4>2. r[i] \in Range(s) /\ r[j] \in Range(q)
        BY <1>3, <3>3, <4>1
      <4>3. QED
        BY <2>1, <4>2
    <3>4. CASE i \notin 1 .. m /\ j \in 1 .. m
      <4>1. r[j] = s[j] /\ i - m \in 1 .. n /\ r[i] = q[i - m]
        BY <1>2, <3>4
      <4>2. r[j] \in Range(s) /\ r[i] \in Range(q)
        BY <1>3, <3>4, <4>1
      <4>3. QED
        BY <2>1, <4>2
    <3>5. QED
      BY <3>1, <3>2, <3>3, <3>4
  <2>2. QED
    BY <1>1, <2>1 DEF IsInjective
<1>6. ASSUME NEW t, NEW u, Before(s, t, u) \/ Before(q, t, u) PROVE Before(r, t, u)
  <2>1. CASE Before(s, t, u)
    <3>1. PICK i \in 1 .. m, j \in 1 .. m : i < j /\ s[i] = t /\ s[j] = u
      BY <1>1, <2>1 DEF Before
    <3>2. QED
      BY <1>1, <1>2, <3>1 DEF Before
  <2>2. CASE Before(q, t, u)
    <3>1. PICK i \in 1 .. n, j \in 1 .. n : i < j /\ q[i] = t /\ q[j] = u
      BY <1>1, <2>2 DEF Before
    <3>2. i + m < j + m /\ i + m \in 1 .. m + n /\ j + m \in 1 .. m + n /\ r[i + m] = t /\ r[j + m] = u
      BY <1>1, <1>2, <3>1
    <3>3. QED
      BY <1>1, <3>2 DEF Before
  <2>3. QED
    BY <1>6, <2>1, <2>2
<1>7. ASSUME NEW t \in Range(s), NEW u \in Range(q) PROVE Before(r, t, u)
  <2>1. PICK i \in 1 .. m : s[i] = t
    BY <1>3
  <2>2. PICK j \in 1 .. n : q[j] = u
    BY <1>3
  <2>3. i < j + m /\ i \in 1 .. m + n /\ j + m \in 1 .. m + n /\ r[i] = t /\ r[j + m] = u
    BY <1>1, <1>2, <2>1, <2>2
  <2>4. QED
    BY <1>1, <2>3 DEF Before
<1>8. QED
  BY <1>1, <1>4, <1>5, <1>6, <1>7 DEF r

\* The order that is kept: what is open once each, and of two tabs that stay the one before
\* the other.
LEMMA AppendMissingKeeps ==
    ASSUME NEW S, NEW order \in Seq(S), NEW available \in Seq(S),
           IsInjective(order), IsInjective(available)
    PROVE  /\ AppendMissing(order, available) \in Seq(S)
           /\ IsInjective(AppendMissing(order, available))
           /\ Range(AppendMissing(order, available)) = Range(available)
           /\ \A t, u \in Range(order) \cap Range(available) :
                 Before(order, t, u) <=> Before(AppendMissing(order, available), t, u)
<1> DEFINE a == Those(order, Range(available))
           b == Others(available, Range(order))
           r == AppendMissing(order, available)
           T == Range(order) \cap Range(available)
<1>1. /\ a \in Seq(S) /\ IsInjective(a) /\ Range(a) = T
      /\ \A t, u \in Range(available) : Before(order, t, u) <=> Before(a, t, u)
  BY ThoseOnce
<1>2. b \in Seq(S) /\ IsInjective(b) /\ Range(b) = Range(available) \ Range(order)
  BY OthersOnce
<1>3. r = a \o b
  BY DEF AppendMissing
<1>4. Range(a) \cap Range(b) = {} /\ Range(a) \cup Range(b) = Range(available)
  BY <1>1, <1>2
<1> HIDE DEF a, b, r
<1>5. /\ r \in Seq(S) /\ IsInjective(r) /\ Range(r) = Range(available)
      /\ \A t, u : Before(a, t, u) => Before(r, t, u)
  BY <1>1, <1>2, <1>3, <1>4, JoinedOnce
<1>6. \A t, u \in T : Before(order, t, u) => Before(r, t, u)
  BY <1>1, <1>5
<1>7. T \subseteq Range(order) /\ T \subseteq Range(r)
  BY <1>5
<1> HIDE DEF T
<1>8. \A t, u \in T : Before(order, t, u) <=> Before(r, t, u)
  BY <1>5, <1>6, <1>7, SameOrder
<1>9. QED
  BY <1>5, <1>8 DEF r, T

\* The place of an element is where it is.
LEMMA PlaceIsThere ==
    ASSUME NEW S, NEW s \in Seq(S), IsInjective(s), NEW t \in Range(s)
    PROVE  Place(s, t) \in 1 .. Len(s) /\ s[Place(s, t)] = t
<1>1. DOMAIN s = 1 .. Len(s) /\ Len(s) \in Nat
  OBVIOUS
<1>2. PICK n \in 1 .. Len(s) : s[n] = t
  BY <1>1 DEF Range
<1> DEFINE I == {i \in 1 .. Len(s) : s[i] = t}
<1>3. I = {n} /\ I # {}
  BY <1>1, <1>2 DEF IsInjective
<1>4. Place(s, t) = Min(I)
  BY <1>3 DEF Place, SelectInSeq
<1> HIDE DEF I
<1>5. Min(I) = n
  BY <1>1, <1>3 DEF Min
<1>6. QED
  BY <1>2, <1>4, <1>5

\* A part of a list with each element once has each once, in the order of the list.
LEMMA StretchOnce ==
    ASSUME NEW S, NEW s \in Seq(S), IsInjective(s), NEW a \in 1 .. Len(s) + 1, NEW b \in 0 .. Len(s)
    PROVE  /\ SubSeq(s, a, b) \in Seq(S) /\ IsInjective(SubSeq(s, a, b))
           /\ Range(SubSeq(s, a, b)) = {s[i] : i \in a .. b}
           /\ \A i, j \in a .. b : i < j => Before(SubSeq(s, a, b), s[i], s[j])
<1> DEFINE q == SubSeq(s, a, b)
           n == IF a <= b THEN b - a + 1 ELSE 0
<1>1. DOMAIN s = 1 .. Len(s) /\ Len(s) \in Nat /\ a \in Nat /\ b \in Nat
  OBVIOUS
<1>2. q \in Seq(S) /\ Len(q) = n /\ \A k \in 1 .. n : q[k] = s[a + k - 1]
  BY <1>1, SubSeqProperties
<1>3. n \in Nat /\ DOMAIN q = 1 .. n
  BY <1>1, <1>2
<1>4. /\ \A k \in 1 .. n : a + k - 1 \in a .. b /\ a + k - 1 \in 1 .. Len(s)
      /\ \A i \in a .. b : i - a + 1 \in 1 .. n /\ a + (i - a + 1) - 1 = i
  BY <1>1
<1> HIDE DEF q, n
<1>5. \A i \in a .. b : i - a + 1 \in 1 .. n /\ q[i - a + 1] = s[i]
  BY <1>2, <1>4
<1>6. Range(q) = {s[i] : i \in a .. b}
  <2>1. Range(q) = {q[k] : k \in 1 .. n}
    BY <1>3 DEF Range
  <2>2. ASSUME NEW k \in 1 .. n PROVE \E i \in a .. b : q[k] = s[i]
    BY <1>2, <1>4
  <2>3. ASSUME NEW i \in a .. b PROVE \E k \in 1 .. n : q[k] = s[i]
    BY <1>5
  <2>4. Range(q) \subseteq {s[i] : i \in a .. b}
    BY <2>1, <2>2
  <2>5. {s[i] : i \in a .. b} \subseteq Range(q)
    BY <2>1, <2>3
  <2>6. QED
    BY <2>4, <2>5
<1>7. IsInjective(q)
  <2>1. ASSUME NEW k \in 1 .. n, NEW l \in 1 .. n, q[k] = q[l] PROVE k = l
    <3>1. s[a + k - 1] = s[a + l - 1] /\ a + k - 1 \in 1 .. Len(s) /\ a + l - 1 \in 1 .. Len(s)
      BY <1>2, <1>4, <2>1
    <3>2. a + k - 1 = a + l - 1
      BY <1>1, <3>1 DEF IsInjective
    <3>3. QED
      BY <1>1, <1>3, <3>2
  <2>2. QED
    BY <1>3, <2>1 DEF IsInjective
<1>8. ASSUME NEW i \in a .. b, NEW j \in a .. b, i < j PROVE Before(q, s[i], s[j])
  <2>1. i - a + 1 < j - a + 1
    BY <1>1, <1>8
  <2>2. QED
    BY <1>3, <1>5, <2>1 DEF Before
<1>9. QED
  BY <1>2, <1>6, <1>7, <1>8 DEF q

\* A tab that is moved is once at its new place, and the others are as they were.
LEMMA MoveTabKeeps ==
    ASSUME NEW S, NEW order \in Seq(S), IsInjective(order), NEW source, NEW target, NEW position
    PROVE  /\ MoveTab(order, source, target, position) \in Seq(S)
           /\ IsInjective(MoveTab(order, source, target, position))
           /\ Range(MoveTab(order, source, target, position)) = Range(order)
           /\ \A t, u \in Range(order) \ {source} :
                 Before(order, t, u) <=> Before(MoveTab(order, source, target, position), t, u)
<1> DEFINE moved == MoveTab(order, source, target, position)
<1>1. CASE source = target \/ {source, target} \ Range(order) # {}
  <2>1. moved = order
    BY <1>1 DEF MoveTab
  <2>2. QED
    BY <2>1
<1>2. CASE ~(source = target \/ {source, target} \ Range(order) # {})
  <2> DEFINE rest == Others(order, {source})
             L == Len(rest)
             n == Place(rest, target) + (IF position = "after" THEN 1 ELSE 0)
             a == SubSeq(rest, 1, n - 1)
             b == SubSeq(rest, n, L)
             it == <<source>>
             r == (a \o it) \o b
             T == Range(order) \ {source}
  <2>1. source # target /\ source \in Range(order) /\ target \in Range(order)
    BY <1>2
  <2>2. moved = a \o it \o b
    BY <1>2 DEF MoveTab
  <2>3. /\ rest \in Seq(S) /\ IsInjective(rest) /\ Range(rest) = T
        /\ \A t, u \in T : Before(order, t, u) <=> Before(rest, t, u)
    BY OthersOnce
  <2> HIDE DEF rest
  <2>4. L \in Nat /\ DOMAIN rest = 1 .. L
    BY <2>3
  <2>5. n \in 1 .. L + 1
    <3>1. target \in Range(rest)
      BY <2>1, <2>3
    <3>2. Place(rest, target) \in 1 .. L
      BY <2>3, <3>1, PlaceIsThere
    <3>3. QED
      BY <2>4, <3>2
  <2> HIDE DEF L, n
  <2>6. /\ a \in Seq(S) /\ IsInjective(a) /\ Range(a) = {rest[i] : i \in 1 .. n - 1}
        /\ \A i, j \in 1 .. n - 1 : i < j => Before(a, rest[i], rest[j])
    <3>1. 1 \in 1 .. L + 1 /\ n - 1 \in 0 .. L
      BY <2>4, <2>5
    <3>2. QED
      BY <2>3, <3>1, StretchOnce DEF L
  <2>7. /\ b \in Seq(S) /\ IsInjective(b) /\ Range(b) = {rest[i] : i \in n .. L}
        /\ \A i, j \in n .. L : i < j => Before(b, rest[i], rest[j])
    <3>1. n \in 1 .. L + 1 /\ L \in 0 .. L
      BY <2>4, <2>5
    <3>2. QED
      BY <2>3, <3>1, StretchOnce DEF L
  <2>8. it \in Seq(S) /\ IsInjective(it) /\ Range(it) = {source}
    <3>1. source \in S
      BY <2>1 DEF Range
    <3>2. it \in Seq(S) /\ DOMAIN it = {1} /\ it[1] = source
      BY <3>1
    <3>3. QED
      BY <3>2 DEF IsInjective, Range
  <2> HIDE DEF a, b, it
  <2>9. \A i \in 1 .. L : i \in 1 .. n - 1 \/ i \in n .. L
    BY <2>4, <2>5
  <2>10. /\ Range(a) \cup Range(b) = T /\ Range(a) \cap Range(b) = {}
         /\ source \notin Range(a) /\ source \notin Range(b)
    <3>1. Range(rest) = {rest[i] : i \in 1 .. L}
      BY <2>4 DEF Range
    <3>2. \A i \in 1 .. n - 1 : i \in 1 .. L
      BY <2>4, <2>5
    <3>3. \A i \in n .. L : i \in 1 .. L
      BY <2>4, <2>5
    <3>4. Range(a) \cup Range(b) = T
      BY <2>3, <2>6, <2>7, <2>9, <3>1, <3>2, <3>3
    <3>5. Range(a) \cap Range(b) = {}
      <4>1. ASSUME NEW i \in 1 .. n - 1, NEW j \in n .. L, rest[i] = rest[j] PROVE FALSE
        <5>1. i = j
          BY <2>3, <2>4, <3>2, <3>3, <4>1 DEF IsInjective
        <5>2. QED
          BY <2>4, <2>5, <5>1
      <4>2. QED
        BY <2>6, <2>7, <4>1
    <3>6. QED
      BY <3>4, <3>5
  <2> DEFINE front == a \o it
  <2>11. /\ front \in Seq(S) /\ IsInjective(front) /\ Range(front) = Range(a) \cup {source}
         /\ \A t, u : Before(a, t, u) => Before(front, t, u)
    BY <2>6, <2>8, <2>10, JoinedOnce
  <2> HIDE DEF front
  <2>12. /\ front \o b \in Seq(S) /\ IsInjective(front \o b)
         /\ Range(front \o b) = Range(front) \cup Range(b)
         /\ \A t, u : Before(front, t, u) \/ Before(b, t, u) => Before(front \o b, t, u)
         /\ \A t \in Range(front), u \in Range(b) : Before(front \o b, t, u)
    <3>1. Range(front) \cap Range(b) = {}
      BY <2>10, <2>11
    <3>2. front \in Seq(S) /\ b \in Seq(S) /\ IsInjective(front) /\ IsInjective(b)
      BY <2>7, <2>11
    <3>3. QED
      BY <3>1, <3>2, JoinedOnce, ZenonT(30)
  <2>13. moved = front \o b
    BY <2>2 DEF front
  <2> HIDE DEF moved
  <2>14. moved \in Seq(S) /\ IsInjective(moved) /\ Range(moved) = Range(order)
    BY <2>1, <2>10, <2>11, <2>12, <2>13
  <2>15. ASSUME NEW t \in T, NEW u \in T, Before(order, t, u) PROVE Before(moved, t, u)
    <3>1. PICK i \in 1 .. L, j \in 1 .. L : i < j /\ rest[i] = t /\ rest[j] = u
      BY <2>3, <2>4, <2>15 DEF Before
    <3>2. CASE i \in 1 .. n - 1 /\ j \in 1 .. n - 1
      BY <2>6, <2>11, <2>12, <2>13, <3>1, <3>2
    <3>3. CASE i \in n .. L /\ j \in n .. L
      BY <2>7, <2>12, <2>13, <3>1, <3>3
    <3>4. CASE i \in 1 .. n - 1 /\ j \in n .. L
      <4>1. t \in Range(front) /\ u \in Range(b)
        BY <2>6, <2>7, <2>11, <3>1, <3>4
      <4>2. QED
        BY <2>12, <2>13, <4>1
    <3>5. ~(i \in n .. L /\ j \in 1 .. n - 1)
      BY <2>4, <2>5, <3>1
    <3>6. QED
      BY <2>9, <3>2, <3>3, <3>4, <3>5
  <2>16. T \subseteq Range(order) /\ T \subseteq Range(moved)
    BY <2>14
  <2> HIDE DEF T
  <2>17. \A t, u \in T : Before(order, t, u) <=> Before(moved, t, u)
    BY <2>14, <2>15, <2>16, SameOrder
  <2>18. QED
    BY <2>14, <2>17 DEF T, moved
<1>3. QED
  BY <1>1, <1>2

Tabs == SessionIds \cup Distributions \cup Range(ToolOrder)

\* Sessions, pages and files of distributions, once each.
LEMMA SourcesOnce ==
    ASSUME NEW s \in Seq(SessionIds), IsInjective(s), NEW T, T \subseteq Pages,
           NEW w \in Seq(Distributions), IsInjective(w)
    PROVE  /\ s \o Those(ToolOrder, T) \o w \in Seq(Tabs) /\ IsInjective(s \o Those(ToolOrder, T) \o w)
           /\ Range(s \o Those(ToolOrder, T) \o w) = Range(s) \cup T \cup Range(w)
           /\ Those(ToolOrder, T) \o w \in Seq(Tabs)
           /\ Range(Those(ToolOrder, T) \o w) = T \cup Range(w)
<1> DEFINE p == Those(ToolOrder, T)
<1>1. /\ T \subseteq Range(ToolOrder) /\ Distributions \cap SessionIds = {}
      /\ (Distributions \cup SessionIds) \cap Range(ToolOrder) = {}
  BY AppTabsAssumption
<1>2. s \in Seq(Tabs) /\ w \in Seq(Tabs) /\ Range(s) \subseteq SessionIds /\ Range(w) \subseteq Distributions
  BY DEF Tabs, Range
<1>3. ToolOrder \in Seq(Range(ToolOrder)) /\ IsInjective(ToolOrder)
  <2>1. ToolOrder \in Seq({"hosts", "http", "scan", "settings"}) /\ DOMAIN ToolOrder = 1 .. 4
    BY DEF ToolOrder
  <2>2. IsInjective(ToolOrder)
    BY <2>1 DEF IsInjective, ToolOrder
  <2> DEFINE R == Range(ToolOrder)
  <2>3. "hosts" \in R /\ "http" \in R /\ "scan" \in R /\ "settings" \in R
    <3>1. \A i \in 1 .. 4 : ToolOrder[i] \in R
      BY <2>1 DEF Range
    <3> HIDE DEF R
    <3>2. ToolOrder[1] \in R /\ ToolOrder[2] \in R /\ ToolOrder[3] \in R /\ ToolOrder[4] \in R
      BY <3>1
    <3>3. QED
      BY <3>2 DEF ToolOrder
  <2> HIDE DEF R
  <2>4. ToolOrder \in Seq(R)
    BY <2>3 DEF ToolOrder
  <2>5. QED
    BY <2>2, <2>4 DEF R
<1>4. p \in Seq(Tabs) /\ IsInjective(p) /\ Range(p) = T
  <2>1. p \in Seq(Range(ToolOrder)) /\ IsInjective(p) /\ Range(p) = Range(ToolOrder) \cap T
    BY <1>3, ThoseOnce
  <2>2. QED
    BY <1>1, <2>1 DEF Tabs
<1> HIDE DEF p
<1>5. Range(s) \cap Range(p) = {} /\ Range(p) \cap Range(w) = {} /\ Range(s) \cap Range(w) = {}
  BY <1>1, <1>2, <1>4
<1>6. s \o p \in Seq(Tabs) /\ IsInjective(s \o p) /\ Range(s \o p) = Range(s) \cup T
  BY <1>2, <1>4, <1>5, JoinedOnce
<1> DEFINE f == s \o p
<1> HIDE DEF f
<1>7. f \in Seq(Tabs) /\ IsInjective(f) /\ Range(f) = Range(s) \cup T /\ Range(f) \cap Range(w) = {}
  BY <1>4, <1>5, <1>6 DEF f
<1>8. f \o w \in Seq(Tabs) /\ IsInjective(f \o w) /\ Range(f \o w) = Range(s) \cup T \cup Range(w)
  BY <1>2, <1>7, JoinedOnce
<1>9. p \o w \in Seq(Tabs) /\ Range(p \o w) = T \cup Range(w)
  BY <1>2, <1>4, <1>5, JoinedOnce
<1>10. QED
  BY <1>8, <1>9 DEF f, p

\* Tabs of sessions that were opened, each once.
TabsOnce(tabs, ids) ==
    tabs \in Seq(SessionIds) /\ IsInjective(tabs) /\ Range(tabs) \subseteq ids

\* The session that is shown is one of those that are open, but for what the history knows.
Seated ==
    ~unseated => /\ activeTab \in Range(sessionTabs) \cup {NoTabShown}
                 /\ sessionTabs # <<>> => activeTab # NoTabShown

\* What is open, each once, what a late handler writes back too, and the session shown.
SidesOK ==
    /\ opened \subseteq SessionIds /\ TabsOnce(sessionTabs, opened)
    /\ TabsOnce(leaving.seen, opened) /\ tools \subseteq Pages
    /\ wslFiles \in Seq(Distributions) /\ IsInjective(wslFiles)
    /\ Seated

OpenTabs == Range(sessionTabs) \cup tools \cup Range(wslFiles)

BarOK == bar \in Seq(Tabs) /\ IsInjective(bar) /\ Range(bar) = OpenTabs

AppInv == SidesOK /\ BarOK

\* The order of the bar goes on, but for a tab that is dropped.
OrderGoesOn ==
    \A t, u \in Range(bar) \cap Range(bar') :
        \/ Before(bar, t, u) <=> Before(bar', t, u)
        \/ tabDrag.source \in {t, u} /\ tabDrag' # tabDrag

\* The effect keeps the order of the bar.
LEMMA EffectKeeps ==
    ASSUME AppInv, SidesOK', KeepOrder
    PROVE  AppInv' /\ OrderGoesOn
<1> DEFINE new == Sources'
<1>1. new \in Seq(Tabs) /\ IsInjective(new) /\ Range(new) = OpenTabs'
  BY SourcesOnce DEF SidesOK, TabsOnce, Sources, OpenTabs
<1>2. bar \in Seq(Tabs) /\ IsInjective(bar) /\ bar' = AppendMissing(bar, new)
  BY DEF AppInv, BarOK, KeepOrder
<1> HIDE DEF new
<1>3. /\ bar' \in Seq(Tabs) /\ IsInjective(bar') /\ Range(bar') = Range(new)
      /\ \A t, u \in Range(bar) \cap Range(new) : Before(bar, t, u) <=> Before(bar', t, u)
  BY <1>1, <1>2, AppendMissingKeeps
<1>4. BarOK'
  BY <1>1, <1>3 DEF BarOK
<1>5. OrderGoesOn
  BY <1>3 DEF OrderGoesOn
<1>6. QED
  BY <1>4, <1>5 DEF AppInv

\* Nothing of the bar changes.
LEMMA BarRests ==
    ASSUME AppInv, SidesOK', UNCHANGED <<sessionTabs, tools, wslFiles, bar>>
    PROVE  AppInv' /\ OrderGoesOn
<1>1. BarOK'
  BY DEF AppInv, BarOK, OpenTabs
<1>2. OrderGoesOn
  BY DEF OrderGoesOn
<1>3. QED
  BY <1>1, <1>2 DEF AppInv

\* What the bar shows is what is open, in the user's order.
LEMMA BarShows ==
    ASSUME AppInv
    PROVE  /\ Sources \in Seq(Tabs) /\ Range(Sources) = OpenTabs
           /\ Bar \in Seq(Tabs) /\ IsInjective(Bar) /\ Range(Bar) = OpenTabs
           /\ \A t, u \in OpenTabs : Before(bar, t, u) <=> Before(Bar, t, u)
<1> DEFINE all == Sources
<1>1. all \in Seq(Tabs) /\ IsInjective(all) /\ Range(all) = OpenTabs
  BY SourcesOnce DEF AppInv, SidesOK, TabsOnce, Sources, OpenTabs
<1>2. bar \in Seq(Tabs) /\ IsInjective(bar) /\ Range(bar) = OpenTabs /\ Bar = AppendMissing(bar, all)
  BY DEF AppInv, BarOK, Bar
<1> HIDE DEF all
<1>3. /\ Bar \in Seq(Tabs) /\ IsInjective(Bar) /\ Range(Bar) = Range(all)
      /\ \A t, u \in Range(bar) \cap Range(all) : Before(bar, t, u) <=> Before(Bar, t, u)
  BY <1>1, <1>2, AppendMissingKeeps
<1>4. QED
  BY <1>1, <1>2, <1>3 DEF all

\* What stands for no tab is the name of none.
LEMMA NoneIsNoTab == NoTabShown \notin Tabs
<1>1. \A i \in DOMAIN ToolOrder : ToolOrder[i] # "none"
  BY DEF ToolOrder
<1>2. QED
  BY <1>1, AppTabsAssumption DEF Tabs, NoTabShown, Range

\* A list that is not empty has an element.
LEMMA ListsWithTabs ==
    ASSUME NEW S, NEW s \in Seq(S), s # <<>>
    PROVE  Range(s) # {}
<1>1. DOMAIN s = 1 .. Len(s) /\ 1 \in DOMAIN s
  OBVIOUS
<1>2. QED
  BY <1>1 DEF Range

\* No tabs, each once.
LEMMA NoTabsOnce == ASSUME NEW ids PROVE TabsOnce(<<>>, ids)
BY DEF TabsOnce, IsInjective, Range

\* A tab that is the active one from now on, and is open, is shown.
LEMMA ActiveIsSeated ==
    ASSUME NEW id \in SessionIds, Activate(id), id \in Range(sessionTabs')
    PROVE  Seated'
<1>1. id # NoTabShown
  BY NoneIsNoTab DEF Tabs
<1>2. QED
  BY <1>1 DEF Activate, Seated

\* The tab that is next is one of those that stay.
LEMMA NextStays ==
    ASSUME NEW rest \in Seq(SessionIds), NEW n
    PROVE  /\ rest = <<>> => NextOf(rest, n) = NoTabShown
           /\ rest # <<>> => NextOf(rest, n) \in Range(rest) /\ NextOf(rest, n) # NoTabShown
<1>1. ASSUME rest # <<>> PROVE NextOf(rest, n) \in Range(rest)
  <2>1. DOMAIN rest = 1 .. Len(rest) /\ Len(rest) \in DOMAIN rest
    BY <1>1
  <2>2. QED
    BY <1>1, <2>1 DEF NextOf, Range
<1>2. NoTabShown \notin Range(rest)
  <2>1. Range(rest) \subseteq SessionIds
    BY DEF Range
  <2>2. QED
    BY <2>1, NoneIsNoTab DEF Tabs
<1>3. QED
  BY <1>1, <1>2 DEF NextOf

\* Tabs go from a list, and if the one that was asked for was shown, the next one is.
LEMMA LeaveFromKeeps ==
    ASSUME NEW seen, TabsOnce(seen, opened), NEW active, NEW id, NEW alone,
           LeaveFrom(seen, active, id, alone)
    PROVE  /\ TabsOnce(sessionTabs', opened') /\ UNCHANGED opened
           /\ Range(sessionTabs') = Range(seen) \ Gone(id, alone)
           /\ active # id => UNCHANGED activeTab
           /\ active = id => /\ activeTab' \in Range(sessionTabs') \cup {NoTabShown}
                             /\ sessionTabs' # <<>> => activeTab' # NoTabShown
<1> DEFINE rest == Others(seen, Gone(id, alone))
<1>1. /\ sessionTabs' = rest /\ UNCHANGED opened
      /\ activeTab' = IF active = id THEN NextOf(rest, Place(seen, id)) ELSE activeTab
  BY DEF LeaveFrom
<1>2. rest \in Seq(SessionIds) /\ IsInjective(rest) /\ Range(rest) = Range(seen) \ Gone(id, alone)
  BY OthersOnce DEF TabsOnce
<1> HIDE DEF rest
<1>3. TabsOnce(sessionTabs', opened')
  BY <1>1, <1>2 DEF TabsOnce
<1>4. ASSUME active = id
      PROVE  /\ activeTab' \in Range(rest) \cup {NoTabShown}
             /\ rest # <<>> => activeTab' # NoTabShown
  <2>1. activeTab' = NextOf(rest, Place(seen, id))
    BY <1>1, <1>4
  <2>2. QED
    BY <1>2, <2>1, NextStays
<1>5. QED
  BY <1>1, <1>2, <1>3, <1>4

\* A session goes: its tab, and what is shown instead.
LEMMA LeavesKeeps ==
    ASSUME SidesOK, NEW id, NEW alone, Leaves(id, alone), UNCHANGED PageSide
    PROVE  SidesOK'
<1>1. /\ opened \subseteq SessionIds /\ TabsOnce(sessionTabs, opened) /\ Seated
      /\ LeaveFrom(sessionTabs, activeTab, id, alone) /\ UNCHANGED <<leaving, tools, wslFiles>>
      /\ unseated' = (activeTab # id /\ (unseated \/ activeTab \in Gone(id, alone)))
  BY DEF SidesOK, Leaves, PageSide
<1>2. /\ TabsOnce(sessionTabs', opened') /\ UNCHANGED opened
      /\ Range(sessionTabs') = Range(sessionTabs) \ Gone(id, alone)
      /\ activeTab # id => UNCHANGED activeTab
      /\ activeTab = id => /\ activeTab' \in Range(sessionTabs') \cup {NoTabShown}
                           /\ sessionTabs' # <<>> => activeTab' # NoTabShown
  BY <1>1, LeaveFromKeeps
<1>3. Seated'
  <2>1. CASE activeTab = id
    BY <1>2, <2>1 DEF Seated
  <2>2. CASE activeTab # id
    <3>1. SUFFICES ASSUME ~unseated'
                   PROVE  /\ activeTab' \in Range(sessionTabs') \cup {NoTabShown}
                          /\ sessionTabs' # <<>> => activeTab' # NoTabShown
      BY DEF Seated
    <3>2. /\ ~unseated /\ activeTab \notin Gone(id, alone) /\ activeTab' = activeTab
      BY <1>1, <1>2, <2>2, <3>1
    <3>3. sessionTabs' # <<>> => sessionTabs # <<>>
      <4>1. Range(sessionTabs') \subseteq Range(sessionTabs)
        BY <1>2
      <4>2. sessionTabs' # <<>> => Range(sessionTabs') # {}
        BY <1>2, ListsWithTabs DEF TabsOnce
      <4>3. sessionTabs = <<>> => Range(sessionTabs) = {}
        BY DEF Range
      <4>4. QED
        BY <4>1, <4>2, <4>3
    <3>4. QED
      BY <1>1, <1>2, <3>2, <3>3 DEF Seated
  <2>3. QED
    BY <2>1, <2>2
<1>4. QED
  BY <1>1, <1>2, <1>3 DEF SidesOK

\* A handler ends late, with the tabs of the render it was called in.
LEMMA LateKeeps ==
    ASSUME SidesOK, LeavesLate
    PROVE  SidesOK'
<1>1. /\ opened \subseteq SessionIds /\ TabsOnce(leaving.seen, opened)
      /\ LeaveFrom(leaving.seen, leaving.shown, leaving.id, leaving.alone)
      /\ unseated' = /\ leaving.shown # leaving.id
                     /\ activeTab \notin Range(sessionTabs')
                     /\ activeTab # NoTabShown \/ sessionTabs' # <<>>
      /\ leaving' = NoLeaving /\ UNCHANGED <<tools, wslFiles>>
  BY DEF SidesOK, LeavesLate, PageSide
<1>2. /\ TabsOnce(sessionTabs', opened') /\ UNCHANGED opened
      /\ leaving.shown # leaving.id => UNCHANGED activeTab
      /\ leaving.shown = leaving.id => /\ activeTab' \in Range(sessionTabs') \cup {NoTabShown}
                                       /\ sessionTabs' # <<>> => activeTab' # NoTabShown
  BY <1>1, LeaveFromKeeps
<1>3. Seated'
  <2>1. CASE leaving.shown = leaving.id
    BY <1>2, <2>1 DEF Seated
  <2>2. CASE leaving.shown # leaving.id
    <3>1. NoTabShown \notin Range(sessionTabs')
      <4>1. Range(sessionTabs') \subseteq SessionIds
        BY <1>2 DEF TabsOnce, Range
      <4>2. QED
        BY <4>1, NoneIsNoTab DEF Tabs
    <3>2. QED
      BY <1>1, <1>2, <2>2, <3>1 DEF Seated
  <2>3. QED
    BY <2>1, <2>2
<1>4. TabsOnce(leaving'.seen, opened')
  BY <1>1, NoTabsOnce DEF NoLeaving
<1>5. QED
  BY <1>1, <1>2, <1>3, <1>4 DEF SidesOK

\* One element more at the end.
LEMMA AppendedOnce ==
    ASSUME NEW S, NEW s \in Seq(S), IsInjective(s), NEW e \in S, e \notin Range(s)
    PROVE  /\ Append(s, e) \in Seq(S) /\ IsInjective(Append(s, e))
           /\ Range(Append(s, e)) = Range(s) \cup {e}
<1> DEFINE it == <<e>>
<1>1. it \in Seq(S) /\ IsInjective(it) /\ Range(it) = {e}
  <2>1. it \in Seq(S) /\ DOMAIN it = {1} /\ it[1] = e
    OBVIOUS
  <2>2. QED
    BY <2>1 DEF IsInjective, Range
<1>2. Append(s, e) = s \o it
  BY AppendIsConcat
<1> HIDE DEF it
<1>3. QED
  BY <1>1, <1>2, JoinedOnce

\* A session whose tab is chosen is one of those that are open.
LEMMA SessionIsShown ==
    ASSUME SidesOK, UNCHANGED <<sessionTabs, opened, leaving, tools, wslFiles>>,
           \/ UNCHANGED <<activeTab, unseated>>
           \/ \E t \in Range(sessionTabs) : Activate(t)
    PROVE  SidesOK'
<1>1. CASE UNCHANGED <<activeTab, unseated>>
  BY <1>1 DEF SidesOK, TabsOnce, Seated
<1>2. CASE \E t \in Range(sessionTabs) : Activate(t)
  <2>1. PICK t \in Range(sessionTabs) : Activate(t)
    BY <1>2
  <2>2. t \in SessionIds
    BY DEF SidesOK, TabsOnce
  <2>3. Seated'
    BY <2>1, <2>2, ActiveIsSeated
  <2>4. QED
    BY <2>3 DEF SidesOK, TabsOnce
<1>3. QED
  BY <1>1, <1>2

\* Pages and their windows: opened, closed, moved.
LEMMA PagesKeep ==
    ASSUME AppInv,
           \/ \E t \in Pages : OpenPage(t) \/ ClosePage(t)
           \/ \E d \in Distributions : OpenWslFiles(d) \/ CloseWslFiles(d)
           \/ MoveConsoleOut \/ MergeConsole \/ CloseConsoleWindow
    PROVE  AppInv' /\ OrderGoesOn
<1>1. SidesOK /\ tools \subseteq Pages /\ wslFiles \in Seq(Distributions) /\ IsInjective(wslFiles)
  BY DEF AppInv, SidesOK
<1>2. ASSUME UNCHANGED OpenSessions, tools' \subseteq Pages, wslFiles' \in Seq(Distributions),
             IsInjective(wslFiles')
      PROVE  SidesOK'
  BY <1>1, <1>2 DEF SidesOK, TabsOnce, Seated, OpenSessions
<1>3. CASE \E t \in Pages : OpenPage(t) \/ ClosePage(t)
  <2>1. SidesOK' /\ KeepOrder
    BY <1>1, <1>2, <1>3 DEF OpenPage, ClosePage, SessionSide
  <2>2. QED
    BY <2>1, EffectKeeps
<1>4. CASE MoveConsoleOut \/ MergeConsole
  <2>1. SidesOK' /\ KeepOrder
    BY <1>1, <1>2, <1>4, AppTabsAssumption DEF MoveConsoleOut, MergeConsole, SessionSide
  <2>2. QED
    BY <2>1, EffectKeeps
<1>5. CASE CloseConsoleWindow
  <2>1. SidesOK' /\ UNCHANGED <<sessionTabs, tools, wslFiles, bar>>
    BY <1>1, <1>2, <1>5 DEF CloseConsoleWindow, PageSide, SessionSide, OpenSessions
  <2>2. QED
    BY <2>1, BarRests
<1>6. ASSUME NEW d \in Distributions, OpenWslFiles(d) PROVE AppInv' /\ OrderGoesOn
  <2>1. /\ wslFiles' = IF d \in Range(wslFiles) THEN wslFiles ELSE Append(wslFiles, d)
        /\ UNCHANGED OpenSessions /\ tools' = tools /\ KeepOrder
    BY <1>6 DEF OpenWslFiles
  <2>2. wslFiles' \in Seq(Distributions) /\ IsInjective(wslFiles')
    <3>1. CASE d \in Range(wslFiles)
      BY <1>1, <2>1, <3>1
    <3>2. CASE d \notin Range(wslFiles)
      BY <1>1, <2>1, <3>2, AppendedOnce
    <3>3. QED
      BY <3>1, <3>2
  <2>3. QED
    BY <1>1, <1>2, <2>1, <2>2, EffectKeeps
<1>7. ASSUME NEW d \in Distributions, CloseWslFiles(d) PROVE AppInv' /\ OrderGoesOn
  <2>1. wslFiles' = Others(wslFiles, {d}) /\ UNCHANGED OpenSessions /\ tools' = tools /\ KeepOrder
    BY <1>7 DEF CloseWslFiles, SessionSide
  <2>2. wslFiles' \in Seq(Distributions) /\ IsInjective(wslFiles')
    BY <1>1, <2>1, OthersOnce
  <2>3. QED
    BY <1>1, <1>2, <2>1, <2>2, EffectKeeps
<1>8. QED
  BY <1>3, <1>4, <1>5, <1>6, <1>7

\* A tab of its own, where it is put.
LEMMA NewKeeps ==
    ASSUME SidesOK, NewSession, UNCHANGED <<tools, wslFiles>>
    PROVE  SidesOK'
<1>1. NewId \in SessionIds \ opened
  BY DEF NewSession, NewId, Unused
<1>2. /\ sessionTabs \in Seq(SessionIds) /\ IsInjective(sessionTabs)
      /\ NewId \notin Range(sessionTabs) /\ Range(sessionTabs) \subseteq opened
      /\ opened' = opened \cup {NewId} /\ sessionTabs' = Append(sessionTabs, NewId)
      /\ Activate(NewId) /\ UNCHANGED leaving
  BY <1>1 DEF SidesOK, TabsOnce, NewSession
<1> DEFINE new == NewId
<1> HIDE DEF new
<1>3. /\ sessionTabs' \in Seq(SessionIds) /\ IsInjective(sessionTabs')
      /\ Range(sessionTabs') = Range(sessionTabs) \cup {NewId}
  BY <1>1, <1>2, AppendedOnce
<1>4. Seated'
  BY <1>1, <1>2, <1>3, ActiveIsSeated
<1>5. QED
  BY <1>1, <1>2, <1>3, <1>4 DEF SidesOK, TabsOnce

\* A tab comes back from a window of its own.
LEMMA ReturnKeeps ==
    ASSUME SidesOK, NEW id \in SessionIds, SessionReturns(id)
    PROVE  SidesOK'
<1> DEFINE rest == Others(sessionTabs, {id})
<1>1. /\ id \in opened /\ sessionTabs' = Append(rest, id) /\ Activate(id)
      /\ UNCHANGED <<opened, leaving, tools, wslFiles>>
      /\ sessionTabs \in Seq(SessionIds) /\ IsInjective(sessionTabs)
      /\ Range(sessionTabs) \subseteq opened
  BY DEF SessionReturns, SidesOK, TabsOnce, PageSide
<1>2. rest \in Seq(SessionIds) /\ IsInjective(rest) /\ Range(rest) = Range(sessionTabs) \ {id}
  BY <1>1, OthersOnce
<1> HIDE DEF rest
<1>3. /\ sessionTabs' \in Seq(SessionIds) /\ IsInjective(sessionTabs')
      /\ Range(sessionTabs') = Range(rest) \cup {id}
  BY <1>1, <1>2, AppendedOnce
<1>4. Seated'
  BY <1>1, <1>3, ActiveIsSeated
<1>5. QED
  BY <1>1, <1>2, <1>3, <1>4 DEF SidesOK, TabsOnce

\* A session that is connected again is put where its tab was.
LEMMA ReconnectKeeps ==
    ASSUME SidesOK, NEW id \in SessionIds, Reconnects(id), UNCHANGED <<tools, wslFiles>>
    PROVE  SidesOK'
<1> DEFINE rest == Others(sessionTabs, Gone(id, FALSE))
           L == Len(rest)
<1>1. /\ id \in opened /\ Activate(id) /\ UNCHANGED <<opened, leaving>>
      /\ sessionTabs \in Seq(SessionIds) /\ IsInjective(sessionTabs)
      /\ Range(sessionTabs) \subseteq opened
  BY DEF Reconnects, SidesOK, TabsOnce
<1>2. /\ rest \in Seq(SessionIds) /\ IsInjective(rest)
      /\ Range(rest) = Range(sessionTabs) \ Gone(id, FALSE)
  BY <1>1, OthersOnce
<1>3. L \in Nat /\ DOMAIN rest = 1 .. L
  <2>1. rest \in Seq(SessionIds)
    BY <1>2
  <2> HIDE DEF rest
  <2>2. QED
    BY <2>1
<1>4. PICK n \in 1 .. Len(sessionTabs) + 1 :
         LET place == IF n <= L + 1 THEN n ELSE L + 1
         IN sessionTabs' = SubSeq(rest, 1, place - 1) \o <<id>> \o SubSeq(rest, place, L)
  BY DEF Reconnects
<1> DEFINE place == IF n <= L + 1 THEN n ELSE L + 1
           a == SubSeq(rest, 1, place - 1)
           b == SubSeq(rest, place, L)
           it == <<id>>
           front == a \o it
<1>5. sessionTabs' = front \o b
  BY <1>4
<1>6. place \in 1 .. L + 1
  <2>1. n \in Nat /\ 1 <= n
    BY <1>1, <1>4
  <2> HIDE DEF L
  <2>2. QED
    BY <1>3, <2>1
<1>7. id \notin Range(rest)
  BY <1>2 DEF Gone
<1> HIDE DEF rest, place
<1>8. /\ a \in Seq(SessionIds) /\ IsInjective(a) /\ Range(a) = {rest[i] : i \in 1 .. place - 1}
  <2>1. 1 \in 1 .. L + 1 /\ place - 1 \in 0 .. L
    BY <1>3, <1>6
  <2>2. QED
    BY <1>2, <2>1, StretchOnce
<1>9. /\ b \in Seq(SessionIds) /\ IsInjective(b) /\ Range(b) = {rest[i] : i \in place .. L}
  <2>1. place \in 1 .. L + 1 /\ L \in 0 .. L
    BY <1>3, <1>6
  <2>2. QED
    BY <1>2, <2>1, StretchOnce
<1>10. it \in Seq(SessionIds) /\ IsInjective(it) /\ Range(it) = {id}
  <2>1. it \in Seq(SessionIds) /\ DOMAIN it = {1} /\ it[1] = id
    OBVIOUS
  <2>2. QED
    BY <2>1 DEF IsInjective, Range
<1>11. Range(rest) = {rest[i] : i \in 1 .. L}
  BY <1>3 DEF Range
<1>12. /\ \A i \in 1 .. place - 1 : i \in 1 .. L /\ i \notin place .. L
       /\ \A i \in place .. L : i \in 1 .. L
       /\ \A i, j \in 1 .. L : rest[i] = rest[j] => i = j
  BY <1>2, <1>3, <1>6 DEF IsInjective
<1> HIDE DEF a, b, it, L
<1>13. Range(a) \subseteq Range(rest) /\ Range(b) \subseteq Range(rest)
  BY <1>8, <1>9, <1>11, <1>12
<1>14. Range(a) \cap Range(b) = {}
  BY <1>8, <1>9, <1>12
<1>15. Range(a) \cap Range(it) = {}
  BY <1>7, <1>10, <1>13
<1>16. front \in Seq(SessionIds) /\ IsInjective(front) /\ Range(front) = Range(a) \cup {id}
  BY <1>8, <1>10, <1>15, JoinedOnce
<1> HIDE DEF front
<1>17. Range(front) \cap Range(b) = {}
  BY <1>7, <1>13, <1>14, <1>16
<1>18. /\ sessionTabs' \in Seq(SessionIds) /\ IsInjective(sessionTabs')
       /\ Range(sessionTabs') = Range(front) \cup Range(b)
  <2>1. /\ front \o b \in Seq(SessionIds) /\ IsInjective(front \o b)
        /\ Range(front \o b) = Range(front) \cup Range(b)
    BY <1>9, <1>16, <1>17, JoinedOnce, ZenonT(30)
  <2>2. QED
    BY <1>5, <2>1
<1>19. id \in Range(sessionTabs') /\ Range(sessionTabs') \subseteq opened
  BY <1>1, <1>2, <1>13, <1>16, <1>18
<1>20. Seated'
  BY <1>1, <1>19, ActiveIsSeated
<1>21. QED
  BY <1>1, <1>18, <1>19, <1>20 DEF SidesOK, TabsOnce

\* The files of a session get a tab of another id, in the place of the old one.
LEMMA FilesKeep ==
    ASSUME SidesOK, NEW id \in SessionIds, FilesReconnect(id)
    PROVE  SidesOK'
<1> DEFINE new == NewId
           put(t) == IF t = id THEN new ELSE t
<1>1. new \in SessionIds \ opened
  BY DEF FilesReconnect, NewId, Unused
<1> HIDE DEF new
<1>2. /\ sessionTabs' = [i \in DOMAIN sessionTabs |-> put(sessionTabs[i])]
      /\ opened' = opened \cup {new} /\ Activate(new) /\ UNCHANGED <<leaving, tools, wslFiles>>
      /\ id \in Range(sessionTabs)
  BY DEF FilesReconnect, PageSide, new
<1>3. /\ sessionTabs \in Seq(SessionIds) /\ IsInjective(sessionTabs)
      /\ Range(sessionTabs) \subseteq opened
  BY DEF SidesOK, TabsOnce
<1>4. DOMAIN sessionTabs = 1 .. Len(sessionTabs) /\ Len(sessionTabs) \in Nat
  BY <1>3
<1> DEFINE L == Len(sessionTabs)
<1>5. \A i \in 1 .. L : sessionTabs[i] \in SessionIds /\ sessionTabs[i] # new
  BY <1>1, <1>3, <1>4 DEF Range
<1>6. sessionTabs' \in Seq(SessionIds) /\ DOMAIN sessionTabs' = 1 .. L
  BY <1>1, <1>2, <1>4, <1>5, SeqDef
<1>7. \A i, j \in 1 .. L : put(sessionTabs[i]) = put(sessionTabs[j]) => i = j
  BY <1>3, <1>4, <1>5 DEF IsInjective
<1>8. IsInjective(sessionTabs')
  BY <1>2, <1>4, <1>6, <1>7 DEF IsInjective
<1>9. new \in Range(sessionTabs') /\ Range(sessionTabs') \subseteq opened'
  <2>1. PICK i \in 1 .. L : sessionTabs[i] = id
    BY <1>2, <1>4 DEF Range
  <2>2. sessionTabs'[i] = new
    BY <1>2, <1>4, <2>1
  <2>3. \A j \in 1 .. L : sessionTabs'[j] = new \/ sessionTabs'[j] \in Range(sessionTabs)
    BY <1>2, <1>4 DEF Range
  <2>4. QED
    BY <1>2, <1>3, <1>6, <2>2, <2>3 DEF Range
<1>10. Seated'
  BY <1>1, <1>2, <1>9, ActiveIsSeated
<1>11. QED
  BY <1>1, <1>2, <1>3, <1>6, <1>8, <1>9, <1>10 DEF SidesOK, TabsOnce

\* The tabs of a profile go, and none is shown.
LEMMA DeleteKeeps ==
    ASSUME SidesOK, DeleteProfile
    PROVE  SidesOK'
<1>1. PICK lost : sessionTabs' = Others(sessionTabs, lost)
  BY DEF DeleteProfile
<1>2. /\ activeTab' = NoTabShown /\ unseated' = (sessionTabs' # <<>>)
      /\ UNCHANGED <<opened, leaving, tools, wslFiles>>
  BY DEF DeleteProfile, PageSide
<1>3. TabsOnce(sessionTabs', opened)
  <2>1. /\ Others(sessionTabs, lost) \in Seq(SessionIds) /\ IsInjective(Others(sessionTabs, lost))
        /\ Range(Others(sessionTabs, lost)) = Range(sessionTabs) \ lost
    BY OthersOnce DEF SidesOK, TabsOnce
  <2>2. QED
    BY <1>1, <2>1 DEF SidesOK, TabsOnce
<1>4. QED
  BY <1>2, <1>3 DEF SidesOK, TabsOnce, Seated

\* Sessions come, go, end, are connected again, or are chosen.
LEMMA SessionsKeep ==
    ASSUME AppInv,
           \/ StartShellTab \/ ShellTabOpens \/ ConnectionOpens
           \/ \E id \in SessionIds :
                \/ CloseSessionTab(id) \/ ShellEnds(id) \/ FilesTabOpens(id) \/ SessionReturns(id)
                \/ ReconnectTab(id) \/ FilesReconnect(id)
                \/ \E alone \in BOOLEAN : StartLeaving(id, alone)
           \/ LeavesLate \/ LeavingFails \/ DeleteProfile \/ DisconnectedKeys \/ CloseShortcut
           \/ \E t \in Range(Bar) : SelectTab(t)
    PROVE  AppInv' /\ OrderGoesOn
<1>1. SidesOK /\ Range(sessionTabs) \subseteq SessionIds
  BY DEF AppInv, SidesOK, TabsOnce
<1>2. ASSUME UNCHANGED <<sessionTabs, opened, leaving, activeTab, unseated, tools, wslFiles>>
      PROVE  SidesOK'
  BY <1>1, <1>2 DEF SidesOK, TabsOnce, Seated
<1>3. ASSUME NEW id, CloseSessionTab(id) PROVE SidesOK' /\ KeepOrder
  BY <1>1, <1>3, LeavesKeeps DEF CloseSessionTab
<1>4. ASSUME NEW id \in SessionIds, ReconnectTab(id) PROVE SidesOK' /\ KeepOrder
  BY <1>1, <1>4, ReconnectKeeps DEF ReconnectTab, PageSide
<1>5. CASE StartShellTab
  <2>1. SidesOK' /\ UNCHANGED <<sessionTabs, tools, wslFiles, bar>>
    BY <1>2, <1>5 DEF StartShellTab, SessionSide, OpenSessions
  <2>2. QED
    BY <2>1, BarRests
<1>6. CASE ShellTabOpens
  <2>1. NewSession \/ UNCHANGED SessionSide
    BY <1>6 DEF ShellTabOpens
  <2>2. UNCHANGED <<tools, wslFiles>> /\ KeepOrder
    BY <1>6 DEF ShellTabOpens, PageSide
  <2>3. SidesOK'
    BY <1>1, <1>2, <2>1, <2>2, NewKeeps DEF SessionSide, OpenSessions
  <2>4. QED
    BY <2>2, <2>3, EffectKeeps
<1>7. CASE ConnectionOpens
  <2>1. NewSession /\ UNCHANGED <<tools, wslFiles>> /\ KeepOrder
    BY <1>7 DEF ConnectionOpens
  <2>2. QED
    BY <1>1, <2>1, NewKeeps, EffectKeeps
<1>8. CASE (\E id \in SessionIds : CloseSessionTab(id) \/ ShellEnds(id)) \/ CloseShortcut
  <2>1. \E id : CloseSessionTab(id)
    BY <1>8 DEF ShellEnds, CloseShortcut
  <2>2. QED
    BY <1>3, <2>1, EffectKeeps
<1>9. ASSUME NEW id \in SessionIds, FilesTabOpens(id) PROVE AppInv' /\ OrderGoesOn
  <2>1. UNCHANGED <<tools, wslFiles>> /\ KeepOrder
    BY <1>9 DEF FilesTabOpens
  <2>2. \/ \E c \in Range(sessionTabs) : Activate(c) /\ UNCHANGED <<sessionTabs, opened, leaving>>
        \/ NewSession
    BY <1>9 DEF FilesTabOpens
  <2>3. SidesOK'
    BY <1>1, <2>1, <2>2, SessionIsShown, NewKeeps
  <2>4. QED
    BY <2>1, <2>3, EffectKeeps
<1>10. CASE \E id \in SessionIds : SessionReturns(id) \/ FilesReconnect(id)
  <2>1. SidesOK' /\ KeepOrder
    BY <1>1, <1>10, ReturnKeeps, FilesKeep DEF SessionReturns, FilesReconnect
  <2>2. QED
    BY <2>1, EffectKeeps
<1>11. CASE \E id \in SessionIds : ReconnectTab(id)
  BY <1>4, <1>11, EffectKeeps
<1>12. CASE DisconnectedKeys
  <2>1. ActiveApp \in SessionIds /\ (CloseSessionTab(ActiveApp) \/ ReconnectTab(ActiveApp))
    BY <1>1, <1>12 DEF DisconnectedKeys
  <2>2. SidesOK' /\ KeepOrder
    BY <1>3, <1>4, <2>1
  <2>3. QED
    BY <2>2, EffectKeeps
<1>13. ASSUME NEW id, NEW alone, StartLeaving(id, alone) PROVE AppInv' /\ OrderGoesOn
  <2>1. /\ leaving'.seen = sessionTabs
        /\ UNCHANGED <<sessionTabs, opened, activeTab, unseated, tools, wslFiles, bar>>
    BY <1>13 DEF StartLeaving, PageSide
  <2>2. SidesOK'
    BY <1>1, <2>1 DEF SidesOK, TabsOnce, Seated
  <2>3. QED
    BY <2>1, <2>2, BarRests
<1>14. CASE LeavingFails
  <2>1. /\ leaving' = NoLeaving
        /\ UNCHANGED <<sessionTabs, opened, activeTab, unseated, tools, wslFiles, bar>>
    BY <1>14 DEF LeavingFails, PageSide
  <2>2. TabsOnce(leaving'.seen, opened)
    BY <2>1, NoTabsOnce DEF NoLeaving
  <2>3. SidesOK'
    BY <1>1, <2>1, <2>2 DEF SidesOK, TabsOnce, Seated
  <2>4. QED
    BY <2>1, <2>3, BarRests
<1>15. CASE LeavesLate \/ DeleteProfile
  <2>1. SidesOK' /\ KeepOrder
    BY <1>1, <1>15, LateKeeps, DeleteKeeps DEF LeavesLate, DeleteProfile
  <2>2. QED
    BY <2>1, EffectKeeps
<1>16. CASE \E t \in Range(Bar) : SelectTab(t)
  <2>1. PICK t : SelectTab(t)
    BY <1>16
  <2>2. /\ UNCHANGED <<sessionTabs, opened, leaving, tools, wslFiles, bar>>
        /\ UNCHANGED <<activeTab, unseated>> \/ (t \in Range(sessionTabs) /\ Activate(t))
    BY <2>1 DEF SelectTab
  <2>3. SidesOK'
    BY <1>1, <2>2, SessionIsShown
  <2>4. QED
    BY <2>2, <2>3, BarRests
<1>17. QED
  BY <1>5, <1>6, <1>7, <1>8, <1>9, <1>10, <1>11, <1>12, <1>13, <1>14, <1>15, <1>16

\* A tab is dragged: where it is dropped it is put, and no other.
LEMMA DragsKeep ==
    ASSUME AppInv,
           (\E t \in Range(Bar) : StartTabDrag(t)) \/ DragOver \/ EndTabDrag \/ CancelTabDrag
    PROVE  AppInv' /\ OrderGoesOn
<1>1. SidesOK /\ sessionTabs \in Seq(SessionIds) /\ IsInjective(sessionTabs)
  BY DEF AppInv, SidesOK, TabsOnce
<1>2. ASSUME UNCHANGED <<sessionTabs, opened, leaving, activeTab, unseated, tools, wslFiles, bar>>
      PROVE  AppInv' /\ OrderGoesOn
  <2>1. SidesOK'
    BY <1>1, <1>2 DEF SidesOK, TabsOnce, Seated
  <2>2. QED
    BY <1>2, <2>1, BarRests
<1>3. CASE (\E t \in Range(Bar) : StartTabDrag(t)) \/ DragOver \/ CancelTabDrag
  BY <1>2, <1>3 DEF StartTabDrag, DragOver, CancelTabDrag, SessionSide, OpenSessions, PageSide
<1>4. CASE EndTabDrag
  <2> DEFINE source == tabDrag.source
             target == tabDrag.target
  <2>1. /\ source \in Range(Bar) /\ tabDrag' = NoTabDrag
        /\ \/ /\ IF source \in Range(sessionTabs) THEN Activate(source)
                 ELSE UNCHANGED <<activeTab, unseated>>
              /\ UNCHANGED <<sessionTabs, opened, leaving, tools, wslFiles, bar>>
           \/ /\ \E p \in Positions(source, target) : Reorder(source, target, p)
              /\ UNCHANGED <<opened, leaving, activeTab, unseated, PageSide>>
           \/ UNCHANGED <<SessionSide, PageSide, bar>>
           \/ Leaves(source, TRUE) /\ UNCHANGED PageSide /\ KeepOrder
    BY <1>4 DEF EndTabDrag
  <2>2. CASE /\ IF source \in Range(sessionTabs) THEN Activate(source)
                ELSE UNCHANGED <<activeTab, unseated>>
             /\ UNCHANGED <<sessionTabs, opened, leaving, tools, wslFiles, bar>>
    <3>1. SidesOK'
      BY <1>1, <2>2, SessionIsShown
    <3>2. QED
      BY <2>2, <3>1, BarRests
  <2>3. CASE UNCHANGED <<SessionSide, PageSide, bar>>
    BY <1>2, <2>3 DEF SessionSide, OpenSessions, PageSide
  <2>4. CASE Leaves(source, TRUE) /\ UNCHANGED PageSide /\ KeepOrder
    <3>1. SidesOK'
      BY <1>1, <2>4, LeavesKeeps
    <3>2. QED
      BY <2>4, <3>1, EffectKeeps
  <2>5. ASSUME NEW p, Reorder(source, target, p), UNCHANGED <<opened, leaving, activeTab, unseated, PageSide>>
        PROVE  AppInv' /\ OrderGoesOn
    <3>1. /\ sessionTabs' = MoveTab(sessionTabs, source, target, p)
          /\ bar' = MoveTab(Bar, source, target, p)
          /\ UNCHANGED <<opened, leaving, activeTab, unseated, tools, wslFiles>>
      BY <2>5 DEF Reorder, PageSide
    <3>2. /\ Bar \in Seq(Tabs) /\ IsInjective(Bar) /\ Range(Bar) = OpenTabs
          /\ \A t, u \in OpenTabs : Before(bar, t, u) <=> Before(Bar, t, u)
          /\ Range(bar) = OpenTabs
      BY BarShows DEF AppInv, BarOK
    <3>3. /\ sessionTabs' \in Seq(SessionIds) /\ IsInjective(sessionTabs')
          /\ Range(sessionTabs') = Range(sessionTabs)
      BY <1>1, <3>1, MoveTabKeeps
    <3>4. /\ bar' \in Seq(Tabs) /\ IsInjective(bar') /\ Range(bar') = Range(Bar)
          /\ \A t, u \in Range(Bar) \ {source} : Before(Bar, t, u) <=> Before(bar', t, u)
      BY <3>1, <3>2, MoveTabKeeps
    <3>5. sessionTabs' # <<>> => sessionTabs # <<>>
      <4>1. SUFFICES ASSUME sessionTabs = <<>> PROVE sessionTabs' = <<>>
        OBVIOUS
      <4>2. Range(sessionTabs') = {}
        BY <3>3, <4>1 DEF Range
      <4>3. DOMAIN sessionTabs' = 1 .. Len(sessionTabs') /\ Len(sessionTabs') \in Nat
        BY <3>3
      <4>4. ~(1 \in DOMAIN sessionTabs')
        BY <4>2 DEF Range
      <4>5. QED
        BY <3>3, <4>3, <4>4
    <3>6. SidesOK'
      BY <1>1, <3>1, <3>3, <3>5 DEF SidesOK, TabsOnce, Seated
    <3>7. BarOK'
      BY <3>1, <3>2, <3>3, <3>4 DEF BarOK, OpenTabs
    <3>8. tabDrag' # tabDrag
      <4>1. source # NoTabShown
        BY <2>1, <3>2, NoneIsNoTab DEF Range
      <4>2. tabDrag'.source = NoTabShown
        BY <2>1 DEF NoTabDrag, NoTabShown
      <4>3. QED
        BY <4>1, <4>2
    <3>9. OrderGoesOn
      <4>1. ASSUME NEW t \in OpenTabs, NEW u \in OpenTabs, source \notin {t, u}
            PROVE  Before(bar, t, u) <=> Before(bar', t, u)
        BY <3>2, <3>4, <4>1
      <4>2. QED
        BY <3>2, <3>8, <4>1 DEF OrderGoesOn
    <3>10. QED
      BY <3>6, <3>7, <3>9 DEF AppInv
  <2>6. QED
    BY <2>1, <2>2, <2>3, <2>4, <2>5
<1>5. QED
  BY <1>3, <1>4

\* Every session and page that is open has its tab, once, and tabs stay in the order the
\* user gave them, whatever comes, goes, ends, is connected again, comes back late or is
\* dragged; the one shown is among them, but after what it showed went with its session,
\* with its profile or under a late handler, until another is chosen or comes.
THEOREM BarIsSound == AppSpec => BarSound
<1>1. AppInit => AppInv
  <2> SUFFICES ASSUME AppInit PROVE AppInv
    OBVIOUS
  <2>1. /\ sessionTabs = <<>> /\ opened = {} /\ activeTab = NoTabShown /\ tools = {}
        /\ wslFiles = <<>> /\ bar = <<>> /\ leaving.seen = <<>>
    BY DEF AppInit, NoLeaving
  <2>2. Range(<<>>) = {} /\ IsInjective(<<>>)
    BY DEF Range, IsInjective
  <2>3. QED
    BY <2>1, <2>2, NoTabsOnce DEF AppInv, SidesOK, Seated, BarOK, OpenTabs
<1>2. AppInv /\ [AppNext]_appVars => AppInv' /\ OrderGoesOn
  <2> SUFFICES ASSUME AppInv, [AppNext]_appVars PROVE AppInv' /\ OrderGoesOn
    OBVIOUS
  <2>1. CASE UNCHANGED appVars
    <3>1. SidesOK' /\ UNCHANGED <<sessionTabs, tools, wslFiles, bar>>
      BY <2>1 DEF AppInv, SidesOK, TabsOnce, Seated, appVars
    <3>2. QED
      BY <3>1, BarRests
  <2>2. CASE AppNext
    BY <2>2, PagesKeep, SessionsKeep, DragsKeep DEF AppNext
  <2>3. QED
    BY <2>1, <2>2
<1>3. AppInv => ShownIsOneOfTheTabs
  <2> SUFFICES ASSUME AppInv PROVE ShownIsOneOfTheTabs
    OBVIOUS
  <2>1. IsInjective(Bar) /\ Range(Bar) = OpenTabs /\ Range(Sources) = OpenTabs /\ Bar \in Seq(Tabs)
    BY BarShows
  <2> DEFINE all == Those(ToolOrder, tools) \o wslFiles
  <2>2. all \in Seq(Tabs) /\ Range(all) = tools \cup Range(wslFiles)
    BY SourcesOnce DEF AppInv, SidesOK, TabsOnce
  <2>3. Fallback = IF activeTab # NoTabShown THEN activeTab
                   ELSE IF all = <<>> THEN NoTabShown ELSE Head(all)
    BY DEF Fallback
  <2> HIDE DEF all
  <2>4. all # <<>> => Head(all) \in Range(all)
    <3>1. SUFFICES ASSUME all # <<>> PROVE Head(all) \in Range(all)
      OBVIOUS
    <3>2. DOMAIN all = 1 .. Len(all) /\ 1 \in 1 .. Len(all) /\ Head(all) = all[1]
      BY <2>2, <3>1
    <3>3. QED
      BY <3>2 DEF Range
  <2>5. all = <<>> => Range(all) = {}
    BY DEF Range
  <2>6. sessionTabs = <<>> => Range(sessionTabs) = {}
    BY DEF Range
  <2>7. OpenTabs # {} /\ ~unseated => ActiveApp \in OpenTabs
    <3>1. SUFFICES ASSUME OpenTabs # {}, ~unseated PROVE ActiveApp \in OpenTabs
      OBVIOUS
    <3>2. CASE ActiveTool # NoTabShown
      BY <3>2 DEF ActiveApp, ActiveTool, OpenTabs
    <3>3. CASE ActiveTool = NoTabShown
      <4>1. ActiveApp = Fallback
        BY <3>3 DEF ActiveApp
      <4>2. CASE activeTab # NoTabShown
        BY <2>3, <3>1, <4>1, <4>2 DEF AppInv, SidesOK, Seated, OpenTabs
      <4>3. CASE activeTab = NoTabShown
        <5>1. Range(sessionTabs) = {}
          BY <2>6, <3>1, <4>3 DEF AppInv, SidesOK, Seated
        <5>2. Range(all) = OpenTabs
          BY <2>2, <5>1 DEF OpenTabs
        <5>3. all # <<>>
          BY <2>5, <3>1, <5>2
        <5>4. QED
          BY <2>3, <2>4, <4>1, <4>3, <5>2, <5>3
      <4>4. QED
        BY <4>2, <4>3
    <3>4. QED
      BY <3>2, <3>3
  <2>8. Bar # <<>> => OpenTabs # {}
    <3>1. DOMAIN Bar = 1 .. Len(Bar) /\ Len(Bar) \in Nat
      BY <2>1
    <3>2. Bar # <<>> => 1 \in DOMAIN Bar
      BY <2>1, <3>1
    <3>3. QED
      BY <2>1, <3>2 DEF Range
  <2>9. QED
    BY <2>1, <2>7, <2>8 DEF ShownIsOneOfTheTabs
<1>4. [AppNext]_appVars /\ AppInv =>
         [\A t, u \in Range(bar) \cap Range(bar') :
            \/ Before(bar, t, u) <=> Before(bar', t, u)
            \/ tabDrag.source \in {t, u} /\ tabDrag' # tabDrag]_bar
  BY <1>2 DEF OrderGoesOn
<1>5. QED
  BY <1>1, <1>2, <1>3, <1>4, PTL DEF AppSpec, BarSound, OrderStays
===============================================================================
