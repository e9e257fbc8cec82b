---------------------------- MODULE TerminalProofs ----------------------------
(***************************************************************************)
(* Terminals, for any number of events, failures and timers: that the      *)
(* strip above a pane never loses its poll, that its size comes to the     *)
(* pseudo terminal, that what is typed is sent once; and, for any number   *)
(* of connections and calls, that the tables of sessions, terminals and    *)
(* channels agree.                                                         *)
(***************************************************************************)
EXTENDS TerminalStatus, TerminalSize, TerminalIme, SshSession, SequenceTheorems, TLAPS

(* The strip above a terminal (TerminalStatus).                            *)

\* OnePoll alone is not inductive: the answer for a distribution sets no timer,
\* so that its interval must be known to stay while the strip is shown.
StatusInv ==
    /\ OnePoll
    /\ statusShown \in BOOLEAN /\ mounted \in BOOLEAN
    /\ statusKind = "wsl" /\ statusShown /\ mounted => timers # {}

\* A refresh for the last poll, while the strip is shown, leaves a timer or is
\* itself what the poll waits for; an interval stays.
LEMMA RefreshPolls ==
    ASSUME NEW p, NEW of, Refresh(p, of)
    PROVE  /\ timers' \subseteq {p}
           /\ timers' # {} \/ asking'.poll = p
           /\ statusKind = "wsl" => timers' # {}
  <1>1. CASE asking = NotAsking
    BY <1>1 DEF Refresh
  <1>2. CASE asking # NotAsking
    BY <1>2 DEF Refresh, GoesOnUnasked
  <1>3. QED BY <1>1, <1>2

\* At the start the strip is hidden or its first request goes out.
LEMMA StatusStarts == StatusInit => StatusInv
  BY DEF StatusInit, StatusInv, OnePoll

\* The strip is shown, hidden or connected anew.
LEMMA ChangePolls == StatusInv /\ TabStatusChange => StatusInv'
  <1> SUFFICES ASSUME StatusInv, TabStatusChange PROVE StatusInv'
    OBVIOUS
  <1>1. /\ mounted /\ mounted' = mounted /\ statusKind' = statusKind
        /\ statusShown' \in BOOLEAN
    BY DEF StatusInv, TabStatusChange
  <1>2. CASE statusShown'
    <2>1. Refresh(pollers', statusOf')
      BY <1>2 DEF TabStatusChange
    <2>2. /\ timers' \subseteq {pollers'}
          /\ timers' # {} \/ asking'.poll = pollers'
          /\ statusKind = "wsl" => timers' # {}
      BY <2>1, RefreshPolls
    <2>3. QED BY <1>1, <1>2, <2>2 DEF StatusInv, OnePoll
  <1>3. CASE ~statusShown'
    <2>1. timers' = {}
      BY <1>3 DEF TabStatusChange
    <2>2. QED BY <1>1, <1>3, <2>1 DEF StatusInv, OnePoll
  <1>4. QED BY <1>2, <1>3

\* A timer comes.
LEMMA TimerPolls ==
    ASSUME StatusInv, NEW p \in timers, TimerFires(p)
    PROVE  StatusInv'
  <1>1. /\ UNCHANGED <<statusKind, statusShown, mounted, pollers>>
        /\ Refresh(p, statusOf)
    BY DEF TimerFires
  <1>2. p = pollers /\ statusShown /\ mounted
    BY DEF StatusInv, OnePoll
  <1>3. /\ timers' \subseteq {p}
        /\ timers' # {} \/ asking'.poll = p
        /\ statusKind = "wsl" => timers' # {}
    BY <1>1, RefreshPolls
  <1>4. QED BY <1>1, <1>2, <1>3 DEF StatusInv, OnePoll

\* An answer or an error: the poll that awaited it goes on if it is the last
\* one, and if it is not then the last one has its timer.
LEMMA EndPolls ==
    ASSUME StatusInv, Ends, UNCHANGED <<statusKind, statusShown, mounted, pollers>>
    PROVE  StatusInv'
  <1>1. CASE statusKind = "wsl"
    BY <1>1 DEF StatusInv, OnePoll, Ends
  <1>2. CASE statusKind # "wsl"
    <2>1. timers' = timers \cup GoesOn(asking.poll)
      BY <1>2 DEF Ends
    <2>2. GoesOn(asking.poll) \subseteq {q \in {pollers} : statusShown /\ mounted}
      BY DEF GoesOn
    <2>3. ASSUME statusShown, mounted PROVE timers' # {}
      <3>1. CASE asking.poll = pollers
        BY <2>1, <2>3, <3>1 DEF GoesOn
      <3>2. CASE asking.poll # pollers
        BY <2>1, <2>3, <3>2 DEF StatusInv, OnePoll
      <3>3. QED BY <3>1, <3>2
    <2>4. QED BY <1>2, <2>1, <2>2, <2>3 DEF StatusInv, OnePoll
  <1>3. QED BY <1>1, <1>2

\* Every step of the strip keeps the invariant.
LEMMA StatusStep == StatusInv /\ [StatusNext]_statusVars => StatusInv'
  <1> SUFFICES ASSUME StatusInv, [StatusNext]_statusVars PROVE StatusInv'
    OBVIOUS
  <1>1. CASE TabStatusChange
    BY <1>1, ChangePolls
  <1>2. CASE StatusComes
    BY <1>2, EndPolls DEF StatusComes
  <1>3. CASE StatusFails
    BY <1>3, EndPolls DEF StatusFails
  <1>4. CASE StatusUnmounts
    BY <1>4 DEF StatusInv, OnePoll, StatusUnmounts
  <1>5. CASE \E p \in timers : TimerFires(p)
    BY <1>5, TimerPolls
  <1>6. CASE UNCHANGED statusVars
    BY <1>6 DEF StatusInv, OnePoll, statusVars
  <1>7. QED BY <1>1, <1>2, <1>3, <1>4, <1>5, <1>6 DEF StatusNext

\* While the strip is shown exactly one poll goes on, and none while it is not
\* (useSshHostOverview, useWslHostOverview).
THEOREM PollGoesOn == StatusSpec => []OnePoll
  <1>1. StatusInit => StatusInv
    BY StatusStarts
  <1>2. StatusInv /\ [StatusNext]_statusVars => StatusInv'
    BY StatusStep
  <1>3. StatusInv => OnePoll
    BY DEF StatusInv
  <1>4. QED BY <1>1, <1>2, <1>3, PTL DEF StatusSpec
-----------------------------------------------------------------------------
(* The size of the pane (TerminalSize).                                    *)

PaneSizes == Boxes \cup {Nudge}
Entries == [size : PaneSizes, rev : Nat, redraw : BOOLEAN, last : BOOLEAN]
Newest == queue[Len(queue)]

SizeTypes ==
    /\ box \in Boxes /\ pty \in PaneSizes
    /\ requested \in Boxes \cup {None} /\ reported \in Boxes \cup {None}
    /\ due \subseteq Causes
    /\ revision \in Nat /\ attempts \in 0..MaxAttempts
    /\ queue \in Seq(Entries)

\* The requests wait in the order they were made, each with its size behind its nudge.
InOrder ==
    /\ \A i, j \in 1..Len(queue) : i < j => queue[i].rev <= queue[j].rev
    /\ \A i, j \in 1..Len(queue) : i < j /\ queue[i].last => queue[i].rev < queue[j].rev
    /\ \A i \in 1..Len(queue) : ~queue[i].last =>
          i < Len(queue) /\ queue[i + 1].last /\ queue[i + 1].rev = queue[i].rev

\* The newest request is for the size that counts as requested; without one the
\* pseudo terminal has that size, or it was forgotten.
NewestCounts ==
    /\ queue # <<>> => Newest.rev = revision /\ Newest.last /\ Newest.size = requested
    /\ queue = <<>> => requested \in {None, pty}

GivenUp == queue = <<>> /\ attempts = MaxAttempts

\* When nothing will call reportSize any more, all that is owed was asked for.
AsksForAll ==
    due = {} /\ visible =>
        /\ box = requested \/ skipped \/ (requested = None /\ GivenUp)
        /\ recover => GivenUp \/ (queue # <<>> /\ Newest.redraw)

SizeInv == SizeTypes /\ InOrder /\ NewestCounts /\ AsksForAll

\* At the start no size was asked for.
LEMMA SizeStarts == SizeInit => SizeInv
<1> SUFFICES ASSUME SizeInit PROVE SizeInv
  OBVIOUS
<1>1. SizeTypes
  <2>1. MaxAttempts \in Nat /\ <<>> \in Seq(Entries)
    BY SizeAssumption
  <2>2. QED
    BY <2>1 DEF SizeInit, SizeTypes, PaneSizes, Causes
<1>2. InOrder
  BY DEF SizeInit, InOrder
<1>3. NewestCounts /\ AsksForAll
  BY DEF SizeInit, NewestCounts, AsksForAll
<1>4. QED
  BY <1>1, <1>2, <1>3 DEF SizeInv

\* The steps that send nothing and hear nothing.
LEMMA PaneKeeps ==
    ASSUME SizeInv,
           \/ \E b \in Boxes : Resizes(b)
           \/ Switches \/ EntersAlternate \/ Overloaded
           \/ \E cause \in Causes : StaysHidden(cause) \/ SizeKnown(cause)
    PROVE  SizeInv'
<1> USE SizeAssumption
    DEF SizeInv, SizeTypes, InOrder, NewestCounts, AsksForAll, GivenUp, Newest, Causes
<1>1. ASSUME NEW b \in Boxes, Resizes(b) PROVE SizeInv'
  BY <1>1 DEF Resizes
<1>2. CASE Switches \/ EntersAlternate \/ Overloaded
  BY <1>2 DEF Switches, EntersAlternate, Overloaded
<1>3. ASSUME NEW cause \in Causes, StaysHidden(cause) PROVE SizeInv'
  BY <1>3 DEF StaysHidden
<1>4. ASSUME NEW cause \in Causes, SizeKnown(cause) PROVE SizeInv'
  BY <1>4 DEF SizeKnown, Redraw
<1>5. QED
  BY <1>1, <1>2, <1>3, <1>4

\* A new request goes behind all others.
LEMMA RequestKeeps ==
    ASSUME SizeInv, NEW cause \in Causes, ResizeRequest(cause)
    PROVE  SizeInv'
<1> DEFINE entry == [size |-> box, rev |-> revision + 1, redraw |-> Redraw(cause), last |-> TRUE]
           nudge == [entry EXCEPT !.size = Nudge, !.last = FALSE]
           sizes == IF Redraw(cause) THEN <<nudge, entry>> ELSE <<entry>>
           n == Len(queue)
<1> USE SizeAssumption
<1>1. queue' = queue \o sizes
  BY DEF ResizeRequest
<1>2. /\ revision' = revision + 1 /\ requested' = box
      /\ UNCHANGED <<box, visible, reported, attempts, recover, pty>>
      /\ due' \subseteq due /\ skipped' = FALSE
  BY DEF ResizeRequest
<1>3. Redraw(cause) \in BOOLEAN /\ revision \in Nat /\ queue \in Seq(Entries) /\ n \in Nat
  BY DEF SizeInv, SizeTypes, Redraw
<1>4. entry \in Entries /\ entry.rev = revision + 1 /\ entry.last
  BY <1>3 DEF SizeInv, SizeTypes, Entries, PaneSizes
<1> HIDE DEF entry
<1>5. nudge \in Entries /\ nudge.rev = revision + 1 /\ ~nudge.last
  BY <1>4 DEF Entries, PaneSizes
<1> HIDE DEF nudge
<1>6. sizes \in Seq(Entries) /\ Len(sizes) \in 1..2 /\ sizes[Len(sizes)] = entry
  BY <1>4, <1>5
<1>7. \A i \in 1..Len(sizes) : sizes[i].rev = revision + 1
  BY <1>4, <1>5
<1>8. \A i \in 1..Len(sizes) : sizes[i].last <=> i = Len(sizes)
  BY <1>4, <1>5
<1> HIDE DEF sizes
<1>9. /\ queue' \in Seq(Entries) /\ Len(queue') = n + Len(sizes)
      /\ \A i \in 1..n : queue'[i] = queue[i]
      /\ \A i \in (n + 1)..Len(queue') : queue'[i] = sizes[i - n]
  BY <1>1, <1>3, <1>6, ConcatProperties
<1> HIDE DEF n
<1>10. SizeTypes'
  BY <1>2, <1>3, <1>9 DEF SizeInv, SizeTypes
<1>11. InOrder'
  <2>1. \A i \in 1..n : queue[i].rev \in Nat
    <3>1. \A i \in 1..n : queue[i] \in Entries
      BY <1>3 DEF n
    <3>2. QED
      BY <3>1 DEF Entries
  <2>2. \A i \in 1..n : queue[i].rev <= revision
    <3>1. \A i \in 1..n : queue[i].rev <= queue[n].rev
      BY <1>3, <2>1 DEF SizeInv, InOrder, n
    <3>2. n # 0 => queue[n].rev = revision
      BY <1>3 DEF SizeInv, NewestCounts, Newest, n
    <3>3. QED
      BY <1>3, <3>1, <3>2
  <2>3. n \in Nat /\ Len(sizes) \in 1..2 /\ Len(queue') = n + Len(sizes)
    BY <1>3, <1>6, <1>9
  <2>4. ASSUME NEW i \in (n + 1)..Len(queue')
         PROVE  queue'[i].rev = revision + 1 /\ (queue'[i].last <=> i = Len(queue'))
    <3>1. PICK k \in 1..Len(sizes) : k = i - n /\ (k = Len(sizes) <=> i = Len(queue'))
      BY <2>3
    <3>2. queue'[i] = sizes[k]
      BY <1>9, <3>1
    <3>3. sizes[k].rev = revision + 1
      BY <1>7
    <3>4. sizes[k].last <=> k = Len(sizes)
      BY <1>8
    <3>5. (k = Len(sizes)) <=> (i = Len(queue'))
      BY <2>3, <3>1
    <3>6. QED
      BY <3>2, <3>3, <3>4, <3>5
  <2>5. \A i \in (n + 1)..Len(queue') : queue'[i].rev = revision + 1
    BY <2>4
  <2>6. \A i \in (n + 1)..Len(queue') : queue'[i].last <=> i = Len(queue')
    BY <2>4
  <2>7. Len(queue') \in {n + 1, n + 2} /\ n \in Nat
    BY <1>3, <1>6, <1>9
  <2>8. InOrder
    BY DEF SizeInv
  <2>9. \A i \in 1..Len(queue') : i \in 1..n \/ i \in (n + 1)..Len(queue')
    BY <2>7
  <2>10. ASSUME NEW i \in 1..Len(queue'), NEW j \in 1..Len(queue'), i < j
        PROVE  /\ queue'[i].rev <= queue'[j].rev
               /\ queue'[i].last => queue'[i].rev < queue'[j].rev
    <3>1. CASE j \in 1..n
      BY <1>9, <2>7, <2>8, <2>10, <3>1 DEF InOrder, n
    <3>2. CASE i \in 1..n /\ j \notin 1..n
      <4>1. queue'[j].rev = revision + 1 /\ queue'[i] = queue[i]
        BY <1>9, <2>5, <2>9, <3>2
      <4>2. QED
        BY <1>3, <2>1, <2>2, <3>2, <4>1
    <3>3. CASE i \notin 1..n
      <4>1. i \in (n + 1)..Len(queue') /\ j \in (n + 1)..Len(queue') /\ i # Len(queue')
        BY <2>7, <2>10, <2>9, <3>3
      <4>2. queue'[i].rev = revision + 1 /\ queue'[j].rev = revision + 1 /\ ~queue'[i].last
        BY <2>5, <2>6, <4>1
      <4>3. QED
        BY <1>3, <4>2
    <3>4. QED
      BY <2>7, <2>10, <3>1, <3>2, <3>3
  <2>11. ASSUME NEW i \in 1..Len(queue'), ~queue'[i].last
        PROVE  i < Len(queue') /\ queue'[i + 1].last /\ queue'[i + 1].rev = queue'[i].rev
    <3>1. CASE i \in 1..n
      <4>1. i < n /\ queue[i + 1].last /\ queue[i + 1].rev = queue[i].rev
        BY <1>9, <2>8, <2>11, <3>1 DEF InOrder, n
      <4>2. QED
        BY <1>9, <2>7, <3>1, <4>1
    <3>2. CASE i \notin 1..n
      <4>1. i \in (n + 1)..Len(queue') /\ i # Len(queue')
        BY <2>6, <2>11, <2>9, <3>2
      <4>2. i + 1 = Len(queue') /\ i + 1 \in (n + 1)..Len(queue')
        BY <2>7, <4>1
      <4>3. QED
        BY <2>5, <2>6, <2>7, <4>1, <4>2
    <3>3. QED
      BY <3>1, <3>2
  <2>12. QED
    BY <2>10, <2>11 DEF InOrder
<1>12. Newest' = entry /\ queue' # <<>>
  <2>1. n \in Nat /\ Len(sizes) \in 1..2 /\ Len(queue') = n + Len(sizes)
    BY <1>3, <1>6, <1>9
  <2>2. PICK m \in 1..2 : m = Len(sizes) /\ Len(queue') = n + m
    BY <2>1
  <2>3. n + m \in (n + 1)..(n + m) /\ (n + m) - n = m
    BY <2>1
  <2>4. queue'[Len(queue')] = sizes[Len(sizes)]
    BY <1>9, <2>2, <2>3
  <2>5. Len(queue') # 0
    BY <2>1
  <2>6. QED
    BY <1>6, <2>4, <2>5 DEF Newest
<1>13. NewestCounts' /\ AsksForAll'
  BY <1>2, <1>12 DEF NewestCounts, AsksForAll, entry, Redraw
<1>14. QED
  BY <1>10, <1>11, <1>13 DEF SizeInv

\* A size is taken, or a request that something newer overtook fails: what is left of
\* the queue still ends with the newest request.
LEMMA DropKeeps ==
    ASSUME SizeInv, NEW k \in Nat, k < Len(queue),
           queue' = SubSeq(queue, k + 1, Len(queue)), pty' \in PaneSizes,
           UNCHANGED <<box, visible, due, requested, reported, revision, attempts, recover,
                       skipped>>
    PROVE  SizeInv'
<1> DEFINE n == Len(queue)
<1>1. queue \in Seq(Entries) /\ n \in Nat
  BY DEF SizeInv, SizeTypes
<1>2. /\ queue' \in Seq(Entries) /\ Len(queue') = n - k
      /\ \A i \in 1..(n - k) : queue'[i] = queue[k + i]
  BY <1>1, SubSeqProperties
<1>3. Newest' = Newest /\ queue' # <<>> /\ queue # <<>>
  <2>1. n - k \in 1..(n - k) /\ k + (n - k) = n
    BY <1>1
  <2>2. queue'[n - k] = queue[n]
    BY <1>2, <2>1
  <2>3. queue' # <<>> /\ queue # <<>>
    <3>1. Len(queue') # 0 /\ Len(queue) # 0
      BY <1>1, <1>2
    <3>2. QED
      BY <3>1
  <2>4. QED
    BY <1>2, <2>2, <2>3 DEF Newest
<1>4. SizeTypes'
  BY <1>2 DEF SizeInv, SizeTypes
<1>5. InOrder'
  <2>1. ASSUME NEW i \in 1..Len(queue'), NEW j \in 1..Len(queue'), i < j
        PROVE  /\ queue'[i].rev <= queue'[j].rev
               /\ queue'[i].last => queue'[i].rev < queue'[j].rev
    <3>1. PICK v \in 1..n, w \in 1..n : v < w /\ queue'[i] = queue[v] /\ queue'[j] = queue[w]
      <4>1. k + i \in 1..n /\ k + j \in 1..n /\ k + i < k + j
        BY <1>1, <1>2, <2>1
      <4>2. QED
        BY <1>2, <4>1
    <3>2. QED
      BY <3>1 DEF SizeInv, InOrder
  <2>2. ASSUME NEW i \in 1..Len(queue'), ~queue'[i].last
        PROVE  i < Len(queue') /\ queue'[i + 1].last /\ queue'[i + 1].rev = queue'[i].rev
    <3>1. PICK v \in 1..n : v = k + i /\ queue'[i] = queue[v]
      <4>1. k + i \in 1..n
        BY <1>1, <1>2
      <4>2. QED
        BY <1>2, <4>1
    <3>2. v < n /\ queue[v + 1].last /\ queue[v + 1].rev = queue[v].rev
      BY <2>2, <3>1 DEF SizeInv, InOrder
    <3>3. i < Len(queue') /\ queue'[i + 1] = queue[v + 1]
      <4>1. i + 1 \in 1..(n - k) /\ k + (i + 1) = v + 1
        BY <1>1, <1>2, <3>1, <3>2
      <4>2. QED
        BY <1>1, <1>2, <4>1
    <3>4. QED
      BY <3>1, <3>2, <3>3
  <2>3. QED
    BY <2>1, <2>2 DEF InOrder
<1>6. NewestCounts' /\ AsksForAll'
  BY <1>3 DEF SizeInv, NewestCounts, AsksForAll, GivenUp
<1>7. QED
  BY <1>4, <1>5, <1>6 DEF SizeInv

\* The head of the queue: an overtaken one is not the last request, a nudge has its
\* size behind it, and one that is neither is alone.
LEMMA HeadOfQueue ==
    ASSUME SizeInv, queue # <<>>
    PROVE  /\ Head(queue) \in Entries /\ Len(queue) \in Nat \ {0}
           /\ Superseded(Head(queue)) \/ ~Head(queue).last => Len(queue) > 1
           /\ Superseded(Head(queue)) /\ ~Head(queue).last => Len(queue) > 2
           /\ ~Superseded(Head(queue)) /\ Head(queue).last => Len(queue) = 1
           /\ ~Superseded(Head(queue)) /\ ~Head(queue).last => Len(queue) = 2
           /\ ~Superseded(Head(queue)) /\ Head(queue).last => Head(queue) = Newest
<1> DEFINE n == Len(queue)
<1>1. queue \in Seq(Entries) /\ n \in Nat \ {0} /\ Head(queue) = queue[1] /\ queue[1] \in Entries
  BY DEF SizeInv, SizeTypes
<1>2. n \in Nat /\ n > 0
  BY <1>1
<1>3. \A i \in 1..n : queue[i] \in Entries /\ queue[i].rev \in Nat
  <2>1. \A i \in 1..n : queue[i] \in Entries
    BY <1>1
  <2>2. QED
    BY <2>1 DEF Entries
<1>4. queue[n].rev = revision /\ queue[n].last
  BY DEF SizeInv, NewestCounts, Newest
<1>5. /\ \A i \in 1..n : 1 < i /\ queue[1].last => queue[1].rev < queue[i].rev
      /\ ~queue[1].last => 1 < n /\ queue[2].last /\ queue[2].rev = queue[1].rev
      /\ 2 \in 1..n => \A i \in 1..n : 2 < i /\ queue[2].last => queue[2].rev < queue[i].rev
  BY <1>1 DEF SizeInv, InOrder
<1>6. Superseded(Head(queue)) <=> queue[1].rev # queue[n].rev
  BY <1>1, <1>4 DEF Superseded
<1>7. CASE queue[1].last
  <2>1. CASE n = 1
    BY <1>1, <1>6, <1>7, <2>1 DEF Newest
  <2>2. CASE n > 1
    BY <1>1, <1>3, <1>5, <1>6, <1>7, <2>2
  <2>3. n = 1 \/ n > 1
    BY <1>2
  <2>4. QED
    BY <2>1, <2>2, <2>3
<1>8. CASE ~queue[1].last
  <2>1. n > 1 /\ queue[2].last /\ queue[2].rev = queue[1].rev
    BY <1>5, <1>8
  <2>2. CASE n = 2
    BY <1>1, <1>6, <1>8, <2>1, <2>2
  <2>3. CASE n > 2
    <3>1. queue[2].rev < queue[n].rev
      BY <1>1, <1>5, <2>1, <2>3
    <3>2. QED
      BY <1>1, <1>3, <1>6, <1>8, <2>1, <2>3, <3>1
  <2>4. n = 2 \/ n > 2
    BY <1>2, <2>1
  <2>5. QED
    BY <2>2, <2>3, <2>4
<1>9. QED
  BY <1>7, <1>8

\* The answer to the first request in the queue, good or bad, keeps the invariant.
LEMMA AnswerKeeps ==
    ASSUME SizeInv, Sent \/ Acknowledged \/ FailsUnheard \/ RequestFails
    PROVE  SizeInv'
<1> DEFINE head == Head(queue)
<1>1. queue # <<>>
  BY DEF Sent, Acknowledged, FailsUnheard, RequestFails
<1>2. /\ head \in Entries /\ Len(queue) \in Nat \ {0} /\ queue \in Seq(Entries)
      /\ Superseded(head) \/ ~head.last => Len(queue) > 1
      /\ Superseded(head) /\ ~head.last => Len(queue) > 2
      /\ ~Superseded(head) /\ head.last => Len(queue) = 1
      /\ ~Superseded(head) /\ ~head.last => Len(queue) = 2
      /\ ~Superseded(head) /\ head.last => head = Newest
  BY <1>1, HeadOfQueue DEF SizeInv, SizeTypes
<1>3. /\ Tail(queue) = SubSeq(queue, 2, Len(queue))
      /\ Len(queue) > 1 => Tail(Tail(queue)) = SubSeq(queue, 3, Len(queue))
  BY <1>1, <1>2
<1> HIDE DEF head
<1>4. CASE Sent
  <2>1. /\ Len(queue) > 1 /\ queue' = SubSeq(queue, 1 + 1, Len(queue)) /\ pty' \in PaneSizes
        /\ UNCHANGED <<box, visible, due, requested, reported, revision, attempts, recover,
                       skipped>>
    BY <1>2, <1>3, <1>4 DEF Sent, head, Entries
  <2>2. QED
    BY <2>1, DropKeeps
<1>5. CASE FailsUnheard
  <2>1. PICK k \in {1, 2} : k < Len(queue) /\ queue' = SubSeq(queue, k + 1, Len(queue))
    <3>1. CASE head.last
      BY <1>2, <1>3, <1>5, <3>1 DEF FailsUnheard, WithoutRequest, head
    <3>2. CASE ~head.last
      BY <1>2, <1>3, <1>5, <3>2 DEF FailsUnheard, WithoutRequest, head
    <3>3. QED
      BY <3>1, <3>2
  <2>2. /\ pty' \in PaneSizes
        /\ UNCHANGED <<box, visible, due, requested, reported, revision, attempts, recover,
                       skipped>>
    BY <1>5 DEF FailsUnheard, SizeInv, SizeTypes
  <2>3. QED
    BY <2>1, <2>2, DropKeeps
<1>6. CASE Acknowledged
  <2>1. queue' = <<>> /\ head = Newest
    BY <1>1, <1>2, <1>6 DEF Acknowledged, head
  <2>2. /\ pty' = head.size /\ requested' = head.size /\ reported' = head.size
        /\ attempts' = 0 /\ recover' = (recover /\ ~head.redraw)
        /\ UNCHANGED <<box, visible, due, revision, skipped>>
    BY <1>6 DEF Acknowledged, head
  <2>3. head.size = requested
    BY <1>1, <2>1 DEF SizeInv, NewestCounts
  <2>4. SizeTypes' /\ InOrder'
    BY <1>2, <2>1, <2>2, <2>3, SizeAssumption DEF SizeInv, SizeTypes, InOrder, Entries
  <2>5. NewestCounts'
    BY <2>1, <2>2 DEF NewestCounts
  <2>6. AsksForAll'
    BY <1>1, <2>1, <2>2, <2>3 DEF SizeInv, AsksForAll, GivenUp
  <2>7. QED
    BY <2>4, <2>5, <2>6 DEF SizeInv
<1>7. CASE RequestFails
  <2>1. queue' = <<>>
    <3>1. CASE head.last
      BY <1>1, <1>2, <1>7, <3>1 DEF RequestFails, WithoutRequest, head
    <3>2. CASE ~head.last
      BY <1>2, <1>3, <1>7, <3>2 DEF RequestFails, WithoutRequest, head
    <3>3. QED
      BY <3>1, <3>2
  <2>2. /\ requested' = None /\ reported' = None
        /\ UNCHANGED <<box, visible, revision, recover, pty, skipped>>
        /\ IF attempts < MaxAttempts
           THEN attempts' = attempts + 1 /\ due' = due \cup {"retry"}
           ELSE UNCHANGED <<attempts, due>>
    BY <1>7 DEF RequestFails, ForgetSizes
  <2>3. attempts \in 0..MaxAttempts /\ MaxAttempts \in Nat
    BY SizeAssumption DEF SizeInv, SizeTypes
  <2>4. SizeTypes' /\ InOrder'
    <3>1. attempts' \in 0..MaxAttempts
      BY <2>2, <2>3
    <3>2. due' \subseteq Causes
      BY <2>2 DEF SizeInv, SizeTypes, Causes
    <3>3. SizeTypes'
      BY <2>1, <2>2, <3>1, <3>2 DEF SizeInv, SizeTypes
    <3>4. QED
      BY <2>1, <3>3 DEF InOrder
  <2>5. NewestCounts' /\ AsksForAll'
    BY <2>1, <2>2, <2>3 DEF NewestCounts, AsksForAll, GivenUp
  <2>6. QED
    BY <2>4, <2>5 DEF SizeInv
<1>8. QED
  BY <1>4, <1>5, <1>6, <1>7

\* Every step of the sizes keeps the invariant.
LEMMA SizeStep == SizeInv /\ [SizeNext]_sizeVars => SizeInv'
<1> SUFFICES ASSUME SizeInv, [SizeNext]_sizeVars PROVE SizeInv'
  OBVIOUS
<1>1. CASE SizeNext
  BY <1>1, PaneKeeps, RequestKeeps, AnswerKeeps DEF SizeNext
<1>2. CASE UNCHANGED sizeVars
  BY <1>2 DEF sizeVars, SizeInv, SizeTypes, InOrder, NewestCounts, AsksForAll, GivenUp, Newest
<1>3. QED
  BY <1>1, <1>2

\* However many layouts, retries and repaints overlap, the pseudo terminal ends up with
\* the size of the pane, and no repaint is forgotten.
THEOREM SizeIsSound == SizeSpec => []SizeSound
<1>1. SizeInv => SizeSound
  BY SizeAssumption
     DEF SizeInv, SizeTypes, NewestCounts, AsksForAll, GivenUp, SizeSound, SizeSettles,
         RepaintSettles, Settled
<1>2. QED
  BY <1>1, SizeStarts, SizeStep, PTL DEF SizeSpec
-----------------------------------------------------------------------------
(* What an input method's text becomes (TerminalIme).                      *)

Records == [start : Nat, sent : BOOLEAN, text : Seq(Nat)]
Once(s) == \A i, j \in 1..Len(s) : s[i] = s[j] /\ s[i] # 0 => i = j

\* The current composition has not been sent yet.
Waits == Current > 0 /\ ~compositions[Current].sent
\* The callback of a key that was answered without a composition will look for its text.
Awaits == probe.on /\ probe.generation = Current

\* The characters of the textarea are in the order in which they were typed.
ImeTypes ==
    /\ typed \in Nat
    /\ area \in Seq(Nat) /\ \A i \in 1..Len(area) : area[i] \in 1..typed
    /\ \A i, j \in 1..Len(area) : i < j => area[i] < area[j]
    /\ sent \in Seq(Nat) /\ \A x \in ToSet(sent) : x <= typed
    /\ compositions \in Seq(Records) /\ finishing \subseteq 1..Current
    /\ probe.old \in Seq(Nat) /\ \A i \in 1..Len(probe.old) : probe.old[i] <= typed
    /\ probe.generation \in 0..Current

\* Only the current composition can wait, with its timer once it has ended, and while
\* it waits no key is probed in its generation.
Turns ==
    /\ composing => Waits
    /\ sending <=> Waits /\ ~composing
    /\ \A k \in 1..Current : k # Current => compositions[k].sent
    /\ sending => Current \in finishing
    /\ composing => Current \notin finishing
    /\ Waits => already = <<>> /\ compositions[Current].start <= Len(area) /\ ~Awaits

UnsentAfter(n) == \A i \in 1..Len(area) : i > n => area[i] \notin ToSet(sent)

\* What the current composition, or the probe, would send has not been sent.
Unsent ==
    /\ Waits => UnsentAfter(compositions[Current].start)
    /\ Awaits =>
        \/ /\ Len(probe.old) <= Len(area)
           /\ \A i \in 1..Len(probe.old) : area[i] = probe.old[i]
           /\ UnsentAfter(Len(probe.old))
        \/ /\ \A i \in 1..Len(area), j \in 1..Len(probe.old) : probe.old[j] < area[i]
           /\ UnsentAfter(0)

\* The characters the current composition would send.
Draft == {area[i] : i \in (compositions[Current].start + 1)..Len(area)}

Texts ==
    /\ \A k \in 1..Current :
          compositions[k].sent => ToSet(compositions[k].text) \subseteq ToSet(sent)
    /\ composing => compositions[Current].text = <<>>
    /\ sending => ToSet(compositions[Current].text) \subseteq Draft

ImeInv == ImeTypes /\ Turns /\ Unsent /\ Texts /\ SentOnce

\* What is left of a text from a place on.
LEMMA FromRest ==
    ASSUME NEW s \in Seq(Nat), NEW n \in Nat, n <= Len(s)
    PROVE  /\ From(s, n) \in Seq(Nat) /\ Len(From(s, n)) = Len(s) - n
           /\ \A i \in 1..(Len(s) - n) : From(s, n)[i] = s[n + i]
           /\ ToSet(From(s, n)) = {s[i] : i \in (n + 1)..Len(s)}
<1>1. Len(s) \in Nat /\ \A i \in (n + 1)..Len(s) : s[i] \in Nat
  OBVIOUS
<1>2. n + 1 \in Int /\ Len(s) \in Int /\ Len(s) - (n + 1) + 1 = Len(s) - n
      /\ (n + 1 <= Len(s) \/ Len(s) - n = 0)
  BY <1>1
<1>3. /\ From(s, n) \in Seq(Nat) /\ Len(From(s, n)) = Len(s) - n
      /\ \A i \in 1..(Len(s) - (n + 1) + 1) : From(s, n)[i] = s[(n + 1) + i - 1]
  <2>1. From(s, n) = SubSeq(s, n + 1, Len(s))
    BY DEF From
  <2>2. \A a, b \in Int :
          (\A i \in a..b : s[i] \in Nat) =>
             /\ SubSeq(s, a, b) \in Seq(Nat) /\ Len(SubSeq(s, a, b)) = IF a <= b THEN b - a + 1 ELSE 0
             /\ \A i \in 1..(b - a + 1) : SubSeq(s, a, b)[i] = s[a + i - 1]
    BY SubSeqProperties
  <2>3. /\ SubSeq(s, n + 1, Len(s)) \in Seq(Nat)
        /\ Len(SubSeq(s, n + 1, Len(s))) = IF n + 1 <= Len(s) THEN Len(s) - (n + 1) + 1 ELSE 0
        /\ \A i \in 1..(Len(s) - (n + 1) + 1) : SubSeq(s, n + 1, Len(s))[i] = s[(n + 1) + i - 1]
    BY <1>1, <1>2, <2>2
  <2>4. (IF n + 1 <= Len(s) THEN Len(s) - (n + 1) + 1 ELSE 0) = Len(s) - n
    BY <1>2
  <2>5. QED
    BY <2>1, <2>3, <2>4
<1>4. \A i \in 1..(Len(s) - n) : From(s, n)[i] = s[n + i]
  <2>1. \A i \in 1..(Len(s) - n) : (n + 1) + i - 1 = n + i
    BY <1>1
  <2>2. QED
    BY <1>2, <1>3, <2>1
<1>5. ToSet(From(s, n)) = {s[i] : i \in (n + 1)..Len(s)}
  <2>1. DOMAIN From(s, n) = 1..(Len(s) - n)
    BY <1>3
  <2>2. \A i \in 1..(Len(s) - n) : n + i \in (n + 1)..Len(s)
    BY <1>1
  <2>3. \A i \in (n + 1)..Len(s) : i - n \in 1..(Len(s) - n) /\ n + (i - n) = i
    BY <1>1
  <2>4. ASSUME NEW x, x \in ToSet(From(s, n)) PROVE \E i \in (n + 1)..Len(s) : x = s[i]
    BY <1>4, <2>1, <2>2, <2>4 DEF ToSet
  <2>5. ASSUME NEW i \in (n + 1)..Len(s) PROVE s[i] \in ToSet(From(s, n))
    <3>1. From(s, n)[i - n] = s[i]
      BY <1>4, <2>3
    <3>2. QED
      BY <2>1, <2>3, <3>1 DEF ToSet
  <2>6. QED
    BY <2>4, <2>5
<1>6. QED
  BY <1>3, <1>4, <1>5

\* What has not been sent is sent.
LEMMA SendsMore ==
    ASSUME NEW s \in Seq(Nat), NEW t \in Seq(Nat), Once(s), Once(t),
           \A i \in 1..Len(t) : t[i] = 0 \/ t[i] \notin ToSet(s)
    PROVE  s \o t \in Seq(Nat) /\ Once(s \o t) /\ ToSet(s \o t) = ToSet(s) \cup ToSet(t)
<1> DEFINE u == s \o t
           m == Len(s)
           n == Len(t)
<1>1. m \in Nat /\ n \in Nat /\ DOMAIN s = 1..m /\ DOMAIN t = 1..n
  OBVIOUS
<1>2. /\ u \in Seq(Nat) /\ Len(u) = m + n
      /\ \A i \in 1..(m + n) : u[i] = IF i <= m THEN s[i] ELSE t[i - m]
  BY ConcatProperties
<1> HIDE DEF u, m, n
<1>3. DOMAIN u = 1..(m + n)
  BY <1>1, <1>2
<1>4. \A i \in 1..m : i \in 1..(m + n) /\ u[i] = s[i]
  <2>1. \A i \in 1..m : i \in 1..(m + n) /\ i <= m
    BY <1>1
  <2>2. QED
    BY <1>2, <2>1
<1>5. \A i \in 1..n : m + i \in 1..(m + n) /\ u[m + i] = t[i]
  <2>1. \A i \in 1..n : m + i \in 1..(m + n) /\ ~(m + i <= m) /\ (m + i) - m = i
    BY <1>1
  <2>2. QED
    BY <1>2, <2>1
<1>6. \A i \in 1..(m + n) : i \in 1..m \/ \E k \in 1..n : i = m + k
  <2>1. \A i \in 1..(m + n) : i \in 1..m \/ (i - m \in 1..n /\ i = m + (i - m))
    BY <1>1
  <2>2. QED
    BY <2>1
<1>7. ToSet(u) = ToSet(s) \cup ToSet(t)
  <2>1. ToSet(s) = {s[i] : i \in 1..m} /\ ToSet(t) = {t[i] : i \in 1..n}
    BY <1>1 DEF ToSet
  <2>2. ToSet(u) = {u[i] : i \in 1..(m + n)}
    BY <1>3 DEF ToSet
  <2>3. \A i \in 1..(m + n) : u[i] \in ToSet(s) \cup ToSet(t)
    BY <1>4, <1>5, <1>6, <2>1
  <2>4. ToSet(s) \cup ToSet(t) \subseteq ToSet(u)
    BY <1>4, <1>5, <2>1, <2>2
  <2>5. QED
    BY <2>2, <2>3, <2>4
<1>8. Once(u)
  <2>1. /\ \A i, j \in 1..m : s[i] = s[j] /\ s[i] # 0 => i = j
        /\ \A i, j \in 1..n : t[i] = t[j] /\ t[i] # 0 => i = j
        /\ \A i \in 1..n, j \in 1..m : t[i] = s[j] => t[i] = 0
    BY <1>1, SMTT(30) DEF Once, ToSet, m, n
  <2>2. \A i, j \in 1..(m + n) : u[i] = u[j] /\ u[i] # 0 => i = j
    BY <1>4, <1>5, <1>6, <2>1
  <2>3. QED
    BY <1>2, <2>2 DEF Once
<1>9. QED
  BY <1>2, <1>7, <1>8 DEF u

\* What the current composition sends has not been sent, and holds its text.
LEMMA FlushIsFresh ==
    ASSUME ImeInv, Waits
    PROVE  LET all == sent \o From(area, compositions[Current].start + Len(already)) IN
           /\ all \in Seq(Nat) /\ Once(all) /\ ToSet(all) = ToSet(sent) \cup Draft
           /\ \A x \in ToSet(all) : x <= typed
           /\ ~composing => ToSet(compositions[Current].text) \subseteq ToSet(all)
<1> DEFINE start == compositions[Current].start
           t == From(area, start)
<1>1. /\ start \in Nat /\ start <= Len(area) /\ area \in Seq(Nat) /\ sent \in Seq(Nat)
      /\ start + Len(already) = start
  <2>1. compositions \in Seq(Records) /\ Current \in 1..Len(compositions)
    BY DEF ImeInv, ImeTypes, Waits, Current
  <2>2. compositions[Current] \in Records
    BY <2>1
  <2>3. start \in Nat
    BY <2>2 DEF Records
  <2>4. already = <<>> /\ start <= Len(area)
    BY DEF ImeInv, Turns
  <2>5. QED
    BY <2>3, <2>4 DEF ImeInv, ImeTypes
<1>2. /\ t \in Seq(Nat) /\ Len(t) = Len(area) - start
      /\ \A i \in 1..(Len(area) - start) : t[i] = area[start + i]
      /\ ToSet(t) = Draft
  BY <1>1, FromRest DEF Draft
<1>3. \A i, j \in 1..Len(area) : area[i] = area[j] => i = j
  <2>1. /\ \A i, j \in 1..Len(area) : i < j => area[i] < area[j]
        /\ \A i \in 1..Len(area) : area[i] \in Nat
    BY DEF ImeInv, ImeTypes
  <2>2. QED
    BY <2>1
<1> HIDE DEF start
<1> HIDE DEF t
<1>4. \A i \in 1..Len(t) : start + i \in 1..Len(area) /\ start + i > start /\ t[i] = area[start + i]
  BY <1>1, <1>2
<1>5. Once(t)
  <2>1. \A i, j \in 1..Len(t) : t[i] = t[j] => start + i = start + j
    BY <1>3, <1>4
  <2>2. \A i, j \in 1..Len(t) : start + i = start + j => i = j
    BY <1>1
  <2>3. QED
    BY <2>1, <2>2 DEF Once
<1>6. \A i \in 1..Len(t) : t[i] \notin ToSet(sent)
  BY <1>4 DEF ImeInv, Unsent, UnsentAfter, start
<1>7. /\ sent \o t \in Seq(Nat) /\ Once(sent \o t) /\ ToSet(sent \o t) = ToSet(sent) \cup Draft
  BY <1>1, <1>2, <1>5, <1>6, SendsMore DEF ImeInv, SentOnce, Once
<1>8. \A x \in Draft : x <= typed
  <2>1. \A i \in (start + 1)..Len(area) : i \in 1..Len(area)
    BY <1>1
  <2>2. \A i \in 1..Len(area) : area[i] <= typed
    BY DEF ImeInv, ImeTypes
  <2>3. QED
    BY <2>1, <2>2 DEF Draft, start
<1>9. ~composing => ToSet(compositions[Current].text) \subseteq Draft
  BY DEF ImeInv, Turns, Texts
<1>10. QED
  BY <1>1, <1>7, <1>8, <1>9 DEF t, start, ImeInv, ImeTypes

\* One of the compositions is marked as sent.
LEMMA Marks ==
    ASSUME NEW cs \in Seq(Records), NEW k \in 1..Len(cs)
    PROVE  LET marked == [cs EXCEPT ![k].sent = TRUE] IN
           /\ marked \in Seq(Records) /\ Len(marked) = Len(cs) /\ marked[k].sent
           /\ marked[k].text = cs[k].text /\ marked[k].start = cs[k].start
           /\ \A j \in 1..Len(cs) : j # k => marked[j] = cs[j]
<1>1. cs[k] \in Records /\ DOMAIN cs = 1..Len(cs) /\ Len(cs) \in Nat
  OBVIOUS
<1>2. /\ [cs[k] EXCEPT !.sent = TRUE] \in Records /\ [cs[k] EXCEPT !.sent = TRUE].sent
      /\ [cs[k] EXCEPT !.sent = TRUE].text = cs[k].text
      /\ [cs[k] EXCEPT !.sent = TRUE].start = cs[k].start
  BY <1>1 DEF Records
<1>3. [cs EXCEPT ![k].sent = TRUE] = [cs EXCEPT ![k] = [cs[k] EXCEPT !.sent = TRUE]]
  OBVIOUS
<1>4. \A r \in Records : /\ [cs EXCEPT ![k] = r] \in Seq(Records) /\ Len([cs EXCEPT ![k] = r]) = Len(cs)
                        /\ [cs EXCEPT ![k] = r][k] = r
                        /\ \A j \in 1..Len(cs) : j # k => [cs EXCEPT ![k] = r][j] = cs[j]
  BY <1>1, ExceptSeq
<1>5. QED
  BY <1>2, <1>3, <1>4

\* Once the current composition has been sent nothing of the textarea is left to send.
LEMMA FlushedKeeps ==
    ASSUME ImeInv, Waits, ~composing, UNCHANGED <<composing, probe>>,
           compositions' = [compositions EXCEPT ![Current].sent = TRUE], sending' = FALSE,
           sent' \in Seq(Nat), Once(sent'), ToSet(sent) \cup ToSet(compositions[Current].text) \subseteq ToSet(sent'),
           typed' \in Nat, typed <= typed', \A x \in ToSet(sent') : x <= typed',
           area' \in {area, <<>>}, finishing' \subseteq finishing
    PROVE  ImeInv'
<1>1. /\ compositions' \in Seq(Records) /\ Current' = Current /\ compositions'[Current].sent
      /\ compositions'[Current].text = compositions[Current].text
      /\ \A k \in 1..Current : k # Current => compositions'[k] = compositions[k]
      /\ Current \in Nat
  BY Marks DEF ImeInv, ImeTypes, Waits, Current
<1>2. ~Waits' /\ ~Awaits'
  BY <1>1 DEF Waits, Awaits, ImeInv, Turns
<1>3. ImeTypes'
  <2>1. /\ area' \in Seq(Nat) /\ \A i \in 1..Len(area') : area'[i] \in 1..typed'
        /\ \A i, j \in 1..Len(area') : i < j => area'[i] < area'[j]
    <3>1. CASE area' = area
      <4>1. \A i \in 1..Len(area) : area[i] \in 1..typed /\ typed \in Nat
        BY DEF ImeInv, ImeTypes
      <4>2. \A i \in 1..Len(area) : area[i] \in 1..typed'
        BY <4>1
      <4>3. QED
        BY <3>1, <4>2 DEF ImeInv, ImeTypes
    <3>2. CASE area' = <<>>
      BY <3>2
    <3>3. QED
      BY <3>1, <3>2
  <2>2. \A i \in 1..Len(probe.old) : probe.old[i] <= typed'
    BY SMTT(30) DEF ImeInv, ImeTypes
  <2>3. QED
    BY <1>1, <2>1, <2>2 DEF ImeInv, ImeTypes
<1>4. Turns' /\ Unsent'
  BY <1>1, <1>2 DEF ImeInv, Turns, Unsent
<1>5. Texts'
  BY <1>1 DEF ImeInv, Turns, Texts
<1>6. QED
  BY <1>3, <1>4, <1>5 DEF ImeInv, SentOnce, Once

\* A composition is finished once: the first of the timer, the blur and the next key.
LEMMA FinishKeeps ==
    ASSUME ImeInv, NEW k \in 1..Current, Finish(k), ~composing, k = Current \/ area' = area,
           UNCHANGED <<typed, composing, already, probe>>, area' \in {area, <<>>},
           finishing' \in {finishing, finishing \ {k}}
    PROVE  ImeInv'
<1>1. Current \in Nat /\ k \in 1..Current /\ Current > 0
  BY DEF ImeInv, ImeTypes, Current
<1>2. CASE compositions[k].sent
  <2>1. UNCHANGED <<compositions, sending, sent>>
    BY <1>2 DEF Finish
  <2>2. ImeTypes'
    <3>1. CASE area' = area
      BY <2>1, <3>1 DEF ImeInv, ImeTypes, Current
    <3>2. CASE area' = <<>>
      BY <2>1, <3>2 DEF ImeInv, ImeTypes, Current
    <3>3. QED
      BY <3>1, <3>2
  <2>3. Turns'
    <3>1. sending => k # Current
      BY <1>2 DEF ImeInv, Turns, Waits
    <3>2. Waits' <=> Waits
      BY <2>1 DEF Waits, Current
    <3>3. Awaits' <=> Awaits
      BY <2>1 DEF Awaits, Current
    <3>4. Waits => area' = area
      BY <1>2 DEF Waits
    <3>5. QED
      BY <2>1, <3>1, <3>2, <3>3, <3>4 DEF ImeInv, Turns, Current
  <2>4. Unsent' /\ Texts'
    <3>1. CASE area' = area
      BY <2>1, <3>1 DEF ImeInv, Unsent, UnsentAfter, Texts, Draft, Waits, Awaits, Current
    <3>2. CASE area' = <<>> /\ k = Current
      <4>1. ~Waits' /\ ~sending'
        BY <1>2, <2>1, <3>2 DEF ImeInv, Turns, Waits, Current
      <4>2. Unsent'
        BY <3>2, <4>1 DEF Unsent, UnsentAfter
      <4>3. Texts'
        BY <2>1, <4>1 DEF ImeInv, Texts, Current
      <4>4. QED
        BY <4>2, <4>3
    <3>3. QED
      BY <3>1, <3>2
  <2>5. QED
    BY <2>1, <2>2, <2>3, <2>4 DEF ImeInv, SentOnce
<1>3. CASE ~compositions[k].sent
  <2>1. k = Current /\ Waits
    BY <1>1, <1>3 DEF ImeInv, Turns, Waits
  <2> DEFINE all == sent \o From(area, compositions[Current].start + Len(already))
  <2>2. /\ all \in Seq(Nat) /\ Once(all) /\ ToSet(all) = ToSet(sent) \cup Draft
        /\ \A x \in ToSet(all) : x <= typed
        /\ ToSet(compositions[Current].text) \subseteq ToSet(all)
    BY <2>1, FlushIsFresh
  <2>3. /\ compositions' = [compositions EXCEPT ![Current].sent = TRUE]
        /\ sent' = all /\ sending' = FALSE
    BY <1>3, <2>1 DEF Finish
  <2> HIDE DEF all
  <2>4. typed' \in Nat /\ typed <= typed' /\ finishing' \subseteq finishing
    BY DEF ImeInv, ImeTypes
  <2>5. QED
    BY <2>1, <2>2, <2>3, <2>4, FlushedKeeps
<1>4. QED
  BY <1>2, <1>3

\* A late timer of a composition keeps the invariant.
LEMMA TimerKeeps ==
    ASSUME ImeInv, NEW k \in finishing, FinishTimer(k)
    PROVE  ImeInv'
<1>1. k \in 1..Current /\ (k = Current => ~composing)
  BY DEF ImeInv, ImeTypes, Turns
<1>2. CASE composing
  <2>1. compositions[k].sent /\ UNCHANGED <<compositions, sending, sent>>
    BY <1>1, <1>2 DEF ImeInv, Turns, FinishTimer, Finish
  <2>2. /\ UNCHANGED <<typed, area, composing, already, probe>>
        /\ finishing' = finishing \ {k} /\ ~sending
    BY <1>2 DEF FinishTimer, ImeInv, Turns
  <2>3. QED
    BY <1>1, <1>2, <2>1, <2>2 DEF ImeInv, ImeTypes, Turns, Unsent, UnsentAfter, Texts, Draft, Waits,
                                  Awaits, Current, SentOnce
<1>3. CASE ~composing
  BY <1>1, <1>3, FinishKeeps DEF FinishTimer
<1>4. QED
  BY <1>2, <1>3

\* A blur keeps the invariant.
LEMMA BlurKeeps == ImeInv /\ Blur => ImeInv'
<1> SUFFICES ASSUME ImeInv, Blur PROVE ImeInv'
  OBVIOUS
<1>1. /\ ~composing /\ area' = <<>> /\ FlushOnBlur
      /\ UNCHANGED <<typed, composing, already, finishing, probe>>
  BY DEF Blur
<1>2. CASE Current > 0
  <2>1. Current \in 1..Current /\ Finish(Current)
    BY <1>1, <1>2 DEF FlushOnBlur, ImeInv, ImeTypes, Current
  <2>2. QED
    BY <1>1, <2>1, FinishKeeps
<1>3. CASE ~(Current > 0)
  <2>1. UNCHANGED <<compositions, sending, sent>> /\ ~Waits /\ ~Waits'
    BY <1>1, <1>3 DEF FlushOnBlur, Waits, Current
  <2>2. ImeTypes' /\ Turns' /\ SentOnce'
    BY <1>1, <2>1 DEF ImeInv, ImeTypes, Turns, Current, SentOnce
  <2>3. Unsent' /\ Texts'
    BY <1>1, <2>1 DEF ImeInv, Unsent, UnsentAfter, Texts, Turns, Current
  <2>4. QED
    BY <2>2, <2>3 DEF ImeInv
<1>4. QED
  BY <1>2, <1>3

\* A composition begins; what the last one left is sent before.
LEMMA StartKeeps == ImeInv /\ CompositionStart => ImeInv'
<1> SUFFICES ASSUME ImeInv, CompositionStart PROVE ImeInv'
  OBVIOUS
<1> DEFINE all == sent \o From(area, compositions[Current].start + Len(already))
           new == [start |-> Len(area), sent |-> FALSE, text |-> <<>>]
           old == [k \in 1..Current |-> [compositions[k] EXCEPT !.sent = TRUE]]
<1>1. /\ ~composing /\ composing' = TRUE /\ already' = <<>>
      /\ compositions' = Append(old, new)
      /\ IF Waits THEN sent' = all /\ sending' = FALSE ELSE UNCHANGED <<sent, sending>>
      /\ UNCHANGED <<typed, area, finishing, probe>>
  BY DEF CompositionStart, Waits
<1>2. /\ Current \in Nat /\ compositions \in Seq(Records) /\ Len(area) \in Nat
      /\ finishing \subseteq 1..Current /\ probe.generation \in 0..Current
  BY DEF ImeInv, ImeTypes, Current
<1>3. /\ sent' \in Seq(Nat) /\ Once(sent') /\ (\A x \in ToSet(sent') : x <= typed)
      /\ ToSet(sent) \subseteq ToSet(sent') /\ ~sending'
      /\ Waits => ToSet(compositions[Current].text) \subseteq ToSet(sent')
  <2>1. CASE Waits
    BY <1>1, <2>1, FlushIsFresh
  <2>2. CASE ~Waits
    BY <1>1, <2>2 DEF ImeInv, ImeTypes, Turns, SentOnce, Once
  <2>3. QED
    BY <2>1, <2>2
<1>4. \A k \in 1..Current : ToSet(compositions[k].text) \subseteq ToSet(sent')
  <2>1. \A k \in 1..Current : compositions[k].sent \/ (k = Current /\ Waits)
    BY <1>2 DEF ImeInv, Turns, Waits
  <2>2. ASSUME NEW k \in 1..Current PROVE ToSet(compositions[k].text) \subseteq ToSet(sent')
    <3>1. CASE compositions[k].sent
      BY <1>3, <3>1 DEF ImeInv, Texts
    <3>2. CASE k = Current /\ Waits
      BY <1>3, <3>2
    <3>3. QED
      BY <2>1, <3>1, <3>2
  <2>3. QED
    BY <2>2
<1>5. \A k \in 1..Current : /\ old[k] \in Records /\ old[k].sent
                           /\ old[k].text = compositions[k].text
  <2>1. \A k \in 1..Current : compositions[k] \in Records
    BY <1>2 DEF Current
  <2>2. QED
    BY <2>1 DEF Records
<1>6. new \in Records /\ new.start = Len(area) /\ ~new.sent /\ new.text = <<>>
  <2>1. <<>> \in Seq(Nat)
    OBVIOUS
  <2>2. QED
    BY <1>2, <2>1 DEF Records
<1>7. old \in Seq(Records) /\ Len(old) = Current
  BY <1>2, <1>5, IsASeq
<1> HIDE DEF old, new
<1>8. /\ compositions' \in Seq(Records) /\ Current' = Current + 1
      /\ \A k \in 1..Current : compositions'[k] = old[k]
      /\ compositions'[Current + 1] = new
  BY <1>1, <1>6, <1>7, AppendProperties DEF Current
<1>9. /\ \A k \in 1..Current' : k \in 1..Current \/ k = Current'
      /\ 1..Current \subseteq 1..Current' /\ 0..Current \subseteq 0..Current'
      /\ Current' \notin 1..Current /\ Current' \notin 0..Current /\ Current' > 0
      /\ Len(area) <= Len(area)
  BY <1>2, <1>8
<1>10. Waits' /\ ~Awaits' /\ compositions'[Current'].start = Len(area)
  BY <1>1, <1>2, <1>6, <1>8, <1>9 DEF Waits, Awaits
<1>11. ImeTypes'
  <2>1. finishing' \subseteq 1..Current' /\ probe'.generation \in 0..Current'
    BY <1>1, <1>2, <1>9
  <2>2. QED
    BY <1>1, <1>3, <1>8, <2>1 DEF ImeInv, ImeTypes
<1>12. Turns'
  <2>1. \A k \in 1..Current' : k # Current' => compositions'[k].sent
    BY <1>5, <1>8, <1>9
  <2>2. Current' \notin finishing' /\ already' = <<>>
    BY <1>1, <1>2, <1>9
  <2>3. compositions'[Current'].start <= Len(area')
    BY <1>1, <1>9, <1>10
  <2>4. QED
    BY <1>1, <1>3, <1>10, <2>1, <2>2, <2>3 DEF Turns
<1>13. Unsent'
  <2>1. \A i \in 1..Len(area) : ~(i > Len(area))
    BY <1>2
  <2>2. QED
    BY <1>1, <1>10, <2>1 DEF Unsent, UnsentAfter
<1>14. Texts'
  <2>1. \A k \in 1..Current : ToSet(compositions'[k].text) \subseteq ToSet(sent')
    BY <1>4, <1>5, <1>8
  <2>2. compositions'[Current'].text = <<>> /\ ~compositions'[Current'].sent
    BY <1>6, <1>8
  <2>3. QED
    BY <1>3, <1>9, <2>1, <2>2 DEF Texts
<1>15. SentOnce'
  BY <1>3 DEF SentOnce, Once
<1>16. QED
  BY <1>11, <1>12, <1>13, <1>14, <1>15 DEF ImeInv

\* The draft of a composition becomes another one.
LEMMA DraftKeeps ==
    ASSUME ImeInv, NEW n \in 0..2, CompositionUpdate(n)
    PROVE  ImeInv'
<1> DEFINE start == compositions[Current].start
           kept == SubSeq(area, 1, start)
           added == [i \in 1..n |-> typed + i]
<1>1. /\ composing /\ typed' = typed + n /\ area' = kept \o added
      /\ UNCHANGED <<composing, sending, already, compositions, finishing, probe, sent>>
  BY DEF CompositionUpdate, Types
<1>2. Waits /\ ~sending
  BY <1>1 DEF ImeInv, Turns
<1>3. /\ start \in 0..Len(area) /\ Len(area) \in Nat /\ typed \in Nat /\ n \in Nat
      /\ \A i \in 1..Len(area) : area[i] \in 1..typed /\ area[i] \in Nat
      /\ \A i, j \in 1..Len(area) : i < j => area[i] < area[j]
  <2>1. compositions \in Seq(Records) /\ Current \in 1..Len(compositions)
    BY <1>2 DEF ImeInv, ImeTypes, Waits, Current
  <2>2. compositions[Current] \in Records
    BY <2>1
  <2>3. start \in Nat
    BY <2>2 DEF Records
  <2>4. start <= Len(area)
    BY <1>2 DEF ImeInv, Turns
  <2>5. QED
    BY <2>3, <2>4 DEF ImeInv, ImeTypes
<1> HIDE DEF start
<1>4. /\ kept \in Seq(Nat) /\ Len(kept) = start
      /\ \A i \in 1..start : kept[i] = area[i]
  <2>1. \A i \in 1..start : area[i] \in Nat
    BY <1>3
  <2>2. /\ kept \in Seq(Nat) /\ Len(kept) = IF 1 <= start THEN start - 1 + 1 ELSE 0
        /\ \A i \in 1..(start - 1 + 1) : kept[i] = area[1 + i - 1]
    BY <1>3, <2>1, SubSeqProperties
  <2>3. (IF 1 <= start THEN start - 1 + 1 ELSE 0) = start /\ start - 1 + 1 = start
        /\ \A i \in 1..start : 1 + i - 1 = i
    BY <1>3
  <2>4. QED
    BY <2>2, <2>3
<1>5. /\ added \in Seq(Nat) /\ Len(added) = n
      /\ \A i \in 1..n : added[i] = typed + i
  <2>1. \A i \in 1..n : typed + i \in Nat
    BY <1>3
  <2>2. QED
    BY <1>3, <2>1, IsASeq
<1> HIDE DEF kept, added
<1>6. /\ area' \in Seq(Nat) /\ Len(area') = start + n
      /\ \A i \in 1..(start + n) : area'[i] = IF i <= start THEN area[i] ELSE typed + (i - start)
  <2>1. /\ area' \in Seq(Nat) /\ Len(area') = start + n
        /\ \A i \in 1..(start + n) : area'[i] = IF i <= start THEN kept[i] ELSE added[i - start]
    BY <1>1, <1>4, <1>5, ConcatProperties
  <2>2. \A i \in 1..(start + n) : (i <= start => i \in 1..start) /\ (~(i <= start) => i - start \in 1..n)
    BY <1>3
  <2>3. QED
    BY <1>4, <1>5, <2>1, <2>2
<1>7. \A i \in 1..(start + n) :
          \/ i <= start /\ i \in 1..Len(area) /\ area'[i] = area[i] /\ area[i] <= typed
             /\ area[i] \in Nat /\ area[i] > 0
          \/ i > start /\ area'[i] = typed + (i - start)
  <2>1. start \in Nat /\ n \in Nat /\ Len(area) \in Nat /\ start <= Len(area)
    BY <1>3
  <2>2. \A i \in 1..(start + n) :
           (i <= start /\ i \in 1..Len(area)) \/ (i > start /\ ~(i <= start))
    BY <2>1
  <2>3. \A i \in 1..Len(area) : area[i] <= typed /\ area[i] \in Nat /\ area[i] > 0
    BY <1>3
  <2>4. QED
    BY <1>6, <2>2, <2>3
<1>8. \A i \in 1..Len(area') : area'[i] \in 1..typed'
  <2>1. \A i \in 1..(start + n) : i > start => typed + (i - start) \in 1..(typed + n)
    BY <1>3
  <2>2. \A x \in Nat : x > 0 /\ x <= typed => x \in 1..(typed + n)
    BY <1>3
  <2>3. ASSUME NEW i \in 1..(start + n) PROVE area'[i] \in 1..(typed + n)
    BY <1>7, <2>1, <2>2
  <2>4. QED
    BY <1>1, <1>6, <2>3
<1>9. \A i, j \in 1..Len(area') : i < j => area'[i] < area'[j]
  <2>1. ASSUME NEW i \in 1..(start + n), NEW j \in 1..(start + n), i < j
        PROVE  area'[i] < area'[j]
    <3>1. start \in Nat /\ n \in Nat /\ typed \in Nat
      BY <1>3
    <3>2. CASE j <= start
      <4>1. i <= start /\ i \in 1..Len(area) /\ j \in 1..Len(area)
            /\ area'[i] = area[i] /\ area'[j] = area[j]
        BY <1>7, <2>1, <3>1, <3>2
      <4>2. QED
        BY <1>3, <2>1, <4>1
    <3>3. CASE i <= start /\ j > start
      <4>1. area'[i] <= typed /\ area'[i] \in Nat
        BY <1>7, <3>1, <3>3
      <4>2. area'[j] = typed + (j - start)
        BY <1>7, <3>1, <3>3
      <4>3. QED
        BY <3>1, <3>3, <4>1, <4>2
    <3>4. CASE i > start
      <4>1. area'[i] = typed + (i - start) /\ area'[j] = typed + (j - start)
        BY <1>7, <2>1, <3>1, <3>4
      <4>2. QED
        BY <2>1, <3>1, <4>1
    <3>5. QED
      BY <2>1, <3>1, <3>2, <3>3, <3>4
  <2>2. QED
    BY <1>6, <2>1
<1>10. Waits' /\ ~Awaits' /\ Current' = Current /\ compositions'[Current'].start = start
  BY <1>1, <1>2 DEF ImeInv, Turns, Waits, Awaits, Current, start
<1>11. \A x \in ToSet(sent) : x <= typed /\ x \in Nat
  BY DEF ImeInv, ImeTypes, ToSet
<1>12. ImeTypes'
  <2>1. \A x \in ToSet(sent) : x <= typed'
    BY <1>1, <1>3, <1>11
  <2>2. \A i \in 1..Len(probe.old) : probe.old[i] <= typed'
    <3>1. \A i \in 1..Len(probe.old) : probe.old[i] <= typed /\ probe.old[i] \in Nat
      BY DEF ImeInv, ImeTypes
    <3>2. typed' = typed + n /\ typed \in Nat /\ n \in Nat
      BY <1>1, <1>3
    <3>3. QED
      BY <3>1, <3>2
  <2>3. typed' \in Nat
    BY <1>1, <1>3
  <2>4. QED
    BY <1>1, <1>6, <1>8, <1>9, <1>10, <2>1, <2>2, <2>3 DEF ImeInv, ImeTypes
<1>13. Turns'
  <2>1. start <= Len(area')
    BY <1>3, <1>6
  <2>2. QED
    BY <1>1, <1>2, <1>10, <2>1 DEF ImeInv, Turns
<1>14. Unsent'
  <2>1. ASSUME NEW i \in 1..Len(area'), i > start PROVE area'[i] \notin ToSet(sent)
    BY <1>3, <1>6, <1>7, <1>11, <2>1
  <2>2. QED
    BY <1>1, <1>10, <2>1 DEF Unsent, UnsentAfter
<1>15. Texts' /\ SentOnce'
  BY <1>1, <1>2, <1>10 DEF ImeInv, Texts, SentOnce
<1>16. QED
  BY <1>12, <1>13, <1>14, <1>15 DEF ImeInv

\* A composition ends: its text waits for the timer.
LEMMA CompositionEndKeeps == ImeInv /\ CompositionEnd => ImeInv'
<1> SUFFICES ASSUME ImeInv, CompositionEnd PROVE ImeInv'
  OBVIOUS
<1> DEFINE start == compositions[Current].start
           text == From(area, start)
<1>1. composing /\ Waits /\ Current \in 1..Len(compositions) /\ compositions \in Seq(Records)
  BY DEF CompositionEnd, ImeInv, ImeTypes, Turns, Waits, Current
<1>2. /\ ~composing' /\ sending' /\ finishing' = finishing \cup {Current}
      /\ compositions' = [compositions EXCEPT ![Current].text = text]
      /\ UNCHANGED <<typed, area, already, probe, sent>>
  BY <1>1 DEF CompositionEnd, Waits
<1>3. /\ compositions[Current] \in Records /\ start \in Nat /\ start <= Len(area)
      /\ area \in Seq(Nat)
  <2>1. compositions[Current] \in Records
    BY <1>1
  <2>2. QED
    BY <1>1, <2>1 DEF Records, ImeInv, ImeTypes, Turns
<1>4. text \in Seq(Nat) /\ ToSet(text) = Draft
  BY <1>3, FromRest DEF Draft
<1> HIDE DEF text, start
<1>5. /\ [compositions[Current] EXCEPT !.text = text] \in Records
      /\ [compositions[Current] EXCEPT !.text = text].start = start
      /\ [compositions[Current] EXCEPT !.text = text].sent = compositions[Current].sent
      /\ [compositions[Current] EXCEPT !.text = text].text = text
  BY <1>3, <1>4 DEF Records, start
<1>6. /\ compositions' \in Seq(Records) /\ Current' = Current
      /\ compositions'[Current].start = start /\ compositions'[Current].text = text
      /\ ~compositions'[Current].sent
      /\ \A k \in 1..Current : k # Current => compositions'[k] = compositions[k]
  <2>1. compositions' = [compositions EXCEPT ![Current] = [compositions[Current] EXCEPT !.text = text]]
    BY <1>2
  <2>2. QED
    BY <1>1, <1>5, <2>1, ExceptSeq DEF Current, Waits
<1>7. Waits' /\ ~Awaits' /\ Draft' = Draft
  BY <1>1, <1>2, <1>6 DEF Waits, Awaits, Draft, start, ImeInv, Turns
<1>8. ImeTypes'
  BY <1>1, <1>2, <1>6 DEF ImeInv, ImeTypes, Current
<1>9. Turns'
  BY <1>1, <1>2, <1>6, <1>7 DEF ImeInv, Turns, start
<1>10. Unsent'
  BY <1>1, <1>2, <1>6, <1>7 DEF ImeInv, Unsent, UnsentAfter, start
<1>11. Texts'
  BY <1>2, <1>4, <1>6, <1>7 DEF ImeInv, Texts
<1>12. QED
  BY <1>2, <1>8, <1>9, <1>10, <1>11 DEF ImeInv, SentOnce

\* A key that xterm sends itself.
LEMMA PlainKeeps == ImeInv /\ PlainKey => ImeInv'
<1> SUFFICES ASSUME ImeInv, PlainKey PROVE ImeInv'
  OBVIOUS
<1> DEFINE all == sent \o From(area, compositions[Current].start + Len(already))
           before == IF Waits THEN all ELSE sent
<1>1. /\ ~composing /\ typed' = typed + 1
      /\ sent' = before \o <<typed + 1>>
      /\ compositions' = IF Waits THEN [compositions EXCEPT ![Current].sent = TRUE] ELSE compositions
      /\ (sending' <=> sending /\ ~Waits)
      /\ UNCHANGED <<area, composing, already, finishing, probe>>
  <2>1. (sending /\ Current > 0 /\ ~compositions[Current].sent) <=> Waits
    BY DEF PlainKey, ImeInv, Turns, Waits
  <2>2. QED
    BY <2>1 DEF PlainKey, Types
<1>2. typed \in Nat /\ typed + 1 \in Nat /\ typed <= typed + 1 /\ typed + 1 # 0
  BY DEF ImeInv, ImeTypes
<1>3. /\ before \in Seq(Nat) /\ Once(before) /\ \A x \in ToSet(before) : x <= typed
      /\ ToSet(sent) \subseteq ToSet(before)
      /\ Waits => ToSet(compositions[Current].text) \subseteq ToSet(before)
  <2>1. CASE Waits
    BY <1>1, <2>1, FlushIsFresh
  <2>2. CASE ~Waits
    BY <2>2 DEF ImeInv, ImeTypes, SentOnce, Once
  <2>3. QED
    BY <2>1, <2>2
<1> HIDE DEF before
<1>4. /\ <<typed + 1>> \in Seq(Nat) /\ Once(<<typed + 1>>) /\ ToSet(<<typed + 1>>) = {typed + 1}
      /\ Len(<<typed + 1>>) = 1 /\ <<typed + 1>>[1] = typed + 1
  BY <1>2 DEF Once, ToSet
<1>5. typed + 1 \notin ToSet(before)
  BY <1>2, <1>3
<1>6. sent' \in Seq(Nat) /\ Once(sent') /\ ToSet(sent') = ToSet(before) \cup {typed + 1}
  <2>1. \A i \in 1..Len(<<typed + 1>>) : <<typed + 1>>[i] \notin ToSet(before)
    BY <1>4, <1>5
  <2>2. QED
    BY <1>1, <1>3, <1>4, <2>1, SendsMore
<1>7. \A x \in ToSet(sent') : x <= typed'
  <2>1. \A x \in ToSet(before) : x \in Nat
    BY <1>3 DEF ToSet
  <2>2. \A x \in ToSet(before) : x <= typed + 1
    BY <1>2, <1>3, <2>1
  <2>3. QED
    BY <1>1, <1>2, <1>6, <2>2
<1>8. CASE Waits
  <2>1. compositions' = [compositions EXCEPT ![Current].sent = TRUE] /\ sending' = FALSE
    BY <1>1, <1>8
  <2>2. ToSet(sent) \cup ToSet(compositions[Current].text) \subseteq ToSet(sent')
    BY <1>3, <1>6, <1>8
  <2>3. QED
    BY <1>1, <1>2, <1>6, <1>7, <1>8, <2>1, <2>2, FlushedKeeps
<1>9. CASE ~Waits
  <2>1. before = sent /\ compositions' = compositions /\ ~sending /\ ~sending' /\ Current' = Current
    BY <1>1, <1>9 DEF before, ImeInv, Turns, Current
  <2>2. ~Waits' /\ (Awaits' <=> Awaits)
    BY <1>1, <1>9, <2>1 DEF Waits, Awaits, Current
  <2>3. ImeTypes'
    <3>1. \A i \in 1..Len(area) : area[i] \in 1..typed'
      BY <1>1, <1>2 DEF ImeInv, ImeTypes
    <3>2. \A i \in 1..Len(probe.old) : probe.old[i] <= typed'
      BY <1>1, <1>2 DEF ImeInv, ImeTypes
    <3>3. QED
      BY <1>1, <1>2, <1>6, <1>7, <2>1, <3>1, <3>2 DEF ImeInv, ImeTypes
  <2>4. Turns'
    BY <1>1, <2>1, <2>2 DEF ImeInv, Turns
  <2>5. Unsent'
    <3>1. \A i \in 1..Len(area) : area[i] # typed + 1
      BY <1>2 DEF ImeInv, ImeTypes
    <3>2. \A m : UnsentAfter(m) => UnsentAfter(m)'
      BY <1>1, <1>6, <2>1, <3>1 DEF UnsentAfter
    <3>3. UnsentAfter(Len(probe.old)) => UnsentAfter(Len(probe.old))'
      BY <1>1, <1>6, <2>1, <3>1 DEF UnsentAfter
    <3>4. QED
      BY <1>1, <2>2, <3>2, <3>3 DEF ImeInv, Unsent
  <2>6. Texts'
    BY <1>1, <1>6, <2>1 DEF ImeInv, Texts
  <2>7. QED
    BY <1>6, <2>3, <2>4, <2>5, <2>6 DEF ImeInv, SentOnce, Once
<1>10. QED
  BY <1>8, <1>9

\* A key the input method answers without a composition.
LEMMA ProbedKeeps == ImeInv /\ ProbedKey => ImeInv'
<1> SUFFICES ASSUME ImeInv, ProbedKey PROVE ImeInv'
  OBVIOUS
<1> DEFINE m == Len(area)
           opened == [on |-> TRUE, old |-> area, generation |-> Current]
<1>1. /\ ~composing /\ typed' = typed + 1 /\ area' = Append(area, typed + 1)
      /\ probe' = IF sending \/ probe.on THEN probe ELSE opened
      /\ UNCHANGED <<composing, sending, already, compositions, finishing, sent>>
  BY DEF ProbedKey, Types
<1>2. /\ typed \in Nat /\ typed + 1 \in Nat /\ m \in Nat /\ area \in Seq(Nat)
      /\ Current \in Nat
  BY DEF ImeInv, ImeTypes, Current
<1>3. /\ area' \in Seq(Nat) /\ Len(area') = m + 1 /\ area'[m + 1] = typed + 1
      /\ \A i \in 1..m : area'[i] = area[i]
  BY <1>1, <1>2, AppendProperties
<1> HIDE DEF m
<1>4. \A i \in 1..(m + 1) : i \in 1..m \/ i = m + 1
  BY <1>2
<1>5. \A i \in 1..m : area[i] \in Nat /\ area[i] > 0 /\ area[i] <= typed
  BY <1>2 DEF ImeInv, ImeTypes, m
<1>6. (Waits' <=> Waits) /\ Current' = Current
  BY <1>1 DEF Waits, Current
<1>7. ImeTypes'
  <2>1. \A i \in 1..Len(area') : area'[i] \in 1..typed'
    BY <1>1, <1>2, <1>3, <1>4, <1>5
  <2>2. \A i, j \in 1..Len(area') : i < j => area'[i] < area'[j]
    <3>1. \A i, j \in 1..m : i < j => area[i] < area[j]
      BY DEF ImeInv, ImeTypes, m
    <3>2. ASSUME NEW i \in 1..(m + 1), NEW j \in 1..(m + 1), i < j PROVE area'[i] < area'[j]
      <4>1. i \in 1..m
        BY <1>2, <3>2
      <4>2. CASE j \in 1..m
        BY <1>3, <3>1, <3>2, <4>1, <4>2
      <4>3. CASE j = m + 1
        <5>1. area'[i] <= typed /\ area'[i] \in Nat /\ area'[j] = typed + 1
          BY <1>3, <1>5, <4>1, <4>3
        <5>2. QED
          BY <1>2, <5>1
      <4>4. QED
        BY <1>4, <4>2, <4>3
    <3>3. QED
      BY <1>3, <3>2
  <2>3. /\ probe'.old \in Seq(Nat) /\ \A i \in 1..Len(probe'.old) : probe'.old[i] <= typed'
        /\ probe'.generation \in 0..Current
    <3>1. CASE sending \/ probe.on
      BY <1>1, <1>2, <3>1 DEF ImeInv, ImeTypes
    <3>2. CASE ~(sending \/ probe.on)
      BY <1>1, <1>2, <1>5, <3>2 DEF m
    <3>3. QED
      BY <3>1, <3>2
  <2>4. \A x \in ToSet(sent) : x <= typed'
    <3>1. \A x \in ToSet(sent) : x <= typed /\ x \in Nat
      BY DEF ImeInv, ImeTypes, ToSet
    <3>2. QED
      BY <1>1, <1>2, <3>1
  <2>5. QED
    BY <1>1, <1>2, <1>3, <1>6, <2>1, <2>2, <2>3, <2>4 DEF ImeInv, ImeTypes
<1>8. \/ probe' = probe /\ (Awaits' <=> Awaits)
      \/ ~Waits /\ probe' = opened
  <2>1. CASE sending \/ probe.on
    BY <1>1, <1>6, <2>1 DEF Awaits
  <2>2. CASE ~(sending \/ probe.on)
    BY <1>1, <2>2 DEF ImeInv, Turns
  <2>3. QED
    BY <2>1, <2>2
<1>9. Turns'
  <2>1. Waits => ~Awaits'
    BY <1>6, <1>8 DEF ImeInv, Turns
  <2>2. Waits => compositions[Current].start <= Len(area')
    <3>1. Waits => compositions[Current].start \in Nat /\ compositions[Current].start <= m
      <4>1. Waits => Current \in 1..Len(compositions) /\ compositions \in Seq(Records)
        BY DEF ImeInv, ImeTypes, Waits, Current
      <4>2. Waits => compositions[Current] \in Records
        BY <4>1
      <4>3. QED
        BY <4>2 DEF Records, ImeInv, Turns, m
    <3>2. QED
      BY <1>2, <1>3, <3>1
  <2>3. QED
    BY <1>1, <1>6, <2>1, <2>2 DEF ImeInv, Turns
\* The new character has not been sent.
<1>10. \A x \in Nat : UnsentAfter(x) => UnsentAfter(x)'
  <2>1. \A x \in ToSet(sent) : x <= typed /\ x \in Nat
    BY DEF ImeInv, ImeTypes, ToSet
  <2>2. typed + 1 \notin ToSet(sent)
    BY <1>2, <2>1
  <2>3. QED
    BY <1>1, <1>3, <1>4, <2>2 DEF UnsentAfter, m
<1>11. Unsent'
  <2>1. Waits => UnsentAfter(compositions[Current].start)'
    <3>1. Waits => Current \in 1..Len(compositions) /\ compositions \in Seq(Records)
      BY DEF ImeInv, ImeTypes, Waits, Current
    <3>2. Waits => compositions[Current] \in Records
      BY <3>1
    <3>3. ASSUME Waits PROVE UnsentAfter(compositions[Current].start)'
      <4>1. PICK x \in Nat : x = compositions[Current].start
        BY <3>2, <3>3 DEF Records
      <4>2. UnsentAfter(x) /\ compositions'[Current'].start = x
        BY <1>1, <1>6, <3>3, <4>1 DEF ImeInv, Unsent
      <4>3. UnsentAfter(x)'
        BY <1>10, <4>2
      <4>4. QED
        BY <1>1, <1>6, <4>1, <4>3 DEF UnsentAfter
    <3>4. QED
      BY <3>3
  <2>2. CASE probe' = probe /\ (Awaits' <=> Awaits)
    <3>1. ASSUME Awaits, Len(probe.old) <= m, \A i \in 1..Len(probe.old) : area[i] = probe.old[i],
                 UnsentAfter(Len(probe.old))
          PROVE  /\ Len(probe'.old) <= Len(area')
                 /\ \A i \in 1..Len(probe'.old) : area'[i] = probe'.old[i]
                 /\ UnsentAfter(Len(probe.old))'
      <4>1. Len(probe.old) \in Nat
        BY DEF ImeInv, ImeTypes
      <4>2. \A i \in 1..Len(probe.old) : i \in 1..m
        BY <1>2, <3>1, <4>1
      <4>3. PICK x \in Nat : x = Len(probe.old)
        BY <4>1
      <4>4. UnsentAfter(x)'
        BY <1>10, <3>1, <4>3
      <4>5. UnsentAfter(Len(probe.old))'
        BY <2>2, <4>3, <4>4 DEF UnsentAfter
      <4>6. Len(probe.old) <= m + 1
        BY <1>2, <3>1, <4>1
      <4>7. QED
        BY <1>3, <2>2, <3>1, <4>2, <4>5, <4>6
    <3>2. ASSUME Awaits, \A i \in 1..m, j \in 1..Len(probe.old) : probe.old[j] < area[i],
                 UnsentAfter(0)
          PROVE  /\ \A i \in 1..Len(area'), j \in 1..Len(probe'.old) : probe'.old[j] < area'[i]
                 /\ UnsentAfter(0)'
      <4>1. \A j \in 1..Len(probe.old) : probe.old[j] < typed + 1
        BY <1>2 DEF ImeInv, ImeTypes
      <4>2. QED
        BY <1>3, <1>4, <1>10, <2>2, <3>2, <4>1
    <3>3. QED
      BY <1>6, <2>1, <2>2, <3>1, <3>2 DEF ImeInv, Unsent, m
  <2>3. CASE ~Waits /\ probe' = opened
    <3>1. probe'.old = area
      BY <2>3
    <3>2. Len(area) <= Len(area') /\ \A i \in 1..Len(area) : area'[i] = area[i]
      BY <1>2, <1>3 DEF m
    <3>3. UnsentAfter(Len(area)) /\ Len(area) \in Nat
      BY <1>2 DEF UnsentAfter
    <3>4. PICK x \in Nat : x = Len(area)
      BY <3>3
    <3>5. UnsentAfter(x)' /\ Len(probe'.old) = x
      BY <1>10, <3>1, <3>3, <3>4
    <3>6. UnsentAfter(Len(probe.old))'
      BY <3>5 DEF UnsentAfter
    <3>7. QED
      BY <1>6, <2>3, <3>1, <3>2, <3>6 DEF Unsent
  <2>4. QED
    BY <1>8, <2>2, <2>3
<1>12. Texts'
  <2>1. sending => Draft \subseteq Draft'
    <3>1. sending => Current \in 1..Len(compositions) /\ compositions \in Seq(Records)
      BY DEF ImeInv, ImeTypes, Turns, Waits, Current
    <3>2. sending => compositions[Current] \in Records
      BY <3>1
    <3>3. sending => compositions[Current].start \in Nat
      BY <3>2 DEF Records
    <3>4. sending => \A i \in (compositions[Current].start + 1)..m :
                        i \in 1..m /\ i \in (compositions[Current].start + 1)..(m + 1)
      BY <1>2, <3>3
    <3>5. QED
      BY <1>1, <1>3, <1>6, <3>4 DEF Draft, m
  <2>2. QED
    BY <1>1, <1>6, <2>1 DEF ImeInv, Texts
<1>13. QED
  BY <1>1, <1>7, <1>9, <1>11, <1>12 DEF ImeInv, SentOnce

\* The callback of the probed key: it sends nothing when a composition began meanwhile.
LEMMA ProbeKeeps == ImeInv /\ ProbeTimer => ImeInv'
<1> SUFFICES ASSUME ImeInv, ProbeTimer PROVE ImeInv'
  OBVIOUS
<1> DEFINE old == probe.old
           diff == IF IsPrefix(old, area) THEN From(area, Len(old)) ELSE area
<1>1. /\ probe.on /\ probe' = NoProbe
      /\ UNCHANGED <<typed, area, composing, sending, compositions, finishing>>
      /\ IF probe.generation # Current \/ composing THEN UNCHANGED <<already, sent>>
         ELSE /\ already' = diff
              /\ sent' = IF Len(area) < Len(old) THEN Append(sent, 0)
                         ELSE IF area = old THEN sent ELSE sent \o diff
  BY DEF ProbeTimer
<1>2. /\ area \in Seq(Nat) /\ old \in Seq(Nat) /\ sent \in Seq(Nat) /\ Once(sent) /\ typed \in Nat
      /\ \A x \in ToSet(sent) : x <= typed
      /\ \A i \in 1..Len(area) : area[i] <= typed
      /\ \A i, j \in 1..Len(area) : area[i] = area[j] => i = j
  <2>1. /\ \A i, j \in 1..Len(area) : i < j => area[i] < area[j]
        /\ \A i \in 1..Len(area) : area[i] \in Nat
    BY DEF ImeInv, ImeTypes
  <2>2. \A i, j \in 1..Len(area) : area[i] = area[j] => i = j
    BY <2>1
  <2>3. QED
    BY <2>2 DEF ImeInv, ImeTypes, SentOnce, Once
<1>3. ~Awaits' /\ Current' = Current /\ (Waits' <=> Waits)
  BY <1>1 DEF Awaits, Waits, NoProbe, Current
<1>4. NoProbe.old \in Seq(Nat) /\ Len(NoProbe.old) = 0 /\ NoProbe.generation = 0
  BY DEF NoProbe
<1>5. CASE probe.generation # Current \/ composing
  <2>1. UNCHANGED <<already, sent>>
    BY <1>1, <1>5
  <2>2. ImeTypes'
    <3>1. probe'.old \in Seq(Nat) /\ Len(probe'.old) = 0 /\ probe'.generation \in 0..Current'
      BY <1>1, <1>3, <1>4 DEF ImeInv, ImeTypes, Current
    <3>2. sent' \in Seq(Nat) /\ \A x \in ToSet(sent') : x <= typed
      BY <2>1 DEF ImeInv, ImeTypes
    <3>3. /\ typed' \in Nat /\ area' \in Seq(Nat)
          /\ \A i \in 1..Len(area') : area'[i] \in 1..typed'
          /\ \A i, j \in 1..Len(area') : i < j => area'[i] < area'[j]
          /\ typed' = typed
      BY <1>1 DEF ImeInv, ImeTypes
    <3>4. compositions' \in Seq(Records) /\ finishing' \subseteq 1..Current'
      BY <1>1, <1>3 DEF ImeInv, ImeTypes
    <3>5. \A i \in 1..Len(probe'.old) : probe'.old[i] =< typed'
      BY <3>1
    <3>6. QED
      BY <3>1, <3>2, <3>3, <3>4, <3>5 DEF ImeTypes
  <2>3. Turns' /\ Unsent'
    BY <1>1, <1>3, <2>1 DEF ImeInv, Turns, Unsent, UnsentAfter
  <2>4. Texts' /\ SentOnce'
    BY <1>1, <1>3, <2>1 DEF ImeInv, Texts, SentOnce, Draft
  <2>5. QED
    BY <2>2, <2>3, <2>4 DEF ImeInv
<1>6. CASE ~(probe.generation # Current \/ composing)
  <2>1. Awaits /\ ~Waits /\ ~sending /\ ~composing
    BY <1>1, <1>6 DEF Awaits, ImeInv, Turns
  <2>2. \/ UnsentAfter(0)
        \/ IsPrefix(old, area) /\ UnsentAfter(Len(old))
    <3>1. ASSUME Len(old) <= Len(area), \A i \in 1..Len(old) : area[i] = old[i]
          PROVE  IsPrefix(old, area)
      <4>1. \A s \in Seq(Nat) : Len(old) <= Len(s) =>
               /\ SubSeq(s, 1, Len(old)) \in Seq(Nat) /\ Len(SubSeq(s, 1, Len(old))) = Len(old)
               /\ \A i \in 1..Len(old) : SubSeq(s, 1, Len(old))[i] = s[i]
        <5>1. ASSUME NEW s \in Seq(Nat), Len(old) <= Len(s)
              PROVE  /\ SubSeq(s, 1, Len(old)) \in Seq(Nat) /\ Len(SubSeq(s, 1, Len(old))) = Len(old)
                     /\ \A i \in 1..Len(old) : SubSeq(s, 1, Len(old))[i] = s[i]
          <6>1. Len(old) \in Nat /\ \A i \in 1..Len(old) : s[i] \in Nat
            BY <1>2, <5>1
          <6>2. /\ SubSeq(s, 1, Len(old)) \in Seq(Nat)
                /\ Len(SubSeq(s, 1, Len(old))) = IF 1 <= Len(old) THEN Len(old) - 1 + 1 ELSE 0
                /\ \A i \in 1..(Len(old) - 1 + 1) : SubSeq(s, 1, Len(old))[i] = s[1 + i - 1]
            BY <6>1, SubSeqProperties
          <6>3. /\ (IF 1 <= Len(old) THEN Len(old) - 1 + 1 ELSE 0) = Len(old)
                /\ Len(old) - 1 + 1 = Len(old) /\ \A i \in 1..Len(old) : 1 + i - 1 = i
            BY <6>1
          <6>4. QED
            BY <6>2, <6>3
        <5>2. QED
          BY <5>1
      <4>2. Len(old) <= Len(old)
        BY <1>2
      <4>3. SubSeq(old, 1, Len(old)) = SubSeq(area, 1, Len(old))
        BY <1>2, <3>1, <4>1, <4>2, SeqEqual
      <4>4. QED
        BY <3>1, <4>3 DEF IsPrefix
    <3>2. QED
      BY <2>1, <3>1 DEF ImeInv, Unsent
  \* Nothing of what is found has been sent.
  <2>3. /\ diff \in Seq(Nat) /\ Once(diff)
        /\ \A i \in 1..Len(diff) : diff[i] \notin ToSet(sent)
        /\ \A x \in ToSet(diff) : x <= typed
    <3>1. CASE IsPrefix(old, area)
      <4>1. Len(old) \in Nat /\ Len(old) <= Len(area) /\ Len(area) \in Nat
        BY <1>2, <3>1 DEF IsPrefix
      <4>2. /\ diff \in Seq(Nat) /\ Len(diff) = Len(area) - Len(old)
            /\ \A i \in 1..(Len(area) - Len(old)) : diff[i] = area[Len(old) + i]
        <5>1. diff = From(area, Len(old))
          BY <3>1
        <5>2. \A n \in Nat : n <= Len(area) =>
                /\ From(area, n) \in Seq(Nat) /\ Len(From(area, n)) = Len(area) - n
                /\ \A i \in 1..(Len(area) - n) : From(area, n)[i] = area[n + i]
          BY <1>2, FromRest
        <5>3. QED
          BY <4>1, <5>1, <5>2
      <4> HIDE DEF diff
      <4>3. \A i \in 1..(Len(area) - Len(old)) : Len(old) + i \in 1..Len(area) /\ Len(old) + i > Len(old)
                                                /\ Len(old) + i > 0
        BY <4>1
      <4>4. \A i \in 1..Len(diff) : diff[i] \notin ToSet(sent)
        BY <2>2, <4>2, <4>3 DEF UnsentAfter
      <4>5. Once(diff)
        <5>1. \A i, j \in 1..(Len(area) - Len(old)) : diff[i] = diff[j] => Len(old) + i = Len(old) + j
          BY <1>2, <4>2, <4>3
        <5>2. \A i, j \in 1..(Len(area) - Len(old)) : Len(old) + i = Len(old) + j => i = j
          BY <4>1
        <5>3. QED
          BY <4>2, <5>1, <5>2 DEF Once
      <4>6. \A x \in ToSet(diff) : x <= typed
        <5>1. \A i \in 1..(Len(area) - Len(old)) : diff[i] <= typed
          BY <1>2, <4>2, <4>3
        <5>2. DOMAIN diff = 1..(Len(area) - Len(old))
          <6>1. DOMAIN diff = 1..Len(diff)
            BY <4>2
          <6>2. QED
            BY <4>2, <6>1
        <5>3. QED
          BY <5>1, <5>2 DEF ToSet
      <4>7. QED
        BY <4>2, <4>4, <4>5, <4>6
    <3>2. CASE ~IsPrefix(old, area)
      <4>1. diff = area /\ UnsentAfter(0)
        BY <2>2, <3>2
      <4>2. \A i \in 1..Len(area) : i > 0
        BY <1>2
      <4>3. QED
        BY <1>2, <4>1, <4>2 DEF Once, UnsentAfter, ToSet
    <3>3. QED
      BY <3>1, <3>2
  <2> HIDE DEF diff
  <2>4. /\ sent' \in Seq(Nat) /\ Once(sent') /\ ToSet(sent) \subseteq ToSet(sent')
        /\ \A x \in ToSet(sent') : x <= typed
    <3>1. /\ sent \o diff \in Seq(Nat) /\ Once(sent \o diff)
          /\ ToSet(sent \o diff) = ToSet(sent) \cup ToSet(diff)
      BY <1>2, <2>3, SendsMore
    <3>2. /\ sent \o <<0>> \in Seq(Nat) /\ Once(sent \o <<0>>)
          /\ ToSet(sent \o <<0>>) = ToSet(sent) \cup {0} /\ Append(sent, 0) = sent \o <<0>>
      <4>1. <<0>> \in Seq(Nat) /\ Once(<<0>>) /\ ToSet(<<0>>) = {0} /\ \A i \in 1..Len(<<0>>) : <<0>>[i] = 0
        BY DEF Once, ToSet
      <4>2. Append(sent, 0) = sent \o <<0>>
        BY <1>2, AppendIsConcat
      <4>3. QED
        BY <1>2, <4>1, <4>2, SendsMore
    <3>3. 0 <= typed
      BY <1>2
    <3>4. sent' \in {sent, sent \o diff, sent \o <<0>>}
      BY <1>1, <1>6, <3>2
    <3>5. QED
      BY <1>2, <2>3, <3>1, <3>2, <3>3, <3>4
  <2>5. ImeTypes'
    <3>1. probe'.old \in Seq(Nat) /\ Len(probe'.old) = 0 /\ probe'.generation \in 0..Current'
      BY <1>1, <1>3, <1>4 DEF ImeInv, ImeTypes, Current
    <3>2. sent' \in Seq(Nat) /\ \A x \in ToSet(sent)' : x <= typed'
      BY <1>1, <2>4 DEF ToSet
    <3>3. typed' \in Nat /\ compositions' \in Seq(Records) /\ finishing' \subseteq 1..Current'
      BY <1>1, <1>3 DEF ImeInv, ImeTypes
    <3>4. /\ area' \in Seq(Nat) /\ \A i \in 1..Len(area') : area'[i] \in 1..typed'
          /\ \A i, j \in 1..Len(area') : i < j => area'[i] < area'[j]
      BY <1>1 DEF ImeInv, ImeTypes
    <3>5. QED
      BY <3>1, <3>2, <3>3, <3>4 DEF ImeTypes
  <2>6. Turns' /\ Unsent'
    BY <1>1, <1>3, <2>1 DEF ImeInv, Turns, Unsent
  <2>7. Texts'
    BY <1>1, <1>3, <2>1, <2>4 DEF ImeInv, Texts
  <2>8. QED
    BY <2>4, <2>5, <2>6, <2>7 DEF ImeInv, SentOnce, Once
<1>7. QED
  BY <1>5, <1>6

\* At the start nothing is typed.
LEMMA ImeStarts == ImeInit => ImeInv
<1> SUFFICES ASSUME ImeInit PROVE ImeInv
  OBVIOUS
<1>1. /\ typed = 0 /\ area = <<>> /\ sent = <<>> /\ compositions = <<>> /\ finishing = {}
      /\ ~composing /\ ~sending /\ probe = NoProbe /\ Current = 0 /\ 0 \in 0..0
  BY DEF ImeInit, Current
<1>2. NoProbe.old = <<>> /\ ~NoProbe.on /\ NoProbe.generation = 0
  BY DEF NoProbe
<1>3. ImeTypes
  BY <1>1, <1>2 DEF ImeTypes, ToSet
<1>4. Turns /\ Unsent /\ Texts /\ SentOnce
  BY <1>1, <1>2 DEF Turns, Unsent, Texts, SentOnce, Waits, Awaits
<1>5. QED
  BY <1>3, <1>4 DEF ImeInv

\* Every step of the input method keeps the invariant.
LEMMA ImeStep == ImeInv /\ [ImeNext]_imeVars => ImeInv'
<1> SUFFICES ASSUME ImeInv, [ImeNext]_imeVars PROVE ImeInv'
  OBVIOUS
<1>1. CASE ImeNext
  BY <1>1, StartKeeps, DraftKeeps, CompositionEndKeeps, TimerKeeps, PlainKeeps, ProbedKeeps,
     ProbeKeeps, BlurKeeps DEF ImeNext
<1>2. CASE UNCHANGED imeVars
  BY <1>2 DEF imeVars, ImeInv, ImeTypes, Turns, Unsent, UnsentAfter, Texts, Draft, Waits, Awaits,
              Current, SentOnce
<1>3. QED
  BY <1>1, <1>2

\* In whatever order timers, keys, compositions and blurs come, what is typed and what
\* is composed is sent, and sent once.
THEOREM TypingIsSound == ImeSpec => []TypingSound
<1>1. ImeInv => TypingSound
  <2>1. ASSUME ImeInv, finishing = {}, NEW k \in 1..Current
        PROVE  ToSet(compositions[k].text) \subseteq ToSet(sent)
    <3>1. CASE compositions[k].sent
      BY <2>1, <3>1 DEF ImeInv, Texts
    <3>2. CASE ~compositions[k].sent
      <4>1. k = Current /\ Current > 0
        BY <2>1, <3>2 DEF ImeInv, Turns, ImeTypes, Current
      <4>2. composing /\ compositions[k].text = <<>>
        BY <2>1, <3>2, <4>1 DEF ImeInv, Turns, Texts, Waits
      <4>3. QED
        BY <4>2 DEF ToSet
    <3>3. QED
      BY <3>1, <3>2
  <2>2. QED
    BY <2>1 DEF ImeInv, TypingSound, ComposedIsSent
<1>2. QED
  BY <1>1, ImeStarts, ImeStep, PTL DEF ImeSpec

-----------------------------------------------------------------------------
(* The tables of the SSH connections (SshSession).                         *)

\* The invariant is SessionInv.  A session is in the map, or with the one login that took
\* it out, or gone; every argument below starts from which of the three it is.

\* The initial tables and calls have their types.
LEMMA TypeInit == Init => TypeOK
BY DEF Init, TypeOK, AttachStage, OpeningStage

\* Every step of a command, a reader or the network keeps the types.
LEMMA TypeStep == TypeOK /\ [Next]_vars => TypeOK'
<1> SUFFICES ASSUME TypeOK, [Next]_vars PROVE TypeOK'
  OBVIOUS
<1> USE ConnOfAssumption DEF TypeOK, AttachStage, OpeningStage, Advance, tablesVars,
        sessionVars, ptyVars, callsVars
<1>1. ASSUME NEW l \in Logins, LoginStep(l) PROVE TypeOK'
  BY <1>1 DEF LoginStep, LoginTakes, LoginPuts, LoginMarks, Registered
<1>2. ASSUME NEW t \in Terms, AttachStep(t) PROVE TypeOK'
  <2>1. CASE AttachChecks(t) \/ AttachRegisters(t) \/ AttachTakesHandle(t)
    BY <2>1 DEF AttachChecks, AttachRegisters, AttachTakesHandle
  <2>2. CASE AttachInserts(t) \/ AttachIsRefused(t) \/ AttachFails(t)
    BY <2>2 DEF AttachInserts, AttachIsRefused, AttachFails
  <2>3. CASE AttachMarks(t) \/ AttachReturns(t)
    BY <2>3 DEF AttachMarks, AttachReturns
  <2>4. QED
    BY <1>2, <2>1, <2>2, <2>3 DEF AttachStep
<1>3. ASSUME NEW t \in Terms, PtyStep(t) \/ DropStep(t) PROVE TypeOK'
  <2>1. CASE RemoteCloses(t) \/ ReaderNotices(t) \/ ReaderCleans(t) \/ WriteFails(t)
    BY <2>1 DEF RemoteCloses, ReaderNotices, ReaderCleans, WriteFails, ShowClosed
  <2>2. CASE TerminalLooksUp(t) \/ TerminalClosesPty(t) \/ TerminalDrops(t)
    BY <2>2 DEF TerminalLooksUp, TerminalClosesPty, TerminalDrops
  <2>3. QED
    BY <1>3, <2>1, <2>2 DEF PtyStep, DropStep
<1>4. ASSUME NEW f \in Files, FileStep(f) PROVE TypeOK'
  BY <1>4 DEF FileStep, FileChecks, FileTakesHandle, FileChannelOpens, FileIsRefused,
              FileRegisters, FileMarks, FileCloses
<1>5. ASSUME NEW c \in Conns, OpenStep(c) \/ CloseStep(c) \/ TransportLost(c) PROVE TypeOK'
  <2>1. CASE OpenStep(c) \/ TransportLost(c)
    BY <2>1 DEF OpenStep, OpenPending, OpenConnected, OpenFails, TransportLost
  <2>2. CASE CloseTerminals(c) \/ ClosePtys(c) \/ CloseFiles(c)
    BY <2>2 DEF CloseTerminals, ClosePtys, CloseFiles, TermsOf, FilesOf
  <2>3. CASE CloseSsh(c) \/ CloseDisconnects(c) \/ CloseRegistry(c)
    BY <2>3 DEF CloseSsh, CloseDisconnects, CloseRegistry, TermsOf
  <2>4. QED
    BY <1>5, <2>1, <2>2, <2>3 DEF CloseStep
<1>6. CASE UNCHANGED vars
  BY <1>6 DEF vars
<1>7. QED
  BY <1>1, <1>2, <1>3, <1>4, <1>5, <1>6 DEF Next

\* Every variable keeps its type.
THEOREM TypeCorrect == Spec => []TypeOK
  BY TypeInit, TypeStep, PTL DEF Spec

-----------------------------------------------------------------------------
(* Where the session of a connection is.                                   *)

\* Nothing is open at the start, so the invariant holds.
LEMMA InvInit == Init => SessionInv
BY DEF Init, SessionInv, OneTalker, AttachedIsRead, PtyHasReader, RuntimeReleased,
       SessionPlaced, Held, Registered

\* The part of the state that decides where a session is.
placeVars == <<registry, mapped, transport, sftp, ptys, login, closing, overtaken>>

PlaceInv == OneTalker /\ SessionPlaced /\ RuntimeReleased

\* A step that leaves this part alone keeps the facts about the session.
LEMMA PlaceFrame == PlaceInv /\ UNCHANGED placeVars => PlaceInv'
BY DEF PlaceInv, OneTalker, SessionPlaced, RuntimeReleased, Held, placeVars

\* The steps of terminals and file sessions that leave it alone.
LEMMA QuietTerminal ==
    ASSUME NEW t \in Terms,
           \/ AttachChecks(t) \/ AttachRegisters(t) \/ AttachTakesHandle(t)
           \/ AttachIsRefused(t) \/ AttachFails(t) \/ AttachMarks(t) \/ AttachReturns(t)
           \/ RemoteCloses(t) \/ ReaderNotices(t) \/ WriteFails(t)
           \/ TerminalLooksUp(t) \/ TerminalDrops(t)
    PROVE  UNCHANGED placeVars
BY DEF placeVars, tablesVars, sessionVars, ptyVars, callsVars, AttachChecks,
       AttachRegisters, AttachTakesHandle, AttachIsRefused, AttachFails, AttachMarks,
       AttachReturns, RemoteCloses, ReaderNotices, WriteFails, TerminalLooksUp, TerminalDrops

\* The same for file sessions: only a new channel touches the session.
LEMMA QuietFile ==
    ASSUME NEW f \in Files,
           \/ FileChecks(f) \/ FileTakesHandle(f) \/ FileIsRefused(f)
           \/ FileRegisters(f) \/ FileMarks(f) \/ FileCloses(f)
    PROVE  UNCHANGED placeVars
BY DEF placeVars, sessionVars, ptyVars, FileChecks, FileTakesHandle, FileIsRefused,
       FileRegisters, FileMarks, FileCloses, tablesVars, callsVars

\* A login takes the session out, puts it back or marks the registry: the session is
\* never in two places, and never lost while the connection is registered.
LEMMA PlaceLogin ==
    ASSUME TypeOK, PlaceInv, NEW l \in Logins, LoginStep(l)
    PROVE  PlaceInv'
<1> DEFINE c == ConnOf[l]
<1>1. c \in Conns
  BY ConnOfAssumption
<1>2. CASE LoginTakes(l)
  <2>1. /\ c \in mapped /\ mapped' = mapped \ {c}
        /\ login' = [login EXCEPT ![l] = "talking"]
        /\ UNCHANGED <<registry, transport, sftp, ptys, closing, overtaken>>
    BY <1>2 DEF LoginTakes, Advance, tablesVars, ptyVars
  <2>2. ~Held(c) /\ Held(c)'
    BY <2>1 DEF TypeOK, PlaceInv, OneTalker, Held
  <2>3. \A d \in Conns \ {c} : Held(d)' <=> Held(d)
    BY <2>1 DEF TypeOK, Held
  <2>4. OneTalker'
    BY <2>1, <2>2, <2>3 DEF TypeOK, PlaceInv, OneTalker, Held
  <2>5. SessionPlaced'
    BY <1>1, <2>1, <2>2, <2>3, ConnOfAssumption
       DEF TypeOK, PlaceInv, SessionPlaced, Registered
  <2>6. RuntimeReleased'
    BY <1>1, <2>1, <2>2, <2>3 DEF PlaceInv, RuntimeReleased
  <2>7. QED
    BY <2>4, <2>5, <2>6 DEF PlaceInv
<1>3. CASE LoginPuts(l)
  <2>1. /\ mapped' = mapped \cup {c} /\ login[l] = "talking"
        /\ login' \in {[login EXCEPT ![l] = "accepted"], [login EXCEPT ![l] = "over"]}
        /\ UNCHANGED <<registry, transport, sftp, ptys, closing, overtaken>>
    BY <1>3 DEF LoginPuts, Advance, tablesVars, ptyVars
  <2>2. Held(c) /\ ~Held(c)'
    BY <2>1 DEF TypeOK, PlaceInv, OneTalker, Held
  <2>3. \A d \in Conns \ {c} : Held(d)' <=> Held(d)
    BY <2>1 DEF TypeOK, Held
  <2>4. OneTalker'
    BY <2>1, <2>2, <2>3 DEF TypeOK, PlaceInv, OneTalker, Held
  <2>5. SessionPlaced'
    BY <1>1, <2>1, <2>2, <2>3, ConnOfAssumption
       DEF TypeOK, PlaceInv, SessionPlaced, Registered
  <2>6. RuntimeReleased'
    BY <1>1, <2>1, <2>2, <2>3 DEF PlaceInv, RuntimeReleased
  <2>7. QED
    BY <2>4, <2>5, <2>6 DEF PlaceInv
<1>4. CASE LoginMarks(l)
  <2>1. /\ login' = [login EXCEPT ![l] = "over"] /\ login[l] = "accepted"
        /\ registry' = [registry EXCEPT ![c] = IF @ \in Registered THEN "connected" ELSE @]
        /\ UNCHANGED <<mapped, transport, sftp, ptys, closing, overtaken>>
    BY <1>4 DEF LoginMarks, Advance, sessionVars, ptyVars
  <2>2. \A d \in Conns : Held(d)' <=> Held(d)
    BY <2>1 DEF TypeOK, Held
  <2>3. OneTalker'
    BY <2>1 DEF TypeOK, PlaceInv, OneTalker
  <2>4. SessionPlaced'
    BY <1>1, <2>1, <2>2, ConnOfAssumption DEF TypeOK, PlaceInv, SessionPlaced, Registered
  <2>5. RuntimeReleased'
    BY <2>1, <2>2 DEF PlaceInv, RuntimeReleased
  <2>6. QED
    BY <2>3, <2>4, <2>5 DEF PlaceInv
<1>5. QED
  BY <1>2, <1>3, <1>4 DEF LoginStep

\* Opening a PTY or an SFTP channel needs the session in the map; a PTY may go any time.
LEMMA PlaceChannels ==
    ASSUME TypeOK, PlaceInv,
           \/ \E t \in Terms : AttachInserts(t) \/ ReaderCleans(t) \/ TerminalClosesPty(t)
           \/ \E f \in Files : FileChannelOpens(f)
    PROVE  PlaceInv'
<1> USE DEF AttachInserts, ReaderCleans, TerminalClosesPty, FileChannelOpens
<1>1. UNCHANGED <<registry, mapped, transport, login, closing>> /\ overtaken \subseteq overtaken'
  BY DEF tablesVars, sessionVars, ptyVars, callsVars
<1>2. \A u \in ptys' : u \in ptys \/ ConnOf[u] \in mapped
  BY DEF ptyVars
<1>3. \A c \in sftp' : c \in sftp \/ c \in mapped
  BY DEF sessionVars
<1> HIDE DEF AttachInserts, ReaderCleans, TerminalClosesPty, FileChannelOpens
<1>4. \A c \in Conns : Held(c)' <=> Held(c)
  BY <1>1 DEF Held
<1>5. \A u \in Terms : ConnOf[u] \in Conns
  BY ConnOfAssumption
<1>6. ptys \subseteq Terms /\ ptys' \subseteq Terms
  BY DEF TypeOK, AttachInserts, ReaderCleans, TerminalClosesPty, FileChannelOpens, ptyVars
<1>7. OneTalker'
  BY <1>1 DEF PlaceInv, OneTalker
<1>8. RuntimeReleased'
  BY <1>1, <1>4 DEF PlaceInv, RuntimeReleased
<1>9. SessionPlaced'
  BY <1>1, <1>2, <1>3, <1>4, <1>5, <1>6 DEF PlaceInv, SessionPlaced
<1>10. QED
  BY <1>7, <1>8, <1>9 DEF PlaceInv

\* Opening and closing a connection, and the loss of its transport.
LEMMA PlaceConnection ==
    ASSUME TypeOK, PlaceInv, NEW c \in Conns, OpenStep(c) \/ CloseStep(c) \/ TransportLost(c)
    PROVE  PlaceInv'
<1>1. \A d \in Conns : Held(d)' <=> Held(d)
  BY DEF Held, OpenStep, OpenPending, OpenConnected, OpenFails, CloseStep, CloseTerminals,
         ClosePtys, CloseFiles, CloseSsh, CloseDisconnects, CloseRegistry, TransportLost, callsVars
<1>2. \A t \in Terms : ConnOf[t] \in Conns
  BY ConnOfAssumption
<1>3. CASE OpenStep(c)
  <2>1. registry[c] \in {"unopened", "connecting"} /\ closing[c] = "idle" /\ c \notin mapped
        /\ ~Held(c) /\ \A l \in Logins : ConnOf[l] = c => login[l] # "talking"
    BY <1>3 DEF OpenStep, OpenPending, OpenConnected, OpenFails, Advance, PlaceInv,
                SessionPlaced, Registered, Held, TypeOK
  <2>2. CASE OpenPending(c) \/ OpenFails(c)
    BY <1>1, <1>2, <2>1, <2>2
       DEF OpenPending, OpenFails, Advance, sessionVars, ptyVars, callsVars, TypeOK,
           PlaceInv, OneTalker, SessionPlaced, RuntimeReleased, Registered
  <2>3. CASE OpenConnected(c)
    BY <1>1, <1>2, <2>1, <2>3
       DEF OpenConnected, Advance, ptyVars, callsVars, TypeOK,
           PlaceInv, OneTalker, SessionPlaced, RuntimeReleased, Registered
  <2>4. QED
    BY <1>3, <2>2, <2>3 DEF OpenStep
<1>4. CASE CloseTerminals(c) \/ ClosePtys(c) \/ CloseFiles(c)
  BY <1>1, <1>2, <1>4
     DEF CloseTerminals, ClosePtys, CloseFiles, Advance, tablesVars, sessionVars, ptyVars,
         TypeOK, PlaceInv, OneTalker, SessionPlaced, RuntimeReleased, Registered
<1>5. CASE CloseSsh(c)
  <2>1. /\ closing[c] = "files" /\ UNCHANGED <<registry, login, transport>>
        /\ closing' = [closing EXCEPT ![c] = IF c \in mapped THEN "unmapped" ELSE "ssh"]
        /\ overtaken' = IF Held(c) THEN overtaken \cup {c} ELSE overtaken
    BY <1>5 DEF CloseSsh, Advance, tablesVars
  <2>2. CASE c \in mapped
    <3>1. /\ mapped' = mapped \ {c} /\ ptys' = ptys \ TermsOf(c) /\ sftp' = sftp \ {c}
      BY <1>5, <2>2 DEF CloseSsh
    <3>2. ~Held(c)
      BY <2>2 DEF PlaceInv, OneTalker, Held
    <3>3. OneTalker'
      BY <2>1, <3>1 DEF PlaceInv, OneTalker
    <3>4. RuntimeReleased'
      <4>1. overtaken' = overtaken /\ closing' = [closing EXCEPT ![c] = "unmapped"]
        BY <2>1, <2>2, <3>2
      <4>2. ~Held(c)'
        BY <1>1, <3>2
      <4>3. QED
        BY <1>1, <2>1, <3>1, <4>1, <4>2 DEF TypeOK, PlaceInv, RuntimeReleased
    <3>5. SessionPlaced'
      <4>1. \A u \in ptys' : u \in ptys /\ ConnOf[u] # c
        BY <3>1 DEF TypeOK, TermsOf
      <4>2. closing' = [closing EXCEPT ![c] = "unmapped"] /\ registry[c] \in Registered
        BY <2>1, <2>2 DEF PlaceInv, SessionPlaced
      <4>3. \A u \in ptys' : (ConnOf[u] \in mapped \/ Held(ConnOf[u]))'
        BY <1>1, <1>2, <3>1, <4>1 DEF TypeOK, PlaceInv, SessionPlaced
      <4>4. QED
        BY <1>1, <2>1, <3>1, <3>2, <4>2, <4>3
           DEF TypeOK, PlaceInv, SessionPlaced, Registered
    <3>6. QED
      BY <3>3, <3>4, <3>5 DEF PlaceInv
  <2>3. CASE c \notin mapped
    <3>1. UNCHANGED <<mapped, ptys, sftp>>
      BY <1>5, <2>3 DEF CloseSsh
    <3>2. Held(c)
      <4>1. closing[c] = "files" /\ registry[c] \in Registered
        BY <2>1 DEF PlaceInv, SessionPlaced
      <4>2. QED
        BY <2>3, <4>1 DEF PlaceInv, SessionPlaced
    <3>3. OneTalker'
      BY <2>1, <3>1 DEF PlaceInv, OneTalker
    <3>4. RuntimeReleased'
      BY <1>1, <2>1, <3>1, <3>2 DEF TypeOK, PlaceInv, RuntimeReleased
    <3>5. SessionPlaced'
      BY <1>1, <1>2, <2>1, <3>1, <3>2 DEF TypeOK, PlaceInv, SessionPlaced, Registered
    <3>6. QED
      BY <3>3, <3>4, <3>5 DEF PlaceInv
  <2>4. QED
    BY <2>2, <2>3
<1>6. CASE CloseDisconnects(c)
  BY <1>1, <1>2, <1>6
     DEF CloseDisconnects, Advance, tablesVars, ptyVars, TypeOK, PlaceInv, OneTalker,
         SessionPlaced, RuntimeReleased, Registered
<1>7. CASE CloseRegistry(c)
  BY <1>1, <1>2, <1>7
     DEF CloseRegistry, Advance, sessionVars, ptyVars, TypeOK, PlaceInv, OneTalker,
         SessionPlaced, RuntimeReleased, Registered
<1>8. CASE TransportLost(c)
  BY <1>1, <1>2, <1>8
     DEF TransportLost, Advance, tablesVars, ptyVars, callsVars, TypeOK, PlaceInv,
         OneTalker, SessionPlaced, RuntimeReleased
<1>9. QED
  BY <1>3, <1>4, <1>5, <1>6, <1>7, <1>8 DEF CloseStep

\* Whatever happens, the session is in one place or gone.
LEMMA PlaceStep == TypeOK /\ PlaceInv /\ [Next]_vars => PlaceInv'
<1> SUFFICES ASSUME TypeOK, PlaceInv, [Next]_vars PROVE PlaceInv'
  OBVIOUS
<1>1. ASSUME NEW l \in Logins, LoginStep(l) PROVE PlaceInv'
  BY <1>1, PlaceLogin
<1>2. ASSUME NEW c \in Conns, OpenStep(c) \/ CloseStep(c) \/ TransportLost(c) PROVE PlaceInv'
  BY <1>2, PlaceConnection
<1>3. ASSUME NEW t \in Terms, AttachInserts(t) \/ ReaderCleans(t) \/ TerminalClosesPty(t)
      PROVE  PlaceInv'
  BY <1>3, PlaceChannels
<1>4. ASSUME NEW f \in Files, FileChannelOpens(f) PROVE PlaceInv'
  BY <1>4, PlaceChannels
<1>5. ASSUME NEW t \in Terms, AttachStep(t) \/ PtyStep(t) \/ DropStep(t) PROVE PlaceInv'
  BY <1>3, <1>5, QuietTerminal, PlaceFrame DEF AttachStep, PtyStep, DropStep
<1>6. ASSUME NEW f \in Files, FileStep(f) PROVE PlaceInv'
  BY <1>4, <1>6, QuietFile, PlaceFrame DEF FileStep
<1>7. CASE UNCHANGED vars
  BY <1>7, PlaceFrame DEF vars, placeVars
<1>8. QED
  BY <1>1, <1>2, <1>5, <1>6, <1>7 DEF Next

-----------------------------------------------------------------------------
(* Terminals and their readers.                                            *)

\* The table's row of a terminal that no step of the terminal itself touches.
RowKept(t) == /\ attach'[t] = attach[t] /\ reader'[t] = reader[t]
              /\ term'[t] = term[t] \/ term'[t] = "none"

\* The steps of others leave the row as it is, or (connection_close) delete it.
LEMMA RowsKept ==
    ASSUME TypeOK, NEW t \in Terms, [Next]_vars, ~(AttachStep(t) \/ PtyStep(t) \/ DropStep(t))
    PROVE  RowKept(t)
<1> USE DEF RowKept, Advance, tablesVars, sessionVars, ptyVars, callsVars, TypeOK
<1>1. ASSUME NEW l \in Logins, LoginStep(l) PROVE RowKept(t)
  BY <1>1 DEF LoginStep, LoginTakes, LoginPuts, LoginMarks
<1>2. ASSUME NEW u \in Terms \ {t}, AttachStep(u) PROVE RowKept(t)
  BY <1>2 DEF AttachStep, AttachChecks, AttachRegisters, AttachTakesHandle, AttachInserts,
              AttachIsRefused, AttachFails, AttachMarks, AttachReturns
<1>3. ASSUME NEW u \in Terms \ {t}, PtyStep(u) \/ DropStep(u) PROVE RowKept(t)
  BY <1>3 DEF PtyStep, RemoteCloses, ReaderNotices, ReaderCleans, WriteFails, ShowClosed,
              DropStep, TerminalLooksUp, TerminalClosesPty, TerminalDrops
<1>4. ASSUME NEW f \in Files, FileStep(f) PROVE RowKept(t)
  BY <1>4 DEF FileStep, FileChecks, FileTakesHandle, FileChannelOpens, FileIsRefused,
              FileRegisters, FileMarks, FileCloses
<1>5. ASSUME NEW c \in Conns, OpenStep(c) \/ CloseStep(c) \/ TransportLost(c) PROVE RowKept(t)
  BY <1>5 DEF OpenStep, OpenPending, OpenConnected, OpenFails, CloseStep, CloseTerminals,
              ClosePtys, CloseFiles, CloseSsh, CloseDisconnects, CloseRegistry, TransportLost
<1>6. CASE UNCHANGED vars
  BY <1>6 DEF vars
<1>7. QED
  BY <1>1, <1>2, <1>3, <1>4, <1>5, <1>6 DEF Next

\* A terminal becomes attached after its reader started, and stays so no longer than it.
LEMMA ReadStep == TypeOK /\ AttachedIsRead /\ [Next]_vars => AttachedIsRead'
<1> SUFFICES ASSUME TypeOK, AttachedIsRead, [Next]_vars, NEW t \in Terms,
                    term'[t] = "attached",
                    attach'[t] \notin {"registered", "opening", "failing"}
             PROVE  reader'[t] = "reading"
  BY DEF AttachedIsRead
<1> USE DEF Advance, tablesVars, sessionVars, ptyVars, callsVars, TypeOK, AttachedIsRead
<1>1. CASE AttachStep(t)
  <2>1. CASE AttachChecks(t) \/ AttachRegisters(t) \/ AttachTakesHandle(t) \/ AttachInserts(t)
    BY <2>1 DEF AttachChecks, AttachRegisters, AttachTakesHandle, AttachInserts
  <2>2. CASE AttachIsRefused(t) \/ AttachFails(t) \/ AttachMarks(t) \/ AttachReturns(t)
    BY <2>2 DEF AttachIsRefused, AttachFails, AttachMarks, AttachReturns
  <2>3. QED
    BY <1>1, <2>1, <2>2 DEF AttachStep
<1>2. CASE PtyStep(t)
  BY <1>2 DEF PtyStep, RemoteCloses, ReaderNotices, ReaderCleans, WriteFails, ShowClosed
<1>3. CASE DropStep(t)
  BY <1>3 DEF DropStep, TerminalLooksUp, TerminalClosesPty, TerminalDrops
<1>4. CASE ~(AttachStep(t) \/ PtyStep(t) \/ DropStep(t))
  BY <1>4, RowsKept DEF RowKept
<1>5. QED
  BY <1>1, <1>2, <1>3, <1>4

\* A PTY enters the table with its reader, and leaves it with its reader.
LEMMA PtyReaderStep ==
    TypeOK /\ PlaceInv /\ PtyHasReader /\ [Next]_vars => PtyHasReader'
<1> SUFFICES ASSUME TypeOK, PlaceInv, PtyHasReader, [Next]_vars, NEW t \in ptys'
             PROVE  reader'[t] \in {"reading", "noticed"} \/ ConnOf[t] \in overtaken'
  BY DEF PtyHasReader
<1>1. t \in Terms /\ overtaken \subseteq overtaken'
  <2>1. t \in Terms
    BY TypeStep DEF TypeOK
  <2>2. overtaken \subseteq overtaken'
    BY DEF Next, LoginStep, LoginTakes, LoginPuts, LoginMarks, AttachStep, AttachChecks,
           AttachRegisters, AttachTakesHandle, AttachInserts, AttachIsRefused, AttachFails,
           AttachMarks, AttachReturns, PtyStep, RemoteCloses, ReaderNotices, ReaderCleans,
           WriteFails, DropStep, TerminalLooksUp, TerminalClosesPty, TerminalDrops, FileStep,
           FileChecks, FileTakesHandle, FileChannelOpens, FileIsRefused, FileRegisters,
           FileMarks, FileCloses, OpenStep, OpenPending, OpenConnected, OpenFails, CloseStep,
           CloseTerminals, ClosePtys, CloseFiles, CloseSsh,
              CloseDisconnects, CloseRegistry, TransportLost, vars
  <2>3. QED
    BY <2>1, <2>2
<1>2. CASE AttachInserts(t)
  BY <1>1, <1>2 DEF AttachInserts, TypeOK, PtyHasReader, ptyVars
<1>3. CASE ReaderCleans(t)
  <2>1. ConnOf[t] \notin mapped /\ t \in ptys
    BY <1>3 DEF ReaderCleans
  <2>2. Held(ConnOf[t])
    BY <2>1 DEF PlaceInv, SessionPlaced
  <2>3. QED
    BY <1>3, <2>2 DEF ReaderCleans
<1>4. CASE ReaderNotices(t)
  BY <1>1, <1>4 DEF ReaderNotices, Advance, TypeOK
<1>5. CASE ~(AttachInserts(t) \/ ReaderCleans(t) \/ ReaderNotices(t))
  <2>1. t \in ptys /\ reader'[t] = reader[t]
    <3> USE <1>1 DEF tablesVars, sessionVars, ptyVars, callsVars
    <3>1. ASSUME NEW u \in Terms, AttachInserts(u), u # t PROVE t \in ptys /\ reader'[t] = reader[t]
      BY <3>1 DEF AttachInserts, TypeOK
    <3>2. ASSUME NEW u \in Terms, ReaderCleans(u) \/ ReaderNotices(u), u # t
          PROVE  t \in ptys /\ reader'[t] = reader[t]
      BY <3>2 DEF ReaderCleans, ReaderNotices, Advance, TypeOK
    <3>3. ASSUME NEW u \in Terms, AttachStep(u), ~AttachInserts(u)
          PROVE  UNCHANGED <<ptys, reader>>
      BY <3>3 DEF AttachStep, AttachChecks, AttachRegisters, AttachTakesHandle,
                  AttachIsRefused, AttachFails, AttachMarks, AttachReturns
    <3>4. ASSUME NEW u \in Terms, RemoteCloses(u) \/ WriteFails(u) \/ DropStep(u)
          PROVE  reader' = reader /\ ptys' \subseteq ptys
      BY <3>4 DEF RemoteCloses, WriteFails, DropStep, TerminalLooksUp, TerminalClosesPty,
                  TerminalDrops
    <3>5. ASSUME NEW l \in Logins, LoginStep(l) PROVE UNCHANGED <<ptys, reader>>
      BY <3>5 DEF LoginStep, LoginTakes, LoginPuts, LoginMarks
    <3>6. ASSUME NEW f \in Files, FileStep(f) PROVE UNCHANGED <<ptys, reader>>
      BY <3>6 DEF FileStep, FileChecks, FileTakesHandle, FileChannelOpens, FileIsRefused,
                  FileRegisters, FileMarks, FileCloses
    <3>7. ASSUME NEW c \in Conns, OpenStep(c) \/ CloseStep(c) \/ TransportLost(c)
          PROVE  reader' = reader /\ ptys' \subseteq ptys
      BY <3>7 DEF OpenStep, OpenPending, OpenConnected, OpenFails, CloseStep, CloseTerminals,
                  ClosePtys, CloseFiles, CloseSsh, CloseDisconnects, CloseRegistry, TransportLost
    <3>8. CASE UNCHANGED vars
      BY <3>8 DEF vars
    <3>9. QED
      BY <1>5, <3>1, <3>2, <3>3, <3>4, <3>5, <3>6, <3>7, <3>8 DEF Next, PtyStep
  <2>2. QED
    BY <1>1, <2>1 DEF PtyHasReader
<1>6. QED
  BY <1>2, <1>3, <1>4, <1>5

\* The invariant is inductive.
LEMMA InvStep == TypeOK /\ SessionInv /\ [Next]_vars => SessionInv'
BY PlaceStep, ReadStep, PtyReaderStep DEF SessionInv, PlaceInv

-----------------------------------------------------------------------------
(* The results.                                                            *)

\* The invariant holds in every reachable state.
LEMMA InvCorrect == Spec => [](TypeOK /\ SessionInv)
<1>1. TypeOK /\ SessionInv /\ [Next]_vars => (TypeOK /\ SessionInv)'
  BY TypeStep, InvStep
<1>2. QED
  BY <1>1, TypeInit, InvInit, PTL DEF Spec

\* The five tables agree, whatever calls overtake a close (SessionInv).
THEOREM SessionsSafe == Spec => []SessionInv
BY InvCorrect, PTL

\* A closed connection keeps no SSH session, unless a login had it out of the map
\* when connection_close came by.
THEOREM ClosedIsReleased == Spec => []RuntimeReleased
<1>1. TypeOK /\ SessionInv => RuntimeReleased
  BY DEF SessionInv
<1>2. QED
  BY <1>1, InvCorrect, PTL

\* No terminal is shown as attached without a reader that will report its end.
THEOREM NoFrozenTerminal == Spec => []AttachedIsRead
<1>1. TypeOK /\ SessionInv => AttachedIsRead
  BY DEF SessionInv
<1>2. QED
  BY <1>1, InvCorrect, PTL

\* The PTY table holds no entry its reader has given up, unless a login overtook it.
THEOREM NoDeadPty == Spec => []PtyHasReader
<1>1. TypeOK /\ SessionInv => PtyHasReader
  BY DEF SessionInv
<1>2. QED
  BY <1>1, InvCorrect, PTL

\* A removed connection whose session is nowhere stays so under every step.
LEMMA GoneStep ==
    ASSUME TypeOK, SessionInv, [Next]_vars, NEW c \in Conns, registry[c] = "removed"
    PROVE  /\ registry'[c] = "removed"
           /\ c \notin mapped /\ ~Held(c) => c \notin mapped' /\ ~Held(c)'
<1> USE DEF Advance, tablesVars, sessionVars, ptyVars, callsVars, TypeOK, Held
<1> DEFINE Goal == /\ registry'[c] = "removed"
                   /\ c \notin mapped /\ ~Held(c) => c \notin mapped' /\ ~Held(c)'
<1>1. ASSUME NEW l \in Logins, LoginStep(l) PROVE Goal
  BY <1>1, ConnOfAssumption
     DEF LoginStep, LoginTakes, LoginPuts, LoginMarks, Registered
<1>2. ASSUME NEW t \in Terms, AttachStep(t) PROVE Goal
  BY <1>2 DEF AttachStep, AttachChecks, AttachRegisters, AttachTakesHandle, AttachInserts,
              AttachIsRefused, AttachFails, AttachMarks, AttachReturns
<1>3. ASSUME NEW t \in Terms, PtyStep(t) \/ DropStep(t) PROVE Goal
  BY <1>3 DEF PtyStep, RemoteCloses, ReaderNotices, ReaderCleans, WriteFails, DropStep,
              TerminalLooksUp, TerminalClosesPty, TerminalDrops
<1>4. ASSUME NEW f \in Files, FileStep(f) PROVE Goal
  BY <1>4 DEF FileStep, FileChecks, FileTakesHandle, FileChannelOpens, FileIsRefused,
              FileRegisters, FileMarks, FileCloses
<1>5. ASSUME NEW d \in Conns, OpenStep(d) \/ CloseStep(d) \/ TransportLost(d) PROVE Goal
  BY <1>5 DEF OpenStep, OpenPending, OpenConnected, OpenFails, CloseStep, CloseTerminals,
              ClosePtys, CloseFiles, CloseSsh, CloseDisconnects, CloseRegistry, TransportLost
<1>6. CASE UNCHANGED vars
  BY <1>6 DEF vars
<1>7. QED
  BY <1>1, <1>2, <1>3, <1>4, <1>5, <1>6 DEF Next

\* A connection that is gone stays gone: no call that was under way brings it back.
THEOREM GoneForGood == Spec => GoneStaysGone
<1>1. TypeOK /\ SessionInv /\ [Next]_vars =>
        [\A c \in Conns :
            registry[c] = "removed" =>
                /\ registry'[c] = "removed"
                /\ c \notin mapped /\ ~Held(c) => c \notin mapped' /\ ~Held(c)']_vars
  BY GoneStep
<1>2. QED
  BY <1>1, InvCorrect, PTL DEF GoneStaysGone, Spec
=============================================================================
