---------------------------- MODULE TerminalOutput ----------------------------
(***************************************************************************)
(* The way of a terminal's output to the screen: events of the backend,    *)
(* gathered per frame by usePortivaWorkspace, merged into the snapshot of  *)
(* the tab, turned by TerminalPane into writes to xterm, which parses them *)
(* later and answers the queries it finds in them.                         *)
(*                                                                         *)
(* A character is the number of its place in the stream.  Both stages keep *)
(* a bounded tail of what waits and count what they drop; what is dropped  *)
(* is a set of characters here, of which the code keeps the size.          *)
(***************************************************************************)
EXTENDS Naturals, Sequences, SequencesExt, FiniteSets

CONSTANTS MaxOut,       \* characters the backend ever sends
          Keep,         \* terminalPreviewMaxChars
          Room,         \* maximumPendingTerminalOutputCharacters
          MaxTurns      \* renders without output: mounts, clears, status changes

ASSUME OutputAssumption == {MaxOut, Keep, Room, MaxTurns} \subseteq Nat /\ Room > 0

VARIABLES
    stream,     \* the backend: [n: characters sent, up: BOOLEAN]
    held,       \* pendingTerminalSnapshots of the terminal, or NothingHeld
    heldDue,    \* what flushes it: a frame, a timer or nothing
    snap,       \* the terminal and terminalSnapshot of its tab, once there is one
    shot,       \* the answer to terminal_snapshot on its way
    fresh,      \* the tab changed since it was rendered
    pane,       \* the refs of TerminalPane
    writes,     \* what xterm has still to parse
    screen,     \* what it shows, since it was last reset
    hidden,     \* document.visibilityState
    turns,      \* renders without output so far
    told,       \* history: characters the pane reported as dropped
    gone,       \* history: characters cleared, trimmed or merged away unseen
    again,      \* history: a chunk was taken that the preview or the screen had already, or
                \* the screen was reset under what xterm was parsing
    replies     \* history: the queries answered, one per character

outputVars == <<stream, held, heldDue, snap, shot, fresh, pane, writes, screen, hidden, turns,
                told, gone, again, replies>>

Newest(s, n) == SubSeq(s, IF Len(s) > n THEN Len(s) - n + 1 ELSE 1, Len(s))

\* appendBoundedTerminalOutput.
Bounded(current, incoming) == Newest(current \o incoming, Room)
Overflow(current, incoming) == ToSet(current \o incoming) \ ToSet(Bounded(current, incoming))

NothingHeld == [chunk |-> <<>>, full |-> <<>>, drop |-> {}, status |-> "none"]
NoShot == [on |-> FALSE, text |-> <<>>]
Unmounted == [ready |-> FALSE, prev |-> <<>>, pending |-> <<>>, drop |-> {},
              busy |-> FALSE, due |-> "none", replaying |-> FALSE]

Soon == IF hidden THEN "timer" ELSE "frame"
Comes(due) == due = "timer" \/ (due = "frame" /\ ~hidden)

\* schedulePendingOutputFlush.
Scheduled(p) == [p EXCEPT !.due = IF p.busy \/ @ # "none" THEN @ ELSE Soon]

OutputInit ==
    /\ stream = [n |-> 0, up |-> TRUE]
    /\ held = NothingHeld
    /\ heldDue = "none"
    /\ shot = NoShot
    /\ snap = [shown |-> FALSE, buf |-> <<>>, chunk |-> <<>>, drop |-> {}, status |-> "attached"]
    /\ fresh = FALSE
    /\ pane = Unmounted
    /\ writes = <<>>
    /\ screen = <<>>
    /\ hidden = FALSE
    /\ turns = 0
    /\ told = {}
    /\ gone = {}
    /\ again = FALSE
    /\ replies = <<>>

Turn == turns < MaxTurns /\ turns' = turns + 1

-----------------------------------------------------------------------------
(* Faulty variants of what follows, for the properties to tell apart.      *)

\* An event with the whole buffer is taken for new output.
MergeHeldWhole(chunk, full, status) ==
    [chunk |-> Bounded(held.chunk, IF full = <<>> THEN chunk ELSE full),
     full |-> full,
     drop |-> held.drop \cup Overflow(held.chunk, chunk),
     status |-> status]

-----------------------------------------------------------------------------
(* The backend, and the listener of terminal snapshots.                    *)

\* mergePendingSnapshot.
MergeHeld(chunk, full, status) ==
    [chunk |-> Bounded(held.chunk, chunk),
     full |-> IF full # <<>> THEN full
              ELSE IF held.full # <<>> THEN Newest(held.full \o chunk, Keep) ELSE <<>>,
     drop |-> held.drop \cup Overflow(held.chunk, chunk),
     status |-> status]

Hear(chunk, full, status) ==
    /\ held' = MergeHeld(chunk, full, status)
    /\ heldDue' = IF heldDue = "none" THEN Soon ELSE heldDue

Emit ==
    /\ stream.up /\ stream.n < MaxOut
    /\ stream' = [stream EXCEPT !.n = @ + 1]
    /\ Hear(<<stream.n + 1>>, <<>>, "attached")
    /\ UNCHANGED <<snap, shot, fresh, pane, writes, screen, hidden, turns, told, gone, again, replies>>

\* The notice of a disconnect comes with the whole buffer.
Disconnect ==
    /\ stream.up /\ stream.n < MaxOut
    /\ stream' = [n |-> stream.n + 1, up |-> FALSE]
    /\ Hear(<<stream.n + 1>>, Newest([i \in 1..(stream.n + 1) |-> i], Keep), "closed")
    /\ UNCHANGED <<snap, shot, fresh, pane, writes, screen, hidden, turns, told, gone, again, replies>>

\* mergeTerminalSnapshot, for the tab that shows the terminal.
MergeSnapshot ==
    [shown |-> TRUE,
     buf |-> Newest(IF held.full # <<>> THEN held.full ELSE snap.buf \o held.chunk, Keep),
     chunk |-> held.chunk, drop |-> held.drop, status |-> held.status]

\* A tab changed twice before it is rendered has lost the chunk of the first change.
Unrendered == IF fresh /\ pane.ready THEN ToSet(snap.chunk) \cup snap.drop ELSE {}

\* flushPendingSnapshots.  What comes before the terminal has a tab is forgotten.
FlushSnapshots ==
    /\ Comes(heldDue)
    /\ held # NothingHeld
    /\ held' = NothingHeld
    /\ heldDue' = "none"
    /\ IF snap.shown
       THEN /\ snap' = MergeSnapshot
            /\ fresh' = TRUE
            /\ gone' = gone \cup Unrendered
       ELSE /\ gone' = gone \cup ToSet(held.chunk) \cup held.drop
            /\ UNCHANGED <<snap, fresh>>
    /\ UNCHANGED <<stream, shot, pane, writes, screen, hidden, turns, told, again, replies>>

\* A frame never comes in a hidden window: both stages fall back on a timer.
VisibilityChange ==
    /\ Turn
    /\ hidden' = ~hidden
    /\ heldDue' = IF ~hidden /\ heldDue = "frame" THEN "timer" ELSE heldDue
    /\ pane' = IF ~hidden /\ pane.due = "frame"
               THEN [pane EXCEPT !.due = IF pane.pending = <<>> THEN "none" ELSE "timer"]
               ELSE pane
    /\ UNCHANGED <<stream, held, snap, shot, fresh, writes, screen, told, gone, again, replies>>

\* openSerialTerminal and resizeActiveTerminal give the terminal the status they
\* knew or expect, and leave its snapshot as it is.
StatusChange ==
    /\ Turn
    /\ snap.status = "closed"
    /\ snap' = [snap EXCEPT !.status = "attached"]
    /\ stream' \in {stream, [stream EXCEPT !.up = TRUE]}
    /\ fresh' = TRUE
    /\ UNCHANGED <<held, heldDue, shot, pane, writes, screen, hidden, told, gone, again, replies>>

\* terminal_snapshot is answered with the whole buffer: for attachTerminalWithSnapshot,
\* or for refreshTerminalSnapshot, which the SFTP panel calls.
ReadSnapshot ==
    /\ Turn
    /\ shot = NoShot
    /\ shot' = [on |-> TRUE, text |-> Newest([i \in 1..stream.n |-> i], Keep)]
    /\ UNCHANGED <<stream, held, heldDue, snap, fresh, pane, writes, screen, hidden,
                   told, gone, again, replies>>

\* The answer becomes the snapshot of the tab, whatever was heard since it was read, and
\* what is held is appended to it, whether it has it already or not.
TakeSnapshot ==
    /\ shot.on
    /\ snap' = [snap EXCEPT !.shown = TRUE, !.buf = shot.text, !.chunk = <<>>, !.drop = {}]
    /\ shot' = NoShot
    /\ fresh' = TRUE
    /\ gone' = gone \cup (ToSet(snap.buf) \ ToSet(shot.text)) \cup Unrendered
    /\ again' = (again \/ ToSet(shot.text) \cap ToSet(held.chunk) # {})
    /\ UNCHANGED <<stream, held, heldDue, pane, writes, screen, hidden, turns, told, replies>>

-----------------------------------------------------------------------------
(* The snapshot effect of TerminalPane, once per render of a changed tab.  *)

\* replaySnapshot.
Replay(text) ==
    /\ pane' = [pane EXCEPT !.ready = TRUE, !.prev = text, !.replaying = TRUE]
    /\ writes' = Append(writes, [live |-> FALSE, text |-> text])

\* The first render shows the preview.
RenderFirst ==
    /\ fresh /\ ~pane.ready
    /\ Replay(snap.buf)
    /\ fresh' = FALSE
    /\ gone' = gone \cup ((1..stream.n) \ (ToSet(snap.buf) \cup ToSet(held.chunk) \cup held.drop))
    /\ UNCHANGED <<stream, held, heldDue, snap, shot, screen, hidden, turns, told, again, replies>>

\* The preview grew by the chunk, whatever it lost at its head, or ends with it.
HasNewChunk ==
    /\ snap.chunk # <<>>
    /\ \/ IsSuffix(snap.buf, pane.prev \o snap.chunk)
       \/ IsSuffix(snap.chunk, snap.buf)

Queued(chunk) ==
    Scheduled([pane EXCEPT !.prev = snap.buf,
                           !.pending = Bounded(@, chunk),
                           !.drop = @ \cup snap.drop \cup Overflow(pane.pending, chunk)])

\* enqueueOutput.  A chunk whose characters were taken before is taken again when
\* nothing but the status of the terminal changed.
RenderChunk ==
    /\ fresh /\ pane.ready
    /\ HasNewChunk
    /\ pane' = Queued(snap.chunk)
    /\ fresh' = FALSE
    /\ again' = (again \/ pane.prev = snap.buf)
    /\ UNCHANGED <<stream, held, heldDue, snap, shot, writes, screen, hidden, turns, told, gone, replies>>

\* A snapshot without new output leaves the screen of an attached terminal alone.  A
\* CAN, written as 0, ends what a dropped character may have left open.
RenderQuiet ==
    /\ fresh /\ pane.ready
    /\ ~HasNewChunk
    /\ snap.status = "attached" \/ snap.buf = pane.prev
    /\ pane' = IF snap.drop = {} THEN [pane EXCEPT !.prev = snap.buf]
               ELSE [Queued(<<0>>) EXCEPT !.prev = snap.buf]
    /\ fresh' = FALSE
    /\ UNCHANGED <<stream, held, heldDue, snap, shot, writes, screen, hidden, turns, told, gone, again, replies>>

\* The preview of a closed terminal became another one: it is shown anew, after what
\* xterm has still to parse.
RenderReset ==
    /\ fresh /\ pane.ready
    /\ ~HasNewChunk
    /\ snap.status = "closed" /\ snap.buf # pane.prev
    /\ pane' = [pane EXCEPT !.pending = <<>>, !.due = "none", !.prev = snap.buf,
                            !.drop = @ \cup snap.drop, !.replaying = TRUE]
    /\ writes' = Append(writes, [live |-> FALSE, text |-> snap.buf])
    /\ screen' = <<>>
    /\ fresh' = FALSE
    /\ gone' = gone \cup ToSet(pane.pending) \cup ToSet(screen)
    /\ again' = (again \/ writes # <<>>)
    /\ UNCHANGED <<stream, held, heldDue, snap, shot, hidden, turns, told, replies>>

\* clearRevision changed: the screen is emptied, and what waits for it goes too.
Clear ==
    /\ Turn
    /\ pane.ready /\ ~fresh
    /\ pane' = [pane EXCEPT !.pending = <<>>, !.due = "none", !.prev = snap.buf]
    /\ screen' = <<>>
    /\ gone' = gone \cup ToSet(pane.pending) \cup ToSet(screen)
    /\ UNCHANGED <<stream, held, heldDue, snap, shot, fresh, writes, hidden, told, again, replies>>

\* The pane is mounted anew, in this or another window: a new xterm.
Remount ==
    /\ Turn
    /\ pane.ready
    /\ pane' = Unmounted
    /\ writes' = <<>>
    /\ screen' = <<>>
    /\ fresh' = TRUE
    /\ UNCHANGED <<stream, held, heldDue, snap, shot, hidden, told, gone, again, replies>>

-----------------------------------------------------------------------------
(* flushPendingOutput, and xterm, which parses what is written to it.      *)

FlushOutput ==
    /\ Comes(pane.due)
    /\ ~pane.busy /\ pane.pending # <<>>
    /\ writes' = Append(writes, [live |-> TRUE, text |-> pane.pending])
    /\ told' = told \cup pane.drop
    /\ pane' = [pane EXCEPT !.pending = <<>>, !.drop = {}, !.busy = TRUE, !.due = "none"]
    /\ UNCHANGED <<stream, held, heldDue, snap, shot, fresh, screen, hidden, turns, gone, again, replies>>

WriteEnd(p) ==
    IF p.pending = <<>> THEN [p EXCEPT !.busy = FALSE]
                        ELSE Scheduled([p EXCEPT !.busy = FALSE])

\* What onData passes on to the terminal of what xterm answers.
Answers(text) ==
    IF pane.replaying \/ snap.status = "closed" THEN <<>> ELSE text

Parse ==
    LET w == Head(writes) IN
    /\ writes # <<>>
    /\ writes' = Tail(writes)
    /\ screen' = screen \o w.text
    /\ replies' = replies \o Answers(w.text)
    /\ pane' = IF w.live THEN WriteEnd(pane)
               ELSE [pane EXCEPT !.replaying = (\E i \in 2..Len(writes) : ~writes[i].live)]
    /\ UNCHANGED <<stream, held, heldDue, snap, shot, fresh, hidden, turns, told, gone, again>>

OutputNext ==
    \/ Emit \/ Disconnect \/ FlushSnapshots \/ VisibilityChange \/ StatusChange \/ ReadSnapshot \/ TakeSnapshot
    \/ RenderFirst \/ RenderChunk \/ RenderQuiet \/ RenderReset \/ Clear \/ Remount
    \/ FlushOutput \/ Parse

OutputSpec == OutputInit /\ [][OutputNext]_outputVars

-----------------------------------------------------------------------------
(* What must hold.                                                         *)

Increasing(s) == \A i \in 1..(Len(s) - 1) : s[i] < s[i + 1]

\* The screen shows every character once and in the order they were sent, whatever was
\* batched, trimmed, replayed or remounted, unless a chunk was taken
\* twice or a reset came between.
ShownInOrder == again \/ Increasing(screen)

\* No query in the output is answered twice, by a replay of history least of all.
AnsweredOnce == again \/ Increasing(replies)

AtRest == held = NothingHeld /\ snap.shown /\ ~fresh /\ pane.pending = <<>> /\ writes = <<>>

\* When everything has arrived, the characters missing on the screen are those the pane
\* reports as dropped, or were cleared, trimmed or merged away.
MissingIsTold == AtRest => (1..stream.n) \subseteq ToSet(screen) \cup told \cup pane.drop \cup gone

\* What waits is going to be flushed: by the end of the write under way, by a timer, or
\* by a frame of a visible window.
WaitingIsScheduled ==
    /\ held # NothingHeld => Comes(heldDue)
    /\ pane.pending # <<>> => pane.busy \/ Comes(pane.due)

\* The output of a terminal comes to the screen as it was: in order, with a word where
\* some is missing, each question of the program answered once, and nothing left behind.
OutputSound == ShownInOrder /\ AnsweredOnce /\ MissingIsTold /\ WaitingIsScheduled
=============================================================================
