----------------------------- MODULE TerminalSize -----------------------------
(***************************************************************************)
(* How the size of a terminal pane reaches the pseudo terminal behind it:  *)
(* reportSize of TerminalPane and all that calls it, the queue of resize   *)
(* requests, and their retries.                                            *)
(***************************************************************************)
EXTENDS Naturals, Sequences

CONSTANTS Boxes,        \* sizes the pane can have
          Nudge,        \* one row less, sent to make a program repaint
          MaxAttempts,  \* terminalResizeRetryMaximumAttempts
          MaxEvents     \* layout changes, tab switches and repaints asked for

None == "none"

ASSUME SizeAssumption ==
    /\ Nudge \notin Boxes /\ None \notin Boxes
    /\ {MaxAttempts, MaxEvents} \subseteq Nat

Causes == {"layout", "switch", "alternate", "repaint", "retry"}

VARIABLES
    box,        \* the size of the pane's host
    visible,    \* isActive or reportSizeWhenVisible
    due,        \* timers and frames that will call reportSize
    requested,  \* lastRequestedSizeRef
    reported,   \* lastReportedSizeRef
    revision,   \* resizeRequestRevisionRef
    queue,      \* resizeQueueRef: the sizes still to send
    attempts,   \* resizeRetryAttemptRef
    recover,    \* truncatedHistoryRecoveryPendingRef
    pty,        \* the size the pseudo terminal has
    events,     \* events so far
    skipped     \* history: the pane took its size for reported while another was on its way

sizeVars == <<box, visible, due, requested, reported, revision, queue, attempts, recover,
              pty, events, skipped>>

SizeInit ==
    /\ box \in Boxes
    /\ visible = TRUE
    /\ due = {"layout"}
    /\ requested = None /\ reported = None
    /\ revision = 0
    /\ queue = <<>>
    /\ attempts = 0
    /\ recover = FALSE
    /\ pty \in Boxes
    /\ events = 0
    /\ skipped = FALSE

Happens == events < MaxEvents /\ events' = events + 1

-----------------------------------------------------------------------------
(* Faulty variants of what follows, for the properties to tell apart.      *)

\* A failed request leaves its size as the one requested.
FailureKeepsSize == UNCHANGED <<requested, reported>>

-----------------------------------------------------------------------------
\* What calls reportSize later: the resize observer, the effect of a tab that becomes
\* active, a program that enters the alternate screen, output dropped there.

Resizes(b) ==
    /\ Happens
    /\ b # box
    /\ box' = b
    /\ due' = due \cup {"layout"}
    /\ UNCHANGED <<visible, requested, reported, revision, queue, attempts, recover, pty, skipped>>

Switches ==
    /\ Happens
    /\ visible' = ~visible
    /\ due' = IF visible' THEN due \cup {"switch"} ELSE due
    /\ UNCHANGED <<box, requested, reported, revision, queue, attempts, recover, pty, skipped>>

EntersAlternate ==
    /\ Happens
    /\ due' = due \cup {"alternate"}
    /\ UNCHANGED <<box, visible, requested, reported, revision, queue, attempts, recover, pty, skipped>>

Overloaded ==
    /\ Happens
    /\ recover' = TRUE
    /\ due' = due \cup {"repaint"}
    /\ UNCHANGED <<box, visible, requested, reported, revision, queue, attempts, pty, skipped>>

-----------------------------------------------------------------------------
(* reportSize.                                                             *)

Forced(cause) == cause \in {"alternate", "repaint", "retry"} \/ (cause = "switch" /\ recover)
Redraw(cause) == cause = "repaint" \/ recover
Known == box \in {requested, reported}

\* The pane of a hidden tab keeps the size it has.
StaysHidden(cause) ==
    /\ cause \in due /\ ~visible
    /\ due' = due \ {cause}
    /\ UNCHANGED <<box, visible, requested, reported, revision, queue, attempts, recover, pty,
                   events, skipped>>

SizeKnown(cause) ==
    /\ cause \in due /\ visible
    /\ ~Forced(cause) /\ ~Redraw(cause) /\ Known
    /\ due' = due \ {cause}
    /\ skipped' = (skipped \/ requested # box)
    /\ UNCHANGED <<box, visible, requested, reported, revision, queue, attempts, recover, pty, events>>

\* The requests of a pane are sent one after the other.
ResizeRequest(cause) ==
    LET entry == [size |-> box, rev |-> revision + 1, redraw |-> Redraw(cause), last |-> TRUE]
        nudge == [entry EXCEPT !.size = Nudge, !.last = FALSE]
    IN
    /\ cause \in due /\ visible
    /\ Forced(cause) \/ Redraw(cause) \/ ~Known
    /\ due' = due \ {cause, "retry"}
    /\ queue' = queue \o (IF Redraw(cause) THEN <<nudge, entry>> ELSE <<entry>>)
    /\ revision' = revision + 1
    /\ requested' = box
    /\ skipped' = FALSE
    /\ UNCHANGED <<box, visible, reported, attempts, recover, pty, events>>

-----------------------------------------------------------------------------
(* The answers of the backend: resizeActiveTerminal.                       *)

Superseded(entry) == entry.rev # revision

\* The first of two sizes was taken, or an answer nobody waits for came.
Sent ==
    LET entry == Head(queue) IN
    /\ queue # <<>>
    /\ ~entry.last \/ Superseded(entry)
    /\ queue' = Tail(queue)
    /\ pty' = entry.size
    /\ UNCHANGED <<box, visible, due, requested, reported, revision, attempts, recover, events, skipped>>

Acknowledged ==
    LET entry == Head(queue) IN
    /\ queue # <<>>
    /\ entry.last /\ ~Superseded(entry)
    /\ queue' = Tail(queue)
    /\ pty' = entry.size
    /\ requested' = entry.size /\ reported' = entry.size
    /\ attempts' = 0
    /\ recover' = (recover /\ ~entry.redraw)
    /\ UNCHANGED <<box, visible, due, revision, events, skipped>>

\* A request that fails at its first size is over, with both its sizes.
WithoutRequest == IF Head(queue).last THEN Tail(queue) ELSE Tail(Tail(queue))

FailsUnheard ==
    /\ queue # <<>>
    /\ Superseded(Head(queue))
    /\ queue' = WithoutRequest
    /\ UNCHANGED <<box, visible, due, requested, reported, revision, attempts, recover, pty,
                   events, skipped>>

ForgetSizes == requested' = None /\ reported' = None

RequestFails ==
    /\ queue # <<>>
    /\ ~Superseded(Head(queue))
    /\ queue' = WithoutRequest
    /\ ForgetSizes
    /\ IF attempts < MaxAttempts
       THEN attempts' = attempts + 1 /\ due' = due \cup {"retry"}
       ELSE UNCHANGED <<attempts, due>>
    /\ UNCHANGED <<box, visible, revision, recover, pty, events, skipped>>

SizeNext ==
    \/ \E b \in Boxes : Resizes(b)
    \/ Switches \/ EntersAlternate \/ Overloaded
    \/ \E cause \in Causes : StaysHidden(cause) \/ SizeKnown(cause) \/ ResizeRequest(cause)
    \/ Sent \/ Acknowledged \/ FailsUnheard \/ RequestFails

SizeSpec == SizeInit /\ [][SizeNext]_sizeVars

-----------------------------------------------------------------------------
(* What must hold.                                                         *)

\* Nothing is about to happen, and the retries are not used up.
Settled == due = {} /\ queue = <<>> /\ visible /\ attempts < MaxAttempts

\* Whatever fails, is retried, or is overtaken by another layout: in the end the pseudo
\* terminal has the size of the pane, unless the pane's size was reported before and a
\* request for another one was still on its way.
SizeSettles == Settled => pty = box \/ skipped

\* A repaint that is owed to a program is asked for in the end: when the tab is shown
\* again if it was hidden, with the next request if one failed.
RepaintSettles == Settled => ~recover

\* Size and screen are right when everything has come to rest.
SizeSound == SizeSettles /\ RepaintSettles
=============================================================================
