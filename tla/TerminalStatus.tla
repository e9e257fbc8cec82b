----------------------------- MODULE TerminalStatus -----------------------------
(***************************************************************************)
(* The strip above a terminal that tells the load of its host              *)
(* (SshTerminalWorkspace: useSshHostOverview, useWslHostOverview): asked   *)
(* for again and again while the strip is shown, for the connection that   *)
(* the tab has now.  How long a wait is does not matter here: only that    *)
(* its timer comes.                                                        *)
(***************************************************************************)
EXTENDS Naturals, FiniteSets

CONSTANTS MaxStatusChanges, \* times the strip is shown, hidden or connected anew
          MaxStatusAnswers  \* answers that tell the counters of the network

ASSUME TerminalStatusAssumption == MaxStatusChanges \in Nat /\ MaxStatusAnswers \in Nat

VARIABLES
    statusKind,    \* sessionKind: "ssh" or "wsl"
    statusOf,      \* connectionId: a number that grows
    statusShown,   \* enabled
    mounted,       \* mountedRef
    pollers,       \* polls that were begun; the last one is not disposed
    timers,        \* the polls that have a timer, or an interval
    asking,        \* the request in flight (refreshingRef): of whom, for which poll
    sample,        \* previousNetworkSampleRef: the counters, 0 for none
    counters,      \* the counters of the host: lower after a restart
    rate,          \* the rate that is shown: "none" or "some"
    state,         \* what is shown: "nothing", "data" or "error"
    statusChanges, \* changes so far
    statusAnswers  \* answers so far

statusVars == <<statusKind, statusOf, statusShown, mounted, pollers, timers, asking, sample,
                counters, rate, state, statusChanges, statusAnswers>>

NotAsking == [of |-> 0, poll |-> 0]

StatusInit ==
    /\ statusKind \in {"ssh", "wsl"} /\ statusOf = 1 /\ statusShown = FALSE /\ mounted = TRUE
    /\ pollers = 0 /\ timers = {} /\ asking = NotAsking /\ sample = 0 /\ counters = 1
    /\ rate = "none" /\ state = "nothing" /\ statusChanges = 0 /\ statusAnswers = 0

-----------------------------------------------------------------------------
(* Faulty variants of what follows, for the properties to tell apart.       *)

\* A poll goes on though the strip is hidden, or of another connection, by now.
GoesOnAlways(p) == {p}

-----------------------------------------------------------------------------
(* Polls.                                                                   *)

\* poll, after a refresh that asked nothing: its timer is set all the same.
GoesOnUnasked(p) == {p}

\* poll, after its answer: unless it was disposed meanwhile.
GoesOn(p) == {q \in {p} : p = pollers /\ statusShown /\ mounted}

\* refresh, up to its await.  The interval of a distribution stays by itself.
Refresh(p, of) ==
    IF asking = NotAsking
    THEN /\ asking' = [of |-> of, poll |-> p] /\ state' = IF state = "error" THEN "nothing" ELSE state
         /\ timers' = IF statusKind = "wsl" THEN {p} ELSE {}
    ELSE /\ timers' = IF statusKind = "wsl" THEN {p} ELSE GoesOnUnasked(p)
         /\ UNCHANGED <<asking, state>>

\* The strip is shown or hidden, or the tab has another connection: the old poll
\* is disposed, the sample forgotten, and a new poll begun.
TabStatusChange ==
    /\ mounted /\ statusChanges < MaxStatusChanges /\ statusChanges' = statusChanges + 1
    /\ \/ statusShown' = ~statusShown /\ UNCHANGED statusOf
       \/ statusKind = "ssh" /\ statusOf' = statusOf + 1 /\ UNCHANGED statusShown
    /\ sample' = 0
    /\ IF statusShown' THEN pollers' = pollers + 1 /\ Refresh(pollers', statusOf')
       ELSE timers' = {} /\ UNCHANGED <<pollers, asking, state>>
    /\ UNCHANGED <<statusKind, mounted, counters, rate, statusAnswers>>

TimerFires(p) ==
    /\ p \in timers /\ Refresh(p, statusOf)
    /\ UNCHANGED <<statusKind, statusOf, statusShown, mounted, pollers, sample, counters, rate,
                   statusChanges, statusAnswers>>

\* The request ends; the poll that awaits it goes on.
Ends ==
    /\ asking # NotAsking /\ asking' = NotAsking
    /\ timers' = IF statusKind = "wsl" THEN timers ELSE timers \cup GoesOn(asking.poll)

\* It is answered, with or without the counters of the network.  A rate needs two
\* samples, the second not below the first.
StatusComes ==
    /\ Ends
    /\ \/ /\ statusAnswers < MaxStatusAnswers /\ statusAnswers' = statusAnswers + 1
          /\ counters' \in {1, counters + 1} /\ sample' = counters'
          /\ rate' = IF ~mounted THEN rate
                     ELSE IF sample # 0 /\ counters' >= sample THEN "some" ELSE "none"
       \/ /\ rate' = IF mounted THEN "none" ELSE rate
          /\ UNCHANGED <<counters, sample, statusAnswers>>
    /\ state' = IF mounted THEN "data" ELSE state
    /\ UNCHANGED <<statusKind, statusOf, statusShown, mounted, pollers, statusChanges>>

StatusFails ==
    /\ Ends /\ state' = IF mounted THEN "error" ELSE state
    /\ UNCHANGED <<statusKind, statusOf, statusShown, mounted, pollers, sample, counters, rate,
                   statusChanges, statusAnswers>>

\* The tab is closed.
StatusUnmounts ==
    /\ mounted /\ mounted' = FALSE /\ timers' = {}
    /\ UNCHANGED <<statusKind, statusOf, statusShown, pollers, asking, sample, counters, rate,
                   state, statusChanges, statusAnswers>>

-----------------------------------------------------------------------------
StatusNext ==
    \/ TabStatusChange \/ StatusComes \/ StatusFails \/ StatusUnmounts
    \/ \E p \in timers : TimerFires(p)

StatusSpec == StatusInit /\ [][StatusNext]_statusVars

\* While the strip is shown, one poll goes on, for the connection of now: it waits
\* for its timer or for an answer, also when the strip was hidden and shown again
\* or connected anew during a request; and what is not shown is not asked for.
OnePoll ==
    /\ timers \subseteq {p \in {pollers} : statusShown /\ mounted}
    /\ statusShown /\ mounted => timers # {} \/ asking.poll = pollers
=============================================================================
