------------------------------ MODULE SerialLog ------------------------------
(***************************************************************************)
(* The exchange log of a serial panel (SerialTerminalPanel): what is sent  *)
(* and what arrives, each with its time, in a list of which the part in    *)
(* sight is rendered.  The backend stamps what it reads, the panel what it *)
(* has sent, so that the times need not come in order.                     *)
(***************************************************************************)
EXTENDS Integers, Sequences, FiniteSets, FiniteSetsExt

CONSTANTS MaxTime,     \* the clock
          MaxLog,      \* entries of the log
          Estimate,    \* estimatedTrafficRowHeight
          Heights,     \* the heights a row may turn out to have
          Overscan,    \* trafficVirtualOverscanPx
          Viewport     \* the height of the list

ASSUME LogAssumption ==
    /\ MaxTime \in Nat /\ MaxLog \in Nat /\ Overscan \in Nat /\ Viewport \in Nat
    /\ Heights \subseteq Nat \ {0} /\ Estimate \in Nat \ {0}

VARIABLES
    clock,      \* currentTimestampUs, and the backend's
    rx,         \* events of the backend under way, oldest first: their times
    log,        \* exchangeLog: the time of each entry and whether it was sent
    lastTime,   \* lastTimestampUsRef
    paused,     \* outputPaused
    heights,    \* trafficRowHeightsRef: of the rows rendered so far, else 0
    scrollTop   \* trafficScrollTop

logVars == <<clock, rx, log, lastTime, paused, heights, scrollTop>>

LogInit ==
    /\ clock = 1 /\ rx = <<>> /\ log = <<>> /\ lastTime = 0 /\ paused = FALSE
    /\ heights = [n \in 1 .. MaxLog |-> 0] /\ scrollTop = 0

-----------------------------------------------------------------------------
(* Faulty variants of what follows, for the properties to tell apart.       *)

StampAsGiven(time) == time

-----------------------------------------------------------------------------
(* The log.                                                                 *)

\* appendExchangeEntry: never before the last entry.
Stamp(time) == Max({time, lastTime + 1})

AppendEntry(time, sent) ==
    /\ Len(log) < MaxLog /\ Stamp(time) <= MaxTime + 1
    /\ log' = Append(log, [time |-> Stamp(time), sent |-> sent])
    /\ lastTime' = Stamp(time)

Tick ==
    /\ clock < MaxTime /\ clock' = clock + 1
    /\ UNCHANGED <<rx, log, lastTime, paused, heights, scrollTop>>

\* serial-rx leaves the backend.
Receive ==
    /\ Len(rx) < 2
    /\ rx' = Append(rx, clock)
    /\ UNCHANGED <<clock, log, lastTime, paused, heights, scrollTop>>

\* The listener: events are not shown while the output is paused.  An event
\* is also lost between two subscriptions, which follow each other whenever the
\* output is paused or goes on.
RxArrives ==
    /\ rx # <<>> /\ rx' = Tail(rx)
    /\ \/ ~paused /\ AppendEntry(Head(rx), FALSE)
       \/ UNCHANGED <<log, lastTime>>
    /\ UNCHANGED <<clock, paused, heights, scrollTop>>

\* sendDraft, when what it sent is written.
TxLogged ==
    /\ AppendEntry(clock, TRUE)
    /\ UNCHANGED <<clock, rx, paused, heights, scrollTop>>

Pause == paused' = ~paused /\ UNCHANGED <<clock, rx, log, lastTime, heights, scrollTop>>

\* clearExchangeLog; the same for another terminal.  The last time stays.
ClearLog ==
    /\ log' = <<>> /\ scrollTop' = 0
    /\ heights' = [n \in 1 .. MaxLog |-> 0]
    /\ UNCHANGED <<clock, rx, lastTime, paused>>

-----------------------------------------------------------------------------
(* The part that is rendered.                                               *)

HeightOf(n) == IF heights[n] = 0 THEN Estimate ELSE heights[n]

\* trafficVirtualMetrics: totalHeight after the first n rows, and where each begins.
TotalHeight[n \in 0 .. MaxLog] == IF n = 0 THEN 0 ELSE TotalHeight[n - 1] + HeightOf(n)
Top(n) == TotalHeight[n - 1]
Offsets == [n \in DOMAIN log |-> Top(n)]

\* findTrafficVirtualIndex, a binary search for the last row that begins at or
\* above the target; the rows of the code count from 0.
RowAt(offsets, target) ==
    IF offsets = <<>> \/ target <= 0 THEN 0
    ELSE Max({1} \cup {n \in DOMAIN offsets : offsets[n] <= target}) - 1

\* trafficVisibleRange: from start to before end.
VisibleStart == RowAt(Offsets, Max({0, scrollTop - Overscan}))
VisibleEnd == Min({Len(log), RowAt(Offsets, scrollTop + Viewport + Overscan) + 2})
Rendered == {n \in DOMAIN log : VisibleStart < n /\ n <= VisibleEnd}

\* handleTrafficScroll
Scroll ==
    /\ \E y \in 0 .. Top(Len(log) + 1) : scrollTop' = y
    /\ UNCHANGED <<clock, rx, log, lastTime, paused, heights>>

\* registerTrafficRow measures a row that is rendered.
Measure ==
    /\ \E n \in Rendered, h \in Heights : heights' = [heights EXCEPT ![n] = h]
    /\ UNCHANGED <<clock, rx, log, lastTime, paused, scrollTop>>

-----------------------------------------------------------------------------
LogNext ==
    \/ Tick \/ Receive \/ RxArrives \/ TxLogged \/ Pause \/ ClearLog
    \/ Scroll \/ Measure

LogSpec == LogInit /\ [][LogNext]_logVars

\* The log reads in the order of its times, whichever clock stamped them.
LogInOrder == \A m, n \in DOMAIN log : m < n => log[m].time < log[n].time

\* No row in sight is missing from what is rendered, whatever the rows turned
\* out to measure: the list never shows a hole.
SightIsRendered ==
    \A n \in DOMAIN log :
      Top(n) < scrollTop + Viewport /\ Top(n + 1) > scrollTop => n \in Rendered

\* The log is in order, and what is in sight of it is rendered.
LogSound == LogInOrder /\ SightIsRendered
=============================================================================
