------------------------------ MODULE NetworkScan ------------------------------
(***************************************************************************)
(* The network scan: the page with its draft (NetworkScannerPanel,         *)
(* networkScanConfig.ts), the hook that follows the scan                   *)
(* (useNetworkScanner.ts) and the scans themselves                         *)
(* (network_scan_service.rs).                                              *)
(*                                                                         *)
(* A scan tells its progress by events, which come in order; the answers   *)
(* of the two commands come apart from them, sooner or later.  The lock of *)
(* the service is never poisoned, so a command to cancel does not fail.    *)
(***************************************************************************)
EXTENDS Naturals, Sequences, SequencesExt, FiniteSets, Lists

CONSTANTS Networks,    \* networks that can be typed; the first host of each answers
          OwnNetwork,  \* that of the interface the page prefers
          HostsOf,     \* HostsOf[c]: the hosts of a network, 0 for none
          ScanDrafts,  \* the rest of the page: its limits, its ways to probe, its ports
          MaxScans,    \* scans ever asked for and times the page is opened again, together
          MaxStops     \* clicks on the button that stops

ASSUME NetworkScanAssumption ==
    /\ OwnNetwork \in Networks /\ HostsOf \in [Networks -> Nat]
    /\ MaxScans \in Nat \ {0} /\ MaxStops \in Nat

VARIABLES
    network,    \* draft.cidr: NoNetwork while empty
    interfaces, \* the interfaces are known
    shown,      \* the page is open
    returns,    \* how often it was opened again
    status,     \* status
    active,     \* activeScanIdRef: 0 for none
    starting,   \* startingRef: the scan that was asked for, 0 when it is off
    awaited,    \* the scans whose starts are awaited
    overtaken,  \* history: a start was made while another was awaited or followed
    kept,       \* queuedEventsRef
    scanSession,    \* session: its scan, 0 for none
    results,    \* results: scan and host of each
    scanned,    \* scanned
    scans,      \* the scans of the service
    wire,       \* events on their way
    stops       \* cancel commands: [scan, mine, answer]

pageVars == <<network, interfaces, shown, returns>>
hookVars == <<status, active, starting, awaited, overtaken, kept, scanSession, results, scanned>>
scanVars == <<pageVars, hookVars, scans, wire, stops>>

NoNetwork == "none"
Busy == {"starting", "running", "cancelling"}
Unasked == [at |-> "unused", hosts |-> 0, done |-> 0, cancelled |-> FALSE, usable |-> FALSE]

FreshHook ==
    /\ status = "idle" /\ active = 0 /\ starting = 0 /\ awaited = {} /\ overtaken = FALSE
    /\ kept = <<>> /\ scanSession = 0 /\ results = <<>> /\ scanned = 0

ScanInit ==
    /\ network = NoNetwork /\ interfaces = FALSE /\ shown = TRUE /\ returns = 0
    /\ FreshHook
    /\ scans = [n \in 1..MaxScans |-> Unasked] /\ wire = <<>> /\ stops = {}

-----------------------------------------------------------------------------
(* Faulty variants of what follows, for the properties to tell apart.       *)

\* Of the events that came before the answer the hosts are taken over, and not the end.
EarlyHosts(n) == Kept(kept, {i \in DOMAIN kept : kept[i].scan = n /\ kept[i].kind = "progress"})

-----------------------------------------------------------------------------
(* networkScanConfig.ts and the checks of the service.                      *)

ValidPort(p) == p \in 1..65535
ValidRange(r) == ValidPort(r.from) /\ ValidPort(r.to) /\ r.from <= r.to /\ r.to - r.from + 1 <= 32

\* parsePortList: the ports, or none when a token is refused.
PortsOf(ranges) ==
    LET ports == UNION {r.from .. r.to : r \in Range(ranges)} IN
    IF (\A r \in Range(ranges) : ValidRange(r)) /\ Cardinality(ports) <= 32
    THEN [ok |-> TRUE, ports |-> ports] ELSE [ok |-> FALSE, ports |-> {}]

\* parseScanLimits
Limits(d) == 100 <= d.timeout /\ d.timeout <= 180000 /\ d.concurrency \in 1..128

\* startScan, its checks.
Accepts(d) ==
    /\ network # NoNetwork /\ (d.ping \/ d.tcp) /\ Limits(d)
    /\ d.tcp => PortsOf(d.ports).ok /\ PortsOf(d.ports).ports # {}

\* prepare
Prepares(d, c) ==
    /\ d.ping \/ d.tcp
    /\ 100 <= d.timeout /\ d.timeout <= 180000 /\ d.concurrency # 0 /\ d.concurrency <= 128
    /\ d.tcp => PortsOf(d.ports).ports # {}
    /\ Cardinality(PortsOf(d.ports).ports) <= 32
    /\ HostsOf[c] # 0

-----------------------------------------------------------------------------
(* The service.                                                             *)

Tell(n, kind, host) ==
    wire' = Append(wire, [scan |-> n, kind |-> kind, host |-> host, scanned |-> scans'[n].done])

\* start_scan: refused or registered, before the answer is on its way.
Register(n) ==
    /\ scans[n].at = "asked"
    /\ scans' = [scans EXCEPT ![n].at = IF scans[n].hosts = 0 THEN "refused" ELSE "runs"]
    /\ UNCHANGED <<pageVars, hookVars, wire, stops>>

\* run_scan, one chunk: what it found is dropped when it was cancelled meanwhile.
ScanChunk(n) ==
    /\ scans[n].at = "runs" /\ ~scans[n].cancelled /\ scans[n].done < scans[n].hosts
    /\ scans' = [scans EXCEPT ![n].done = @ + 1]
    /\ Tell(n, "progress", scans[n].done + 1)
    /\ UNCHANGED <<pageVars, hookVars, stops>>

\* finish: the scan is forgotten, ...
Forget(n) ==
    /\ scans[n].at = "runs"
    /\ \/ scans[n].done = scans[n].hosts /\ scans' = [scans EXCEPT ![n].at = "completed"]
       \/ /\ scans[n].cancelled /\ scans[n].done < scans[n].hosts
          /\ scans' = [scans EXCEPT ![n].at = "cancelled"]
    /\ UNCHANGED <<pageVars, hookVars, wire, stops>>

\* ... then its end is told.
TellEnd(n) ==
    /\ scans[n].at \in {"completed", "cancelled"}
    /\ scans' = [scans EXCEPT ![n].at = "told"]
    /\ Tell(n, scans[n].at, 0)
    /\ UNCHANGED <<pageVars, hookVars, stops>>

\* cancel: whether the scan was still known.
CancelScan(s) ==
    /\ s.answer = "none"
    /\ LET known == scans[s.scan].at = "runs" IN
       /\ scans' = [scans EXCEPT ![s.scan].cancelled = @ \/ known]
       /\ stops' = (stops \ {s}) \cup {[s EXCEPT !.answer = IF known THEN "yes" ELSE "no"]}
    /\ UNCHANGED <<pageVars, hookVars, wire>>

-----------------------------------------------------------------------------
(* useNetworkScanner                                                        *)

\* applyEvent, for one event or for those that were kept, in their order; the status is
\* before unless the scan is at its end.
Apply(events, n, before) ==
    LET found == Kept(events, {i \in DOMAIN events : events[i].kind = "progress"})
        ends  == Kept(events, {i \in DOMAIN events : events[i].kind # "progress"})
    IN /\ results' = results \o [i \in 1..Len(found) |-> <<found[i].scan, found[i].host>>]
       /\ scanned' = IF events = <<>> THEN scanned ELSE Last(events).scanned
       /\ active' = IF ends = <<>> THEN n ELSE 0
       /\ status' = IF ends # <<>> THEN Last(ends).kind
                    ELSE before

\* The listener: events are kept while a start is awaited.
EventComes ==
    LET e == Head(wire) IN
    /\ wire # <<>> /\ wire' = Tail(wire)
    /\ IF active = 0
       THEN /\ kept' = IF starting # 0 THEN Append(kept, e) ELSE kept
            /\ UNCHANGED <<status, active, results, scanned>>
       ELSE /\ UNCHANGED kept
            /\ IF e.scan = active THEN Apply(<<e>>, active, status)
               ELSE UNCHANGED <<status, active, results, scanned>>
    /\ UNCHANGED <<pageVars, starting, awaited, overtaken, scanSession, scans, stops>>

\* start.  A late answer to a stop makes the page look idle while a start is awaited:
\* then it can be made again, and the answers to both will be taken.
Start(n, d) ==
    /\ shown /\ status \notin Busy /\ scans[n].at = "unused"
    /\ \A m \in 1..MaxScans : m < n => scans[m].at # "unused"
    /\ Accepts(d) /\ n + returns <= MaxScans
    /\ results' = <<>> /\ scanned' = 0 /\ scanSession' = 0 /\ status' = "starting"
    /\ starting' = n /\ kept' = <<>> /\ awaited' = awaited \cup {n}
    /\ overtaken' = (awaited # {} \/ active # 0)
    /\ scans' = [scans EXCEPT ![n] =
         [Unasked EXCEPT !.at = "asked",
                         !.hosts = IF Prepares(d, network) THEN HostsOf[network] ELSE 0,
                         !.usable = HostsOf[network] # 0]]
    /\ UNCHANGED <<pageVars, active, wire, stops>>

\* The events of this scan that came before the answer.
Early(n) == Kept(kept, {i \in DOMAIN kept : kept[i].scan = n})

\* What is listed already, of a start that was overtaken, stays.
Started(n) ==
    /\ n \in awaited /\ scans[n].at \notin {"asked", "refused"}
    /\ scanSession' = n /\ Apply(Early(n), n, "running")
    /\ kept' = <<>> /\ starting' = 0 /\ awaited' = awaited \ {n}
    /\ UNCHANGED <<pageVars, overtaken, scans, wire, stops>>

StartRefused(n) ==
    /\ n \in awaited /\ scans[n].at = "refused"
    /\ status' = "failed" /\ starting' = 0 /\ awaited' = awaited \ {n}
    /\ UNCHANGED <<pageVars, active, overtaken, kept, scanSession, results, scanned, scans, wire,
                   stops>>

\* cancel, by the button: nothing while the start is awaited.
Stop ==
    /\ shown /\ status \in Busy /\ active # 0 /\ Cardinality(stops) < MaxStops
    /\ status' = "cancelling"
    /\ stops' = stops \cup {[scan |-> active, mine |-> TRUE, answer |-> "none",
                             count |-> Cardinality(stops)]}
    /\ UNCHANGED <<pageVars, active, starting, awaited, overtaken, kept, scanSession, results,
                   scanned, scans, wire>>

\* Its answer is taken for the scan that is active now, though it may be about
\* one that had ended before this one was started.
Stopped(s) ==
    /\ s.mine /\ s.answer # "none"
    /\ stops' = (stops \ {s}) \cup {[s EXCEPT !.mine = FALSE]}
    /\ IF s.answer = "no" THEN active' = 0 /\ status' = "cancelled"
       ELSE UNCHANGED <<active, status>>
    /\ UNCHANGED <<pageVars, starting, awaited, overtaken, kept, scanSession, results, scanned,
                   scans, wire>>

\* The page is left: its scan is cancelled when there is one already.
Leave ==
    /\ shown /\ shown' = FALSE
    /\ (active = 0 \/ Cardinality(stops) < MaxStops)
    /\ stops' = {[s EXCEPT !.mine = FALSE] : s \in stops}
                  \cup (IF active = 0 THEN {}
                        ELSE {[scan |-> active, mine |-> FALSE, answer |-> "none",
                               count |-> Cardinality(stops)]})
    /\ status' = "idle" /\ active' = 0 /\ starting' = 0 /\ awaited' = {} /\ overtaken' = FALSE
    /\ kept' = <<>> /\ scanSession' = 0
    /\ results' = <<>> /\ scanned' = 0 /\ network' = NoNetwork /\ interfaces' = FALSE
    /\ UNCHANGED <<returns, scans, wire>>

Return ==
    /\ ~shown /\ shown' = TRUE /\ returns' = returns + 1
    /\ returns < MaxScans /\ scans[MaxScans - returns].at = "unused"
    /\ UNCHANGED <<network, interfaces, hookVars, scans, wire, stops>>

\* refreshInterfaces, when the page opens; an empty field takes the network of
\* the interface the page prefers.
InterfacesCome ==
    /\ shown /\ ~interfaces /\ interfaces' = TRUE
    /\ network' = IF network = NoNetwork THEN OwnNetwork ELSE network
    /\ UNCHANGED <<shown, returns, hookVars, scans, wire, stops>>

\* updateDraft; a field that is emptied is filled again.
TypeNetwork ==
    /\ shown /\ status \notin Busy
    /\ \E c \in Networks \cup {NoNetwork} :
         network' = IF c = NoNetwork /\ interfaces THEN OwnNetwork ELSE c
    /\ UNCHANGED <<shown, returns, interfaces, hookVars, scans, wire, stops>>

-----------------------------------------------------------------------------
ServiceSteps == \E n \in 1..MaxScans : Register(n) \/ ScanChunk(n) \/ Forget(n) \/ TellEnd(n)
Answers ==
    \/ \E n \in 1..MaxScans : Started(n) \/ StartRefused(n)
    \/ \E s \in stops : CancelScan(s) \/ Stopped(s)

ScanNext ==
    \/ ServiceSteps \/ Answers \/ EventComes
    \/ \E n \in 1..MaxScans, d \in ScanDrafts : Start(n, d)
    \/ Stop \/ Leave \/ Return \/ InterfacesCome \/ TypeNetwork

\* A scan goes on, events and answers come.
ScanFairness == WF_scanVars(ServiceSteps) /\ WF_scanVars(Answers) /\ WF_scanVars(EventComes)

ScanSpec == ScanInit /\ [][ScanNext]_scanVars /\ ScanFairness

\* The page shows the hosts of the scan it names, each once and in their order,
\* and counts as many, whatever was scanned, cancelled or left before; but not
\* after a start that overtook another, until one is made alone or the page is left.
ResultsOfThisScan ==
    ~overtaken => /\ scanSession # 0 => results = [i \in 1..scanned |-> <<scanSession, i>>]
                  /\ scanSession = 0 => results = <<>> /\ scanned = 0

\* A scan the page let through is refused for its network only: what the page
\* checks of the limits and the ports is what the service checks.
RefusedForItsNetwork == \A n \in 1..MaxScans : scans[n].usable => scans[n].at # "refused"

\* The page is not busy for ever: a scan, or the wish to stop it, comes to an end
\* even when everything was told before the start was answered; but for starts that
\* overtook each other, when the end of the one is told while the other is followed.
ScanEnds == status \in Busy ~> status \notin Busy \/ overtaken

\* A scan is shown as it is, is refused for nothing the page could have said, and ends.
ScanSound == []ResultsOfThisScan /\ []RefusedForItsNetwork /\ ScanEnds
=============================================================================
