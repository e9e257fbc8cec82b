----------------------------- MODULE SerialPort -----------------------------
(***************************************************************************)
(* One serial tab: the switch and the port of its panel                    *)
(* (SerialTerminalPanel), what the window knows of the ports               *)
(* (usePortivaWorkspace), and the sessions and reader threads of           *)
(* serial_service.rs, with ports that are pulled out and put back.         *)
(*                                                                         *)
(* Commands run one after the other in the backend; the panel has one at   *)
(* most, the listing of the ports is asked for every two seconds.  A       *)
(* reader looks at its flag when a read times out, so that it outlives the *)
(* session it was made for.                                                *)
(***************************************************************************)
EXTENDS Naturals, FiniteSets

CONSTANTS Ports, NoPort,  \* the ports, and none chosen
          MaxOpenings,    \* sessions ever opened
          MaxPlugs        \* times a port is pulled out or put back

ASSUME PortsAssumption == NoPort \notin Ports /\ MaxOpenings \in Nat /\ MaxPlugs \in Nat

VARIABLES
    plugged,    \* the ports there are
    plugs,
    portSession,    \* the entry of SerialService.sessions, 0 for none
    opened,     \* sessions opened so far
    readers,    \* the reader threads that run, as records id, port
    flagged,    \* the sessions whose closed flag is set
    broken,     \* the readers whose port was pulled out
    notice,     \* a disconnect notice is on its way to the window
    up,         \* tab.connection.status is "connected"
    host,       \* tab.connection.transport.host
    ended,      \* tab.terminal.status is "closed"
    known,      \* lastDetectedSerialPortNamesRef
    listed,     \* serialPorts
    serialOpen, \* the panel's switch
    chosen,     \* runtimeProfile.portName
    action,     \* the panel's command, serialActionPending while it lasts
    poll,       \* the listing asked for: none, asked, or the ports it found
    closing     \* serialTerminalClose sent by refreshSerialPorts

backendVars == <<portSession, opened, readers, flagged>>
tabState == <<up, host, ended, serialOpen, chosen>>
portVars == <<plugged, plugs, backendVars, broken, notice, tabState, known, listed,
              action, poll, closing>>

NoAction == [kind |-> "none", stage |-> "none", port |-> NoPort]
NotAsked == [stage |-> "none", ports |-> {}]

\* The tab as openSerialTerminalTab makes it: a free port chosen, nothing open.
PortInit ==
    /\ plugged = Ports /\ plugs = 0
    /\ portSession = 0 /\ opened = 0 /\ readers = {} /\ flagged = {}
    /\ broken = {} /\ notice = FALSE
    /\ up = FALSE /\ ended = FALSE /\ serialOpen = FALSE
    /\ host \in Ports /\ chosen = host
    /\ known = Ports /\ listed = Ports
    /\ action = NoAction /\ poll = NotAsked /\ closing = FALSE

Pending == action # NoAction
-----------------------------------------------------------------------------
(* Faulty variants of what follows, for the properties to tell apart.       *)

\* The profile is looked at before the session is closed.
ReconfigureChecksFirst ==
    IF action.port \in plugged
    THEN /\ portSession' = 0 /\ flagged' = flagged \cup ({portSession} \ {0})
         /\ action' = [action EXCEPT !.kind = "reopen"]
    ELSE /\ action' = [action EXCEPT !.stage = "failed"]
         /\ UNCHANGED <<portSession, flagged>>

-----------------------------------------------------------------------------
(* The backend.                                                             *)

\* close_terminal: the session leaves the table, its reader is told.
CloseSession ==
    portSession' = 0 /\ flagged' = flagged \cup ({portSession} \ {0})

\* serial_terminal_close for the panel, and for refreshSerialPorts.
CloseRuns ==
    /\ action.kind = "close" /\ action.stage = "asked"
    /\ CloseSession
    /\ action' = [action EXCEPT !.stage = "ok"]
    /\ UNCHANGED <<opened, readers, poll, closing, known, listed, tabState, plugged, plugs, broken, notice>>

CloseSentRuns ==
    /\ closing /\ closing' = FALSE
    /\ CloseSession
    /\ UNCHANGED <<opened, readers, action, poll, known, listed, tabState, plugged, plugs, broken, notice>>

\* serial_terminal_reconfigure closes, then opens.
ReconfigureClose == CloseSession /\ action' = [action EXCEPT !.kind = "reopen"]
ReconfigureRuns ==
    /\ action.kind = "reconfigure" /\ action.stage = "asked"
    /\ ReconfigureClose
    /\ UNCHANGED <<opened, readers, poll, closing, known, listed, tabState, plugged, plugs, broken, notice>>

Opens == action.kind \in {"open", "reopen"} /\ action.stage = "asked"

\* open_terminal: a session that is there is kept, whatever its port; else the
\* port is opened, if it is there and nobody holds it, and its reader started.
OpenFindsSession ==
    /\ Opens /\ portSession # 0
    /\ action' = [action EXCEPT !.stage = "ok"]
    /\ UNCHANGED <<backendVars, poll, closing, known, listed, tabState, plugged, plugs, broken, notice>>

OpenFails ==
    /\ Opens /\ portSession = 0
    /\ \/ action.port \notin plugged
       \/ \E r \in readers : r.port = action.port
    /\ action' = [action EXCEPT !.stage = "failed"]
    /\ UNCHANGED <<backendVars, poll, closing, known, listed, tabState, plugged, plugs, broken, notice>>

OpenStartsReader ==
    /\ Opens /\ portSession = 0 /\ action.port \in plugged
    /\ opened' = opened + 1
    /\ readers' = readers \cup {[id |-> opened', port |-> action.port]}
    /\ action' = [action EXCEPT !.stage = "spawned"]
    /\ UNCHANGED <<portSession, flagged, poll, closing, known, listed, tabState, plugged, plugs, broken, notice>>

\* The session enters the table; mark_attached.
OpenInserts ==
    /\ action.stage = "spawned"
    /\ portSession' = opened
    /\ action' = [action EXCEPT !.stage = "ok"]
    /\ UNCHANGED <<opened, readers, flagged, poll, closing, known, listed, tabState, plugged, plugs, broken, notice>>

\* spawn_serial_reader: the loop ends, with a notice when nobody closed the
\* session, and the terminal's session is taken from the table and closed.
ReaderEnds ==
    /\ \E r \in readers :
         /\ r.id \in flagged \cup broken
         /\ notice' = (notice \/ r.id \notin flagged)
         /\ readers' = readers \ {r}
    /\ CloseSession
    /\ UNCHANGED <<opened, action, poll, closing, known, listed, tabState, plugged, plugs, broken>>

Pull ==
    /\ plugs < MaxPlugs /\ plugs' = plugs + 1
    /\ \E p \in plugged : plugged' = plugged \ {p}
    /\ broken' = broken \cup {r.id : r \in {q \in readers : q.port \notin plugged'}}
    /\ UNCHANGED <<backendVars, notice, tabState, known, listed, action, poll, closing>>

PutBack ==
    /\ plugs < MaxPlugs /\ plugs' = plugs + 1
    /\ \E p \in Ports \ plugged : plugged' = plugged \cup {p}
    /\ UNCHANGED <<backendVars, broken, notice, tabState, known, listed, action, poll, closing>>

-----------------------------------------------------------------------------
(* The window.                                                              *)

\* The effect of the panel that drops a port that is gone while it is closed.
Settled(open, ports, p) == IF ~open /\ p \notin ports THEN NoPort ELSE p

Switch(open) ==
    /\ serialOpen' = open
    /\ chosen' = Settled(open, listed', chosen)

\* toggleSerial
Toggle ==
    /\ ~Pending /\ chosen # NoPort
    /\ serialOpen \/ opened < MaxOpenings
    /\ action' = [kind |-> IF serialOpen THEN "close" ELSE "open", stage |-> "asked", port |-> chosen]
    /\ UNCHANGED <<backendVars, tabState, known, listed, poll, closing, plugged, plugs, broken, notice>>

\* updateRuntimeProfile: another port or other parameters, applied at once to
\* an open port unless a command is under way.
Edit ==
    /\ serialOpen /\ ~Pending => opened < MaxOpenings
    /\ \E p \in listed \cup {chosen} :
         /\ Pending => p = chosen
         /\ chosen' = p
         /\ action' = IF serialOpen /\ ~Pending
                      THEN [kind |-> "reconfigure", stage |-> "asked", port |-> p] ELSE action
    /\ UNCHANGED <<backendVars, up, host, ended, serialOpen, known, listed, poll, closing, plugged, plugs, broken, notice>>

\* openSerialTerminal, closeSerialTerminal, reconfigureSerialTerminal: the
\* answer, before the workspace is read again.
PortAnswered ==
    /\ action.stage = "ok"
    /\ action' = [action EXCEPT !.stage = "reading"]
    /\ CASE action.kind = "open" -> up' = TRUE /\ host' = action.port /\ ended' = FALSE
         [] action.kind = "close" -> up' = FALSE /\ UNCHANGED <<host, ended>>
         [] OTHER -> ended' = FALSE /\ UNCHANGED <<up, host>>
    /\ UNCHANGED <<backendVars, known, listed, poll, closing, plugged, plugs, broken, notice>>
    /\ IF up' # up THEN Switch(up') ELSE UNCHANGED <<serialOpen, chosen>>

AnsweredNo ==
    /\ action.stage = "failed" /\ action' = NoAction
    /\ UNCHANGED <<known, listed>>
    /\ Switch(FALSE)
    /\ UNCHANGED <<backendVars, up, host, ended, poll, closing, plugged, plugs, broken, notice>>

\* refreshWorkspace has read the ports, or could not; the command is over.
ActionOver ==
    /\ action.stage = "reading" /\ action' = NoAction
    /\ \/ listed' = plugged /\ known' = plugged
       \/ listed' = {} /\ UNCHANGED known
    /\ Switch(action.kind # "close")
    /\ UNCHANGED <<backendVars, up, host, ended, poll, closing, plugged, plugs, broken, notice>>

\* The polling effect calls refreshSerialPorts.
PollPorts ==
    /\ poll = NotAsked
    /\ poll' = [stage |-> "found", ports |-> plugged]
    /\ UNCHANGED <<backendVars, tabState, known, listed, action, closing, plugged, plugs, broken, notice>>

\* The tabs whose port has gone since the last listing.
Gone(ports) == up /\ host \in known \ ports

\* refreshSerialPorts, and markSerialTerminalDisconnected for those tabs.
PortsListed ==
    /\ poll # NotAsked /\ poll' = NotAsked
    /\ known' = poll.ports /\ listed' = poll.ports
    /\ up' = (up /\ ~Gone(poll.ports))
    /\ closing' = (closing \/ Gone(poll.ports))
    /\ Switch(serialOpen /\ ~Gone(poll.ports))
    /\ UNCHANGED <<backendVars, host, ended, action, plugged, plugs, broken, notice>>

\* The notice reaches the tab: flushPendingSnapshots.
NoticeArrives ==
    /\ notice /\ notice' = FALSE
    /\ ended' = TRUE
    /\ UNCHANGED <<backendVars, up, host, serialOpen, chosen, known, listed, action, poll, closing, plugged, plugs, broken>>

-----------------------------------------------------------------------------
PortNext ==
    \/ CloseRuns \/ CloseSentRuns \/ ReconfigureRuns
    \/ OpenFindsSession \/ OpenFails \/ OpenStartsReader \/ OpenInserts
    \/ ReaderEnds \/ Pull \/ PutBack
    \/ Toggle \/ Edit \/ PortAnswered \/ AnsweredNo \/ ActionOver
    \/ PollPorts \/ PortsListed \/ NoticeArrives

\* Commands, threads and timers go on; users and cables need not.
PortFairness ==
    /\ WF_portVars(CloseRuns) /\ WF_portVars(CloseSentRuns) /\ WF_portVars(ReconfigureRuns)
    /\ WF_portVars(OpenFindsSession \/ OpenFails \/ OpenStartsReader) /\ WF_portVars(OpenInserts)
    /\ WF_portVars(ReaderEnds)
    /\ WF_portVars(PortAnswered) /\ WF_portVars(AnsweredNo) /\ WF_portVars(ActionOver)
    /\ WF_portVars(PollPorts) /\ WF_portVars(PortsListed) /\ WF_portVars(NoticeArrives)

PortSpec == PortInit /\ [][PortNext]_portVars /\ PortFairness

\* A port that the panel shows as closed, with nothing under way, is let go of:
\* another program may have it.
ClosedIsReleased == (~Pending /\ ~serialOpen) ~> (portSession = 0 \/ serialOpen \/ Pending)
=============================================================================
