------------------------------ MODULE SshSession ------------------------------
(***************************************************************************)
(* The life of SSH connections: the commands of commands/connection.rs,    *)
(* commands/terminal.rs and file_transfer_open, and the five tables they   *)
(* share, each behind a mutex of its own: ConnectionManager (registry),    *)
(* SshSessionService (mapped, sftp, ptys), TerminalService (term) and      *)
(* FileTransferService (files).                                            *)
(*                                                                         *)
(* A command is a sequence of steps, one per lock it takes; other commands *)
(* and the PTY reader tasks run in between, above all while it awaits the  *)
(* network.  Each terminal stands for one terminal_attach call, each file  *)
(* session for one file_transfer_open call, each login for one             *)
(* authenticate call.  Connection ids are never reused (register_session). *)
(***************************************************************************)
EXTENDS Naturals

CONSTANTS Conns,
          Logins, Terms, Files,     \* the calls made, each at most once
          ConnOf                    \* the connection each call is about

ASSUME ConnOfAssumption == ConnOf \in [Logins \cup Terms \cup Files -> Conns]

VARIABLES
    registry,   \* registry[c]: ConnectionSession, with its status
    channels,   \* channels[c]: terminal_channel_ready and file_transfer_ready
    mapped,     \* the connections whose SshRuntimeSession is in the map
    transport,  \* transport[c]: the SSH transport under the session's handle
    sftp,       \* the connections whose session has an SFTP channel
    ptys,       \* the terminals with an entry in their session's ptys
    live,       \* the terminals whose remote channel is open
    reader,     \* reader[t]: the task spawn_pty_output_reader started for t
    term,       \* term[t]: TerminalSession, "none" when not in the table
    files,      \* the open file transfer sessions
    login,      \* login[l], attach[t], opening[f], dropping[t], closing[c]:
    attach,     \*     how far the call got
    opening,
    dropping,
    closing,
    overtaken   \* history: connections whose session was missed in the map by a
                \*     close or a reader because a login had taken it out

tablesVars  == <<registry, channels, term, files>>
sessionVars == <<mapped, transport, sftp>>
ptyVars     == <<ptys, live, reader>>
callsVars   == <<login, attach, opening, dropping, closing>>
vars == <<registry, channels, mapped, transport, sftp, ptys, live, reader, term,
          files, login, attach, opening, dropping, closing, overtaken>>

Registered   == {"ready", "connected"}
TermsOf(c)   == {t \in Terms : ConnOf[t] = c}
FilesOf(c)   == {f \in Files : ConnOf[f] = c}
Held(c)      == \E l \in Logins : ConnOf[l] = c /\ login[l] = "talking"
Advance(pc, k, from, to) == pc[k] = from /\ pc' = [pc EXCEPT ![k] = to]

Init ==
    /\ registry = [c \in Conns |-> "unopened"]
    /\ channels = [c \in Conns |-> {}]
    /\ mapped = {}
    /\ transport = [c \in Conns |-> "none"]
    /\ sftp = {}
    /\ ptys = {}
    /\ live = {}
    /\ reader = [t \in Terms |-> "none"]
    /\ term = [t \in Terms |-> "none"]
    /\ files = {}
    /\ login = [l \in Logins |-> "idle"]
    /\ attach = [t \in Terms |-> "idle"]
    /\ opening = [f \in Files |-> "idle"]
    /\ dropping = [t \in Terms |-> "idle"]
    /\ closing = [c \in Conns |-> "idle"]
    /\ overtaken = {}

-----------------------------------------------------------------------------
(* Faulty variants of what follows, for the properties to tell apart.      *)

\* A login looks the session up without taking it out of the map.
LoginLooks(l) ==
    /\ ConnOf[l] \in mapped
    /\ Advance(login, l, "idle", "talking")
    /\ UNCHANGED <<tablesVars, sessionVars, ptyVars, attach, opening, dropping,
                   closing, overtaken>>

\* mark_ssh_authenticated writes the entry it was given instead of looking it up.
LoginUpserts(l) ==
    LET c == ConnOf[l] IN
    /\ Advance(login, l, "accepted", "over")
    /\ registry' = [registry EXCEPT ![c] = "connected"]
    /\ channels' = [channels EXCEPT ![c] = {}]
    /\ UNCHANGED <<sessionVars, ptyVars, term, files, attach, opening, dropping,
                   closing, overtaken>>

\* The notice is not recorded, or recorded with the status of a connection.
ShowNothing(t)      == UNCHANGED term
ShowDisconnected(t) == term' = [term EXCEPT ![t] = IF @ = "attached" THEN "disconnected" ELSE @]

-----------------------------------------------------------------------------
(* connection_open.  Nobody knows the id before it returns, so the entry   *)
(* of the session and the mark that follows are one step.                  *)

OpenPending(c) ==
    /\ Advance(registry, c, "unopened", "connecting")
    /\ UNCHANGED <<sessionVars, ptyVars, callsVars, channels, term, files, overtaken>>

OpenConnected(c) ==
    /\ Advance(registry, c, "connecting", "ready")
    /\ mapped' = mapped \cup {c}
    /\ transport' = [transport EXCEPT ![c] = "up"]
    /\ UNCHANGED <<ptyVars, callsVars, channels, sftp, term, files, overtaken>>

\* The host is unreachable, or its key is unknown or has changed.
OpenFails(c) ==
    /\ Advance(registry, c, "connecting", "removed")
    /\ UNCHANGED <<sessionVars, ptyVars, callsVars, channels, term, files, overtaken>>

-----------------------------------------------------------------------------
(* The authenticate commands: the session leaves the map while the server  *)
(* is asked, and goes back whatever the answer is.                         *)

LoginTakes(l) ==
    /\ ConnOf[l] \in mapped
    /\ Advance(login, l, "idle", "talking")
    /\ mapped' = mapped \ {ConnOf[l]}
    /\ UNCHANGED <<tablesVars, ptyVars, transport, sftp, attach, opening, dropping,
                   closing, overtaken>>

LoginPuts(l) ==
    /\ \/ transport[ConnOf[l]] = "up" /\ Advance(login, l, "talking", "accepted")
       \/ Advance(login, l, "talking", "over")
    /\ mapped' = mapped \cup {ConnOf[l]}
    /\ UNCHANGED <<tablesVars, ptyVars, transport, sftp, attach, opening, dropping,
                   closing, overtaken>>

\* mark_ssh_authenticated, an error when the connection is no longer registered.
LoginMarks(l) ==
    LET c == ConnOf[l] IN
    /\ Advance(login, l, "accepted", "over")
    /\ registry' = [registry EXCEPT ![c] = IF @ \in Registered THEN "connected" ELSE @]
    /\ channels' = [channels EXCEPT ![c] = {}]
    /\ UNCHANGED <<sessionVars, ptyVars, term, files, attach, opening, dropping,
                   closing, overtaken>>

-----------------------------------------------------------------------------
(* terminal_attach for an SSH connection.                                  *)

\* A copy of the registry entry is checked; the terminal is registered after.
AttachChecks(t) ==
    /\ registry[ConnOf[t]] = "connected"
    /\ Advance(attach, t, "idle", "checked")
    /\ UNCHANGED <<tablesVars, sessionVars, ptyVars, login, opening, dropping,
                   closing, overtaken>>

AttachRegisters(t) ==
    /\ Advance(attach, t, "checked", "registered")
    /\ term' = [term EXCEPT ![t] = "attached"]
    /\ UNCHANGED <<sessionVars, ptyVars, registry, channels, files, login, opening,
                   dropping, closing, overtaken>>

\* open_pty takes the handle out of the map ...
AttachTakesHandle(t) ==
    /\ Advance(attach, t, "registered",
               IF ConnOf[t] \in mapped THEN "opening" ELSE "failing")
    /\ UNCHANGED <<tablesVars, sessionVars, ptyVars, login, opening, dropping,
                   closing, overtaken>>

\* ... opens a channel, and looks the session up again before it adds the PTY.  The
\* reader is spawned at once; nothing that happens before depends on it.
AttachInserts(t) ==
    /\ transport[ConnOf[t]] = "up"
    /\ \/ /\ ConnOf[t] \in mapped
          /\ Advance(attach, t, "opening", "inserted")
          /\ ptys' = ptys \cup {t}
          /\ live' = live \cup {t}
          /\ reader' = [reader EXCEPT ![t] = "reading"]
       \/ /\ ConnOf[t] \notin mapped
          /\ Advance(attach, t, "opening", "failing")
          /\ UNCHANGED ptyVars
    /\ UNCHANGED <<tablesVars, sessionVars, login, opening, dropping, closing,
                   overtaken>>

\* Refused, timed out or disconnected.
AttachIsRefused(t) ==
    /\ Advance(attach, t, "opening", "failing")
    /\ UNCHANGED <<tablesVars, sessionVars, ptyVars, login, opening, dropping,
                   closing, overtaken>>

AttachFails(t) ==
    /\ Advance(attach, t, "failing", "failed")
    /\ term' = [term EXCEPT ![t] = "none"]
    /\ UNCHANGED <<sessionVars, ptyVars, registry, channels, files, login, opening,
                   dropping, closing, overtaken>>

\* mark_terminal_channel_ready, then set_x11_forwarding: their errors leave the
\* command through `?`.
AttachMarks(t) ==
    LET c == ConnOf[t] IN
    /\ \/ /\ registry[c] = "connected"
          /\ Advance(attach, t, "inserted", "marked")
          /\ channels' = [channels EXCEPT ![c] = @ \cup {"terminal"}]
       \/ /\ registry[c] # "connected"
          /\ Advance(attach, t, "inserted", "failed")
          /\ UNCHANGED channels
    /\ UNCHANGED <<sessionVars, ptyVars, registry, term, files, login, opening,
                   dropping, closing, overtaken>>

AttachReturns(t) ==
    /\ Advance(attach, t, "marked", IF term[t] # "none" THEN "done" ELSE "failed")
    /\ UNCHANGED <<tablesVars, sessionVars, ptyVars, login, opening, dropping,
                   closing, overtaken>>

-----------------------------------------------------------------------------
(* The PTY of a terminal.                                                  *)

Ended(t) == t \notin live \/ transport[ConnOf[t]] = "down"

ShowClosed(t) == term' = [term EXCEPT ![t] = IF @ = "attached" THEN "closed" ELSE @]

RemoteCloses(t) ==
    /\ t \in live
    /\ live' = live \ {t}
    /\ UNCHANGED <<tablesVars, sessionVars, callsVars, ptys, reader, overtaken>>

\* The reader reports the end of its channel (append_disconnect_notice) ...
ReaderNotices(t) ==
    /\ Ended(t)
    /\ Advance(reader, t, "reading", "noticed")
    /\ ShowClosed(t)
    /\ UNCHANGED <<sessionVars, callsVars, registry, channels, ptys, live, files,
                   overtaken>>

\* ... and then removes the PTY (close_pty_by_terminal), if it finds it.
ReaderCleans(t) ==
    LET c == ConnOf[t] IN
    /\ Advance(reader, t, "noticed", "ended")
    /\ IF c \in mapped
       THEN ptys' = ptys \ {t} /\ live' = live \ {t}
       ELSE UNCHANGED <<ptys, live>>
    /\ overtaken' = IF Held(c) THEN overtaken \cup {c} ELSE overtaken
    /\ UNCHANGED <<tablesVars, sessionVars, callsVars>>

\* terminal_write on a dead channel also marks the terminal closed.
WriteFails(t) ==
    /\ attach[t] = "done" /\ t \in ptys /\ ConnOf[t] \in mapped /\ Ended(t)
    /\ term[t] = "attached"
    /\ ShowClosed(t)
    /\ UNCHANGED <<sessionVars, ptyVars, callsVars, registry, channels, files,
                   overtaken>>

-----------------------------------------------------------------------------
(* terminal_close, for a terminal whose id the frontend was given.         *)

TerminalLooksUp(t) ==
    /\ attach[t] = "done" /\ term[t] # "none"
    /\ Advance(dropping, t, "idle",
               IF t \in ptys /\ ConnOf[t] \in mapped THEN "hasPty" ELSE "closed")
    /\ UNCHANGED <<tablesVars, sessionVars, ptyVars, login, attach, opening, closing,
                   overtaken>>

\* close_pty; when the session left the map meanwhile its error ends the command.
TerminalClosesPty(t) ==
    /\ IF ConnOf[t] \in mapped
       THEN /\ Advance(dropping, t, "hasPty", "closed")
            /\ ptys' = ptys \ {t} /\ live' = live \ {t}
       ELSE /\ Advance(dropping, t, "hasPty", "idle")
            /\ UNCHANGED <<ptys, live>>
    /\ UNCHANGED <<tablesVars, sessionVars, reader, login, attach, opening, closing,
                   overtaken>>

TerminalDrops(t) ==
    /\ Advance(dropping, t, "closed", "over")
    /\ term' = [term EXCEPT ![t] = "none"]
    /\ UNCHANGED <<sessionVars, ptyVars, registry, channels, files, login, attach,
                   opening, closing, overtaken>>

-----------------------------------------------------------------------------
(* file_transfer_open and file_transfer_close.                             *)

FileChecks(f) ==
    LET c == ConnOf[f] IN
    /\ registry[c] = "connected"
    /\ Advance(opening, f, "idle",
               IF "files" \in channels[c] /\ c \in mapped /\ c \in sftp
               THEN "shortcut" ELSE "checked")
    /\ UNCHANGED <<tablesVars, sessionVars, ptyVars, login, attach, dropping, closing,
                   overtaken>>

FileTakesHandle(f) ==
    LET c == ConnOf[f] IN
    /\ Advance(opening, f, "checked",
               IF c \notin mapped THEN "failed"
               ELSE IF c \in sftp THEN "opened" ELSE "asking")
    /\ UNCHANGED <<tablesVars, sessionVars, ptyVars, login, attach, dropping, closing,
                   overtaken>>

FileChannelOpens(f) ==
    LET c == ConnOf[f] IN
    /\ transport[c] = "up"
    /\ Advance(opening, f, "asking", IF c \in mapped THEN "opened" ELSE "failed")
    /\ sftp' = IF c \in mapped THEN sftp \cup {c} ELSE sftp
    /\ UNCHANGED <<tablesVars, ptyVars, mapped, transport, login, attach, dropping,
                   closing, overtaken>>

FileIsRefused(f) ==
    /\ Advance(opening, f, "asking", "failed")
    /\ UNCHANGED <<tablesVars, sessionVars, ptyVars, login, attach, dropping, closing,
                   overtaken>>

FileRegisters(f) ==
    /\ \/ Advance(opening, f, "shortcut", "done")
       \/ Advance(opening, f, "opened", "registered")
    /\ files' = files \cup {f}
    /\ UNCHANGED <<sessionVars, ptyVars, registry, channels, term, login, attach,
                   dropping, closing, overtaken>>

\* mark_sftp_ready; its error leaves the command through `?`.
FileMarks(f) ==
    LET c == ConnOf[f] IN
    /\ \/ /\ registry[c] = "connected"
          /\ Advance(opening, f, "registered", "done")
          /\ channels' = [channels EXCEPT ![c] = @ \cup {"files"}]
       \/ /\ registry[c] # "connected"
          /\ Advance(opening, f, "registered", "failed")
          /\ UNCHANGED channels
    /\ UNCHANGED <<sessionVars, ptyVars, registry, term, files, login, attach,
                   dropping, closing, overtaken>>

FileCloses(f) ==
    /\ opening[f] = "done" /\ f \in files
    /\ files' = files \ {f}
    /\ UNCHANGED <<sessionVars, ptyVars, callsVars, registry, channels, term, overtaken>>

-----------------------------------------------------------------------------
(* connection_close: one table after the other, the registry last.  The    *)
(* transfers are cancelled after the file sessions: see TransferQueue.     *)

CloseTerminals(c) ==
    /\ registry[c] \in Registered
    /\ Advance(closing, c, "idle", "terminals")
    /\ term' = [t \in Terms |-> IF t \in TermsOf(c) THEN "none" ELSE term[t]]
    /\ UNCHANGED <<sessionVars, ptyVars, registry, channels, files, login, attach,
                   opening, dropping, overtaken>>

ClosePtys(c) ==
    /\ Advance(closing, c, "terminals", "ptys")
    /\ IF c \in mapped
       THEN ptys' = ptys \ TermsOf(c) /\ live' = live \ (ptys \cap TermsOf(c))
       ELSE UNCHANGED <<ptys, live>>
    /\ UNCHANGED <<tablesVars, sessionVars, reader, login, attach, opening, dropping,
                   overtaken>>

CloseFiles(c) ==
    /\ Advance(closing, c, "ptys", "files")
    /\ files' = files \ FilesOf(c)
    /\ UNCHANGED <<sessionVars, ptyVars, registry, channels, term, login, attach,
                   opening, dropping, overtaken>>

\* SshSessionService::close takes the session with all it holds out of the map ...
CloseSsh(c) ==
    /\ Advance(closing, c, "files", IF c \in mapped THEN "unmapped" ELSE "ssh")
    /\ mapped' = mapped \ {c}
    /\ ptys' = IF c \in mapped THEN ptys \ TermsOf(c) ELSE ptys
    /\ sftp' = IF c \in mapped THEN sftp \ {c} ELSE sftp
    /\ overtaken' = IF Held(c) THEN overtaken \cup {c} ELSE overtaken
    /\ UNCHANGED <<tablesVars, transport, live, reader, login, attach, opening, dropping>>

\* ... waits for its handle, and disconnects.
CloseDisconnects(c) ==
    /\ Advance(closing, c, "unmapped", "ssh")
    /\ transport' = [transport EXCEPT ![c] = "down"]
    /\ UNCHANGED <<tablesVars, ptyVars, mapped, sftp, login, attach, opening, dropping,
                   overtaken>>

CloseRegistry(c) ==
    /\ Advance(closing, c, "ssh", "done")
    /\ registry' = [registry EXCEPT ![c] = "removed"]
    /\ channels' = [channels EXCEPT ![c] = {}]
    /\ UNCHANGED <<sessionVars, ptyVars, term, files, login, attach, opening,
                   dropping, overtaken>>

\* The server or the network ends the transport.
TransportLost(c) ==
    /\ Advance(transport, c, "up", "down")
    /\ UNCHANGED <<tablesVars, ptyVars, callsVars, mapped, sftp, overtaken>>

-----------------------------------------------------------------------------
LoginStep(l) == LoginTakes(l) \/ LoginPuts(l) \/ LoginMarks(l)

AttachStep(t) ==
    \/ AttachChecks(t) \/ AttachRegisters(t) \/ AttachTakesHandle(t) \/ AttachInserts(t)
    \/ AttachIsRefused(t) \/ AttachFails(t) \/ AttachMarks(t) \/ AttachReturns(t)

PtyStep(t) == RemoteCloses(t) \/ ReaderNotices(t) \/ ReaderCleans(t) \/ WriteFails(t)

DropStep(t) == TerminalLooksUp(t) \/ TerminalClosesPty(t) \/ TerminalDrops(t)

FileStep(f) ==
    \/ FileChecks(f) \/ FileTakesHandle(f) \/ FileChannelOpens(f) \/ FileIsRefused(f)
    \/ FileRegisters(f) \/ FileMarks(f) \/ FileCloses(f)

CloseStep(c) ==
    \/ CloseTerminals(c) \/ ClosePtys(c) \/ CloseFiles(c)
    \/ CloseSsh(c) \/ CloseDisconnects(c) \/ CloseRegistry(c)

OpenStep(c) == OpenPending(c) \/ OpenConnected(c) \/ OpenFails(c)

Next ==
    \/ \E l \in Logins : LoginStep(l)
    \/ \E t \in Terms : AttachStep(t) \/ PtyStep(t) \/ DropStep(t)
    \/ \E f \in Files : FileStep(f)
    \/ \E c \in Conns : OpenStep(c) \/ CloseStep(c) \/ TransportLost(c)

Spec == Init /\ [][Next]_vars

(***************************************************************************)
(* Fairness: the reader of a PTY is a task of its own that always comes to *)
(* run, and a terminal_attach that was let in runs to its end once the     *)
(* transport is down, for then no wait for the server goes on.  Nothing is *)
(* assumed of the user, the server or a transport that is up.              *)
(***************************************************************************)
AttachGoesOn(t) ==
    transport[ConnOf[t]] = "down" /\ attach[t] # "idle" /\ AttachStep(t)

Fairness ==
    \A t \in Terms : /\ WF_vars(AttachGoesOn(t))
                     /\ WF_vars(ReaderNotices(t))
                     /\ WF_vars(ReaderCleans(t))

FairSpec == Spec /\ Fairness

-----------------------------------------------------------------------------
(* Properties.                                                             *)

AttachStage  == {"idle", "checked", "registered", "opening", "inserted", "marked",
                 "done", "failing", "failed"}
OpeningStage == {"idle", "checked", "shortcut", "asking", "opened", "registered",
                 "done", "failed"}

\* Type invariant.
TypeOK ==
    /\ registry \in [Conns -> {"unopened", "connecting", "ready", "connected", "removed"}]
    /\ channels \in [Conns -> SUBSET {"terminal", "files"}]
    /\ mapped \subseteq Conns
    /\ transport \in [Conns -> {"none", "up", "down"}]
    /\ sftp \subseteq Conns
    /\ ptys \subseteq Terms
    /\ live \subseteq Terms
    /\ reader \in [Terms -> {"none", "reading", "noticed", "ended"}]
    /\ term \in [Terms -> {"none", "attached", "closed"}]
    /\ files \subseteq Files
    /\ login \in [Logins -> {"idle", "talking", "accepted", "over"}]
    /\ attach \in [Terms -> AttachStage]
    /\ opening \in [Files -> OpeningStage]
    /\ dropping \in [Terms -> {"idle", "hasPty", "closed", "over"}]
    /\ closing \in [Conns -> {"idle", "terminals", "ptys", "files", "unmapped", "ssh", "done"}]
    /\ overtaken \subseteq Conns

\* take_session and put_session make a login exclusive: while one talks to the server
\* the session is not in the map, so no other login, PTY or SFTP channel can start.
OneTalker ==
    /\ \A l \in Logins : login[l] = "talking" => ConnOf[l] \notin mapped
    /\ \A l, m \in Logins : ConnOf[l] = ConnOf[m] /\ login[l] = "talking" /\ login[m] = "talking"
                              => l = m

\* No frozen terminal: one the table shows as attached has a reader that will report
\* the end of its channel, unless terminal_attach still works on it.
AttachedIsRead ==
    \A t \in Terms : term[t] = "attached" /\ attach[t] \notin {"registered", "opening", "failing"}
                        => reader[t] = "reading"

\* The PTY table holds no dead PTY: whoever ends a channel, the reader is still there
\* to remove the entry, unless it looked while a login had the session.
PtyHasReader ==
    \A t \in ptys : reader[t] \in {"reading", "noticed"} \/ ConnOf[t] \in overtaken

\* A closed connection keeps no SSH session: attach, SFTP and login calls that were
\* under way put none back, except a login that had the session out of the map
\* when connection_close looked for it.
RuntimeReleased ==
    \A c \in Conns \ overtaken :
        /\ closing[c] \in {"unmapped", "ssh", "done"} => c \notin mapped /\ ~Held(c)
        /\ closing[c] \in {"ssh", "done"} => transport[c] = "down"

\* Where the session is: in the map or out with one login while the registry knows
\* the connection and no close has passed; PTYs and the SFTP channel go with it.
SessionPlaced ==
    /\ \A c \in Conns :
        /\ registry[c] \in {"unopened", "connecting"} => c \notin mapped /\ ~Held(c)
        /\ registry[c] \in Registered /\ closing[c] \notin {"unmapped", "ssh"}
              => c \in mapped \/ Held(c)
        /\ registry[c] = "removed" /\ c \notin overtaken => c \notin mapped /\ ~Held(c)
        /\ closing[c] \in {"terminals", "ptys", "files", "unmapped", "ssh"} => registry[c] \in Registered
        /\ closing[c] = "done" => registry[c] = "removed"
        /\ c \in sftp => c \in mapped \/ Held(c)
    /\ \A t \in ptys : ConnOf[t] \in mapped \/ Held(ConnOf[t])

\* The tables of one connection agree, whatever calls overtake a close: the inductive
\* invariant behind the safety properties.
SessionInv ==
    /\ OneTalker
    /\ AttachedIsRead
    /\ PtyHasReader
    /\ RuntimeReleased
    /\ SessionPlaced

\* Gone is gone: once a connection is removed and its session is neither in the map
\* nor with a login, no call brings either of them back.
GoneStaysGone ==
    [][\A c \in Conns :
        registry[c] = "removed" =>
            /\ registry'[c] = "removed"
            /\ c \notin mapped /\ ~Held(c) => c \notin mapped' /\ ~Held(c)']_vars

\* README.md:21 promises a notice when a terminal is cut off: when the transport of a
\* connection is down, none of its terminals goes on being shown as attached.
DisconnectShows ==
    \A t \in Terms : transport[ConnOf[t]] = "down" ~> term[t] # "attached"

\* connection_manager.rs:329: the transport services are closed before the registry
\* entry is removed.  Refuted by a login that is under way: see the findings.
NoSessionAfterClose == \A c \in Conns : registry[c] = "removed" => c \notin mapped

-----------------------------------------------------------------------------
\* The instances that are checked: every call is about the one connection.
OneConnection == [k \in Logins \cup Terms \cup Files |-> CHOOSE c \in Conns : TRUE]
=============================================================================
