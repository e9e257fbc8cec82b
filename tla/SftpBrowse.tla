----------------------------- MODULE SftpBrowse -----------------------------
(***************************************************************************)
(* The remote listing of the window: one path, one list of entries and one *)
(* file-transfer session, shared by the SFTP panel beside an SSH terminal  *)
(* (SimpleSftpPanel) and by the SFTP tabs (FileTransferPanel), and the     *)
(* calls of usePortivaWorkspace that read it and write it.                 *)
(*                                                                         *)
(* Every handler keeps the tab, the session, the path and the tab's own    *)
(* session of the render it was made in (React closures), and asks the     *)
(* backend up to three times: for a session, for the work, for a listing.  *)
(* A session is known by the server it is of.                              *)
(***************************************************************************)
EXTENDS Integers, FiniteSets

CONSTANTS
    Servers,        \* the SSH connections with a terminal tab each
    Paths, RootPath, \* the remote directories, and remoteRootPath
    EntryNames,     \* what a directory may hold
    MaxCalls,       \* how many handlers run at a time
    MaxClicks       \* how many are started at all

ASSUME RemoteRootIsAPath == RootPath \in Paths


Nobody == 0

VARIABLES
    fileTabs,   \* the servers with an SFTP tab
    bound,      \* fileTransferSession of each server's SFTP tab
    shownTab,   \* activeSessionTab
    session,    \* activeFileTransferSession
    remotePath,
    listing,    \* remoteEntries, with the server and path they were read from
    selected,   \* the names selected in the panel
    deleting,   \* deleteConfirmEntries
    created,    \* pendingCreatedDirectory
    editing,    \* editingRemotePath
    autoLoaded, \* autoLoadedConnectionRef of the panel beside the terminal
    fileCalls,      \* the handlers that wait for the backend
    clicks

browseVars == <<fileTabs, bound, shownTab, session, remotePath, listing, selected,
                deleting, created, editing, autoLoaded, fileCalls, clicks>>

TerminalTab(s) == [server |-> s, kind |-> "terminal"]
FilesTab(s) == [server |-> s, kind |-> "files"]

NoListing == [server |-> Nobody, path |-> RootPath, names |-> {}]
NoNames == {}
NotCreated == [name |-> Nobody, path |-> RootPath]

\* What a handler keeps of the render it was made in.
Here == [tab |-> shownTab, session |-> session, path |-> remotePath,
         bound |-> IF shownTab.kind = "files" THEN bound[shownTab.server] ELSE Nobody]

NoCall == [kind |-> "none", step |-> "idle", here |-> [tab |-> TerminalTab(Nobody),
           session |-> Nobody, path |-> RootPath, bound |-> Nobody],
           target |-> RootPath, on |-> Nobody]

Slots == 1 .. MaxCalls
Free(i) == fileCalls[i] = NoCall /\ \A j \in Slots : j < i => fileCalls[j] # NoCall

BrowseInit ==
    /\ fileTabs = {}
    /\ bound = [s \in Servers |-> Nobody]
    /\ shownTab = [server |-> Nobody, kind |-> "terminal"]
    /\ session = Nobody
    /\ remotePath = RootPath
    /\ listing = NoListing
    /\ selected = NoNames /\ deleting = NoNames
    /\ created = NotCreated /\ editing = Nobody
    /\ autoLoaded = Nobody
    /\ fileCalls = [i \in Slots |-> NoCall]
    /\ clicks = 0

-----------------------------------------------------------------------------
(* Faulty variants of what follows, for the properties to tell apart.       *)

\* The listing is not compared with the path again when it has arrived.
StillThereOnce(c) == c.kind = "visible" => TRUE

-----------------------------------------------------------------------------
(* ensureFileTransferSession, from what the handler keeps.                  *)

\* The session the handler can use at once: the SFTP tab's own, or the one at
\* hand if it is of the tab's connection; otherwise one has to be opened.
Ensured(at) ==
    IF at.bound # Nobody THEN at.bound
    ELSE IF at.session = at.tab.server THEN at.session ELSE Nobody

\* The call c goes on to the step next, with a session or to open one.
WithSession(c, next) ==
    IF Ensured(c.here) = Nobody
    THEN [c EXCEPT !.step = IF next = "list" THEN "open-list" ELSE "open-act", !.on = Nobody]
    ELSE [c EXCEPT !.step = next, !.on = Ensured(c.here)]

\* The SFTP tab's own session is made the one at hand.
SessionAfter(at, now) == IF at.bound # Nobody /\ at.session # at.bound THEN at.bound ELSE now

FirstStep(kind) == IF kind \in {"refresh", "visible", "open-tab"} THEN "list" ELSE "act"

BeginCall(i, kind, target) ==
    LET c == WithSession([kind |-> kind, step |-> "idle", here |-> Here, target |-> target,
                          on |-> Nobody], FirstStep(kind))
    IN  /\ Free(i)
        /\ clicks < MaxClicks
        /\ clicks' = clicks + 1
        /\ fileCalls' = [fileCalls EXCEPT ![i] = c]
        /\ session' = SessionAfter(Here, session)

\* The effects of the panel after a render: a new path drops the selection,
\* a new list keeps of it what is still there, and a folder just created in the
\* directory shown is offered for renaming.
ListingRendered ==
    LET there == {n \in selected : n \in listing'.names}
        found == created # NotCreated /\ created.path = remotePath' /\ created.name \in listing'.names
    IN  /\ selected' = IF found THEN {created.name}
                       ELSE IF remotePath' # remotePath THEN NoNames ELSE there
        /\ created' = IF found THEN NotCreated ELSE created
        /\ editing' = IF found THEN created.name ELSE editing

Unopened == UNCHANGED <<fileTabs, bound>>
PanelSame == UNCHANGED <<deleting, created, editing, autoLoaded>>
ListSame == UNCHANGED <<remotePath, listing, selected>>

-----------------------------------------------------------------------------
(* What the user does.                                                      *)

\* refreshRemoteFiles: the refresh button, a directory opened, the parent, a
\* path typed or the directory of the terminal.
RefreshListing(i) ==
    /\ shownTab.server # Nobody
    /\ \E p \in Paths : BeginCall(i, "refresh", p)
    /\ Unopened /\ PanelSame /\ ListSame /\ UNCHANGED shownTab

\* createDirectoryInline and createRemoteDirectory, in the directory shown or
\* in the one selected.
CreateDirectory(i) ==
    /\ shownTab.server # Nobody
    /\ \E p \in Paths, n \in EntryNames \ listing.names :
         /\ BeginCall(i, "mkdir", p)
         /\ created' = [name |-> n, path |-> p]
    /\ Unopened /\ ListSame /\ UNCHANGED <<shownTab, deleting, editing, autoLoaded>>

Select ==
    /\ \E ns \in SUBSET listing.names : ns # selected /\ selected' = ns
    /\ Unopened /\ PanelSame
    /\ UNCHANGED <<shownTab, session, remotePath, listing, fileCalls, clicks>>

\* commitInlineRename and renameRemoteEntry.
Rename(i) ==
    /\ editing \in listing.names
    /\ editing' = Nobody
    /\ BeginCall(i, "rename", remotePath)
    /\ Unopened /\ ListSame /\ UNCHANGED <<shownTab, deleting, created, autoLoaded>>

StartRename ==
    /\ \E n \in listing.names : editing' = n /\ selected' = {n}
    /\ editing = Nobody
    /\ Unopened /\ UNCHANGED <<shownTab, session, remotePath, listing, deleting, created, autoLoaded,
                               fileCalls, clicks>>

AskDelete ==
    /\ selected # NoNames /\ deleting = NoNames
    /\ deleting' = selected
    /\ Unopened /\ UNCHANGED <<shownTab, session, remotePath, listing, selected, created, editing,
                               autoLoaded, fileCalls, clicks>>

\* confirmDeleteRemoteEntry and removeRemoteEntries.
ConfirmDelete(i) ==
    /\ deleting # NoNames /\ deleting' = NoNames
    /\ BeginCall(i, "remove", remotePath)
    /\ Unopened /\ ListSame /\ UNCHANGED <<shownTab, created, editing, autoLoaded>>

CancelDelete ==
    /\ deleting # NoNames /\ deleting' = NoNames
    /\ Unopened /\ ListSame /\ UNCHANGED <<shownTab, session, created, editing, autoLoaded, fileCalls, clicks>>

\* uploadLocalPaths: files dropped on the listing.
Upload(i) ==
    /\ shownTab.server # Nobody
    /\ BeginCall(i, "upload", remotePath)
    /\ Unopened /\ PanelSame /\ ListSame /\ UNCHANGED shownTab

\* An upload into the directory shown has ended: refreshVisibleRemoteFiles.
UploadEnds(i) ==
    /\ session # Nobody /\ shownTab.server # Nobody
    /\ BeginCall(i, "visible", remotePath)
    /\ Unopened /\ PanelSame /\ ListSame /\ UNCHANGED shownTab

-----------------------------------------------------------------------------
(* Tabs.                                                                    *)

ClearView ==
    /\ session' = Nobody /\ remotePath' = RootPath /\ listing' = NoListing

\* activateSessionTab, and the effect by which the panel beside a terminal reads
\* the listing of a connection it has not read yet.
SwitchTab(i) ==
    \E t \in {TerminalTab(s) : s \in Servers} \cup {FilesTab(s) : s \in fileTabs} :
      /\ t # shownTab
      /\ shownTab' = t
      /\ IF t.kind = "files" /\ bound[t.server] # Nobody
         THEN session' = bound[t.server] /\ UNCHANGED <<remotePath, listing>>
         ELSE ClearView
      /\ ListingRendered
      /\ deleting' = IF t.kind = shownTab.kind THEN deleting ELSE NoNames
      /\ IF t.kind = "terminal"
         THEN /\ Free(i) /\ clicks < MaxClicks /\ clicks' = clicks + 1
              /\ autoLoaded' = t.server
              /\ fileCalls' = [fileCalls EXCEPT ![i] =
                   [kind |-> "refresh", step |-> "open-list", target |-> RootPath, on |-> Nobody,
                    here |-> [tab |-> t, session |-> Nobody, path |-> RootPath, bound |-> Nobody]]]
         ELSE autoLoaded' = Nobody /\ UNCHANGED <<fileCalls, clicks>>
      /\ Unopened

\* openFileTransferTab with a tab of the connection there: it is shown, at its
\* path or at the root, and its listing is read.
ShowFileTab(i) ==
    LET s == shownTab.server
        t == FilesTab(s)
        path == IF shownTab = t THEN remotePath ELSE RootPath
    IN  /\ s \in fileTabs /\ bound[s] # Nobody
        /\ Free(i) /\ clicks < MaxClicks /\ clicks' = clicks + 1
        /\ shownTab' = t /\ session' = bound[s] /\ remotePath' = path
        /\ fileCalls' = [fileCalls EXCEPT ![i] =
             [kind |-> "open-tab", step |-> "list", target |-> path, on |-> bound[s],
              here |-> [tab |-> t, session |-> bound[s], path |-> path, bound |-> bound[s]]]]
        /\ listing' = listing
        /\ ListingRendered
        /\ deleting' = IF shownTab = t THEN deleting ELSE NoNames
        /\ autoLoaded' = Nobody
        /\ Unopened

\* openFileTransferTab without one: a session first.
OpenFileTab(i) ==
    /\ shownTab.kind = "terminal" /\ shownTab.server \in Servers \ fileTabs
    /\ Free(i) /\ clicks < MaxClicks /\ clicks' = clicks + 1
    /\ \A j \in Slots : fileCalls[j].kind # "open-tab"
    /\ fileCalls' = [fileCalls EXCEPT ![i] = [kind |-> "open-tab", step |-> "open-list", target |-> RootPath,
                                      on |-> Nobody, here |-> Here]]
    /\ Unopened /\ PanelSame /\ ListSame /\ UNCHANGED <<shownTab, session>>

-----------------------------------------------------------------------------
(* What the backend answers.                                                *)

CallGoesOn(i, c) == fileCalls' = [fileCalls EXCEPT ![i] = c]

Opening(c) == c.step \in {"open-list", "open-act"}
StepOpened(c) == IF c.step = "open-act" THEN "act" ELSE "list"

\* fileTransferOpen has answered: the session is the one at hand, whatever tab
\* is shown by now, and the SFTP tab keeps it.
SessionOpens(i) ==
    LET c == fileCalls[i]
        s == c.here.tab.server
    IN  /\ Opening(c)
        /\ CallGoesOn(i, [c EXCEPT !.step = StepOpened(c), !.on = s])
        /\ session' = s
        /\ IF c.kind = "open-tab"
           THEN /\ fileTabs' = fileTabs \cup {s} /\ bound' = [bound EXCEPT ![s] = s]
                /\ shownTab' = FilesTab(s) /\ remotePath' = RootPath /\ autoLoaded' = Nobody
                /\ listing' = listing /\ ListingRendered
                /\ deleting' = NoNames
           ELSE /\ bound' = IF c.here.tab.kind = "files" THEN [bound EXCEPT ![s] = s] ELSE bound
                /\ PanelSame /\ ListSame /\ UNCHANGED <<fileTabs, shownTab>>
        /\ UNCHANGED clicks

\* The directory was made, the entry renamed, the entries removed as far as
\* they could be; then the listing is read again, with a session as at first.
WorkDone(i) ==
    LET c == fileCalls[i]
    IN  /\ c.step = "act"
        /\ CallGoesOn(i, IF c.kind = "upload" THEN NoCall ELSE WithSession(c, "list"))
        /\ session' = IF c.kind = "upload" THEN session ELSE SessionAfter(c.here, session)
        /\ selected' = IF c.kind \in {"rename", "remove"} THEN NoNames ELSE selected
        /\ Unopened /\ PanelSame /\ UNCHANGED <<shownTab, remotePath, listing, clicks>>

\* refreshVisibleRemoteFiles compares the path shown with its own once more.
StillThere(c) == c.kind = "visible" => remotePath = c.target

\* A listing arrives: a refresh shows it with its path; the reading after an
\* upload and the one of openFileTransferTab only replace the entries.
Listed(i) ==
    LET c == fileCalls[i]
    IN  /\ c.step = "list"
        /\ CallGoesOn(i, NoCall)
        /\ IF StillThere(c)
           THEN \E ns \in SUBSET EntryNames :
                  /\ listing' = [server |-> c.on, path |-> c.target, names |-> ns]
                  /\ remotePath' = IF c.kind \in {"visible", "open-tab"} THEN remotePath ELSE c.target
                  /\ ListingRendered
           ELSE ListSame /\ UNCHANGED <<created, editing>>
        /\ Unopened /\ UNCHANGED <<shownTab, session, deleting, autoLoaded, clicks>>

\* A call is refused: nothing but a message. createDirectoryInline forgets the
\* folder it was about.
CallRefused(i) ==
    LET c == fileCalls[i]
    IN  /\ c # NoCall /\ c.step # "reconnect"
        /\ CallGoesOn(i, NoCall)
        /\ created' = IF c.kind = "mkdir" /\ c.step # "list" THEN NotCreated ELSE created
        /\ Unopened /\ ListSame /\ UNCHANGED <<shownTab, session, deleting, editing, autoLoaded, clicks>>

\* The connection is gone: beside a terminal the session at hand is given up;
\* an SFTP tab is disconnected and connects anew.
ConnectionLost(i) ==
    LET c == fileCalls[i]
        s == c.here.tab.server
    IN  /\ c.kind \notin {"visible", "open-tab"} /\ c.step \in {"list", "open-list"}
        /\ IF c.here.tab.kind = "terminal"
           THEN /\ CallGoesOn(i, NoCall) /\ session' = Nobody
                /\ ListSame /\ UNCHANGED bound
           ELSE /\ CallGoesOn(i, [c EXCEPT !.step = "reconnect", !.on = Nobody])
                /\ bound' = [bound EXCEPT ![s] = Nobody]
                /\ session' = IF session = s THEN Nobody ELSE session
                /\ listing' = NoListing /\ selected' = NoNames
                /\ UNCHANGED remotePath
        /\ PanelSame /\ UNCHANGED <<fileTabs, shownTab, clicks>>

\* reconnectActiveFileTransfer: the SFTP tab is shown with its new session and
\* with the listing that was asked for, whichever tab is shown by now.
Reconnected(i) ==
    LET c == fileCalls[i]
        s == c.here.tab.server
    IN  /\ c.step = "reconnect"
        /\ CallGoesOn(i, NoCall)
        /\ \E ns \in SUBSET EntryNames :
             listing' = [server |-> s, path |-> c.target, names |-> ns]
        /\ bound' = [bound EXCEPT ![s] = s]
        /\ session' = s /\ shownTab' = FilesTab(s) /\ remotePath' = c.target
        /\ autoLoaded' = Nobody /\ deleting' = IF shownTab.kind = "files" THEN deleting ELSE NoNames
        /\ ListingRendered
        /\ UNCHANGED <<fileTabs, clicks>>

ReconnectFails(i) ==
    /\ fileCalls[i].step = "reconnect"
    /\ CallGoesOn(i, NoCall)
    /\ Unopened /\ PanelSame /\ ListSame /\ UNCHANGED <<shownTab, session, clicks>>

BrowseNext ==
    \/ Select \/ StartRename \/ AskDelete \/ CancelDelete
    \/ \E i \in Slots :
         \/ RefreshListing(i) \/ CreateDirectory(i) \/ Rename(i) \/ ConfirmDelete(i) \/ Upload(i)
         \/ UploadEnds(i) \/ SwitchTab(i) \/ ShowFileTab(i) \/ OpenFileTab(i)
         \/ SessionOpens(i) \/ WorkDone(i) \/ Listed(i) \/ CallRefused(i)
         \/ ConnectionLost(i) \/ Reconnected(i) \/ ReconnectFails(i)

BrowseSpec == BrowseInit /\ [][BrowseNext]_browseVars

-----------------------------------------------------------------------------
(* Properties.                                                              *)

\* Whatever a handler asks for, it asks of the server whose tab was shown when
\* the user asked, also when another handler's session has arrived in between
\* (ensureFileTransferSession).
SentToOwnServer == \A i \in Slots : fileCalls[i].on # Nobody => fileCalls[i].on = fileCalls[i].here.tab.server

\* The listing a refresh puts on the screen is the one of the path on the
\* screen, however many are under way; only openFileTransferTab, which sets the
\* path before it reads, may show another (refreshRemoteFiles,
\* refreshVisibleRemoteFiles).
RefreshShowsItsPath ==
    [][(/\ listing' # listing /\ listing' # NoListing
        /\ \A i \in Slots : fileCalls[i].kind = "open-tab" => fileCalls'[i] = fileCalls[i])
       => listing'.path = remotePath']_browseVars

\* What is asked of a server is asked of the one the tab is of, and what a refresh shows
\* is what it asked for.
FilesSound == []SentToOwnServer /\ RefreshShowsItsPath
=============================================================================
