# Portiva: specifications, model checks and proofs

Portiva is a desktop terminal client: a Rust backend (Tauri) that opens SSH, serial,
TCP, local and WSL terminals, moves files over SFTP and to and from WSL, and keeps
profiles, settings and secrets in JSON files; and a React frontend that holds most of the
state a user sees - tabs, panes, listings, queues, an HTTP console, settings.
These TLA+ modules model the parts of both whose correctness depends on the order in
which things happen. TLC checks them on small instances; TLAPS proves the most
important properties for every value of the constants.

Paths below are relative to `src-tauri/src/` of the repository unless they begin
with `src/` (the frontend) or name a file of the repository root.

## 1. The system

### How it runs

Every frontend call is a Tauri command. Commands run concurrently (async commands on
the Tokio runtime, the others on the main thread) and share *services*: structures
with one `Mutex` per table. A command is therefore a sequence of short critical
sections with anything in between, above all with awaits of the network in between.
Besides commands there are background tasks: one worker per running transfer, one
reader per SSH PTY, TCP, serial and local terminal, a pool per network scan. They change
the same tables and tell the frontend by events.

A window of the frontend has one thread. What interleaves there are *handlers*: a
function of a React component runs up to its next `await`, and goes on when the answer
comes, with the props and state of the render it was made in (its closure), while
`setState(update)` sees the latest state. Timers, animation frames, events of the
backend and storage events of other windows come between. Nearly every hazard of the
frontend has this form: something was read before an await and is used after it.

### Inventory

| component | state | what is hard | what makes it correct | modules |
|---|---|---|---|---|
| **Transfer queue** `services/transfer_service.rs`, `commands/file_transfer.rs`, `commands/wsl_files.rs` | tasks by id, a sequence counter | a start call takes the lock twice; workers report after their last look; errors of start calls are dropped | one worker per task; slots kept; no wake-up lost; ended tasks stay ended | `TransferTasks`, `TransferQueue`, `TransferLifecycle` |
| **SSH connections** `commands/connection.rs`, `commands/terminal.rs`, `services/ssh_session_service.rs`, `services/connection_manager.rs` | five tables with five locks, readers | a login takes the session out of its table while it talks; close goes through the tables one by one | one talker; close releases all; no terminal looks alive without a reader | `SshSession` |
| **JSON stores** `utils/json_store.rs` and the stores on it | file, `.bak`, temporary file, copy in memory | errors, kills, power losses between the steps of a save | a saved version is not lost; memory shows what is on disk | `JsonStore` |
| **File copies** `services/ssh_session_service.rs` 1094-2240, `commands/wsl_files.rs` 475-808 | target, temporary, staged and backup files | overwrite by removal; two renames; calls repeated on a new channel | never half a file; nothing overwritten unasked; nothing left beside | `FileCopy` |
| **Session tabs** `src/app/usePortivaWorkspace.ts` | tabs with connection, panes, SFTP child; handlers under way | closures write back stale lists; answers after a tab is gone | one tab per session; nothing started is left without a tab | `SessionTabs` |
| **Windows and tab bar** `src/App.tsx`, `src/app/tabOrder.ts` | tabs of each window, requests between windows, the order of the bar | the five-second timer races the answer; two lists joined by a third | a session is shown in one window and never in none; the bar has what is open, in the user's order | `WindowHandover`, `AppTabs` |
| **Terminal pane** `src/features/terminal/TerminalPane.tsx`, `terminalIme.ts` | pending output, preview, xterm's writes; reported size; compositions | batching, snapshots and bounded tails; retries of resizes; timers after keys and blurs | output in order, what is missing is told; pty and pane agree; typed text sent once | `TerminalOutput`, `TerminalSize`, `TerminalIme` |
| **Terminal grid** `src/shared/terminalSplits.ts`, `SshTerminalGrid` | panes and a tree beside them | splits, closes and drags after awaits | each terminal has one place | `SplitGrid`, `Lists` |
| **Extras of terminal pages** `SshTerminalWorkspace.tsx`, `useSavedSshCommands.ts` | load of the host with its poll; commands of all windows | polls that are disposed during a request; windows writing in step; a write the storage refuses | one poll; windows agree at rest | `TerminalStatus`, `SavedCommands` |
| **Serial panel** `SerialTerminalPanel.tsx`, `services/serial_service.rs` | sessions and readers, ports, send slots, log | a reader outlives its session; timers set up anew | a closed port is let go of; timed sends go on; the log in order | `SerialPort`, `SerialSends`, `SerialLog` |
| **SFTP and transfer panels** `SimpleSftpPanel.tsx`, `FileTransferPanel.tsx`, `WslFileTransferPanel.tsx` | one listing and session for all tabs; a copy of the queue | stale paths and tabs; ends seen between two polls | work goes to its own server; the view follows the queue | `SftpBrowse`, `TransferView`, `WslPanel` |
| **HTTP console** `HttpConsolePanel.tsx`, `commands/http.rs` | a tree, drafts, the send under way, history, files | a late load, a late answer, a timer that saves, imports over what is there | requests are kept; nothing half is shown; what is shown reaches the disk | `HttpTree`, `HttpSend`, `HttpSaving`, `HttpRows`, `HttpMessage`, `HttpImport` |
| **Profiles and host trust** `ConnectionProfileDialog.tsx`, `HostTrustDialog.tsx`, `commands/profiles.rs` | question, answer, dialog | one question replaces another while it is answered | trusted is what was confirmed | `HostTrust` |
| **List of hosts** `ConnectionList.tsx` | rounds, backoffs | a silent host holds its place | the others are asked | `HostOverview` |
| **Network scanner** `NetworkScannerPanel.tsx`, `useNetworkScanner.ts`, `services/network_scan_service.rs` | draft, session, scans | events before the answer that names the scan; a start made while another is awaited | the page shows its own scan and is not busy for ever | `NetworkScan` |
| **Settings and update** `src/features/settings/`, `useAppUpdate.ts`, `commands/updater.rs` | settings shown by each window, and stored; progress | saves in a queue, rejections, slow changes, windows that know nothing of one another; attempts | what a window shows is stored, until another has saved; one attempt is counted | `SettingsSaving`, `AppUpdate` |
| TCP, Telnet, local terminals; buffers of the backend; secret store; proxy; X11; WSL discovery; shell of the application; tunnels; security helpers | | | | none, see section 7 |

Interactions. Commands call services; `connection_close` goes through terminals, PTYs,
file sessions, transfers, the SSH session and the registry, in this order, and does not
stop at an error (`collect_cleanup_result`); a transfer worker uses the SFTP channel of
the session and ends with a start call for its connection; a PTY reader appends to the
terminal table, emits events and removes its PTY; all stores share `json_store`. In the
window, `usePortivaWorkspace` owns tabs, listing, queue view and settings; `App` puts
pages beside them; panels call both with what their render showed.

`PROJECT.json` lists the components with their status, and the hazards: each place of
the code that is hard to test, with the properties that cover it or why none does.

## 2. How the models are made

One module is one part: its state as VARIABLES, one action per handler step, command,
critical section or event. The rules:

- An action ends where the code awaits, unlocks or returns. What a handler captured is in
  a record of the handler (`calls[i]`, `task[w]`, `fileCalls[i].here`, `slow[c]`), and it
  is the record, not the variable, that is used after the await where the code does so.
- Contents become numbers or model values: a version of a file, a character as its place
  in the stream, a request as a number.
- Counters that would not end are bounded in guards by a constant named `Max...`: how
  often the user acts, how often a thing fails. Widths and limits of the code are
  constants as well and have small values in the configurations.
- *History variables* say what a step did that the code does not remember (`lost`,
  `dropped`, `doubled`, `again`, `gone`, `unseated`, `refused`, `outdated`, `orphans`,
  `unmarked`, `overtaken`). They make exceptions exact: a property holds
  except for what such a step touched, and each is set only by the step named at it.
- Each module has *faulty variants* of some of its operators: a guard left out, a check after instead of before. They are not used by any
  specification; each property is known to fail under one of them, so that it does
  say something about the code.

### Which modules run together

Parts that share state are in one module (the scheduler and its connection, the five SSH
tables, the handlers of all tabs). The modules of the frontend share none: what crosses a
boundary (an event, an answer, a tab that comes or goes) is an action with any outcome the
other part can produce. Four modules therefore let *one part run in each behaviour*, with
the initial states of the others fixed; the state space is the sum of those of the parts:

| module | parts |
|---|---|
| `MCWorkspace` | `SessionTabs`, `WindowHandover`, `TerminalOutput`, `TerminalSize`, `TerminalIme`, `SplitGrid`, `AppTabs`, `TerminalStatus`, `SavedCommands`, `SerialLog`, `SftpBrowse`, `HostTrust`, `AppUpdate`, `SettingsSaving` |
| `MCHttp` | `HttpTree`, `HttpSend`, `HttpSaving`, `HttpRows`, `HttpMessage`, `HttpImport` |
| `MCPanels` | `TransferView`, `WslPanel`, `SerialPort`, `SerialSends`, `NetworkScan`, `HostOverview` |
| `MCDisk` | `JsonStore`, `FileCopy` |

`TransferView` reads a queue whose tasks move by steps of the lifecycle; that the real queue
moves so is the refinement of `TransferLifecycle`, checked by `TransferQueue_close` and proved.

## 3. The modules

### Transfers

`TransferTasks` has one operator per method of `TransferService`, each atomic because the
method holds the one lock throughout. A task is its sequence number; byte counts, names
and times are left out, except whether an item was skipped or failed (`imperfect`).

`TransferQueue` is the scheduler. Start calls of one connection do the same thing, so they
are counted by the point they reached: `entering` (before `require_sftp`), `picking`
(before `start_next_pending_for_connection`), `claims` (between that and `mark_running`).
This gap between two critical sections is why the module exists. `Limit` is the
`max_running` of the table: 3 for SFTP, 1 for WSL. A worker either moves data (`copying`)
or polls for a conflict choice (`asking`); its looks at the status are actions of their
own, and its reports come later, whatever the status has become. WSL transfers use the
same table; their connections are in `Stable`, because nothing checks a channel before a
start and no `connection_close` reaches them. `link` is how far `connection_close` is,
`sftp` whether `has_sftp` holds (`reopen_sftp` clears the channel before it opens another).
`lost` is a history variable: connections one of whose start calls ended with an error.

`TransferLifecycle` is the abstract specification: what the queue promises of one task.

`FileCopy` is "a worker moves data" in detail: one worker, one target path, `method` an
SFTP upload, an SFTP download or a WSL copy. Contents are `Mine` (complete), `Half`, or a
number per file that others put there. One action is one operation on files or one request
to the server; three requests may be carried out without an answer, and the code then
repeats the call once on a new channel or fails. An SFTP rename is refused when the name is
taken (what OpenSSH's server does); renames on a file system replace. `Kill` forgets what
only the process knew: temporary names and the backup's.

`TransferView` is the copy of the queue in the window: polled every 750 ms while a task in
it may move, read again after commands, with the retry that connects anew. `WslPanel` reads
its listings again when a task has ended. The user cancels, retries and deletes what the
panel shows, the backend decides by what the task has become: one shown as pending may be
deleted when it is completed already, and its end is then seen by nobody.

### Connections

`SshSession`: `registry`, `mapped`, `ptys`, `term`, `files` are the tables, `transport` and
`live` the connection and channels below, `reader` the PTY readers. Each call has a program
counter. `LoginTakes` removes the session from `mapped` (`take_session`), `LoginPuts` puts
it back whatever the answer (`put_session`). `connection_close` is six actions in the order
of the command. `overtaken` (history): connections whose session a close or a reader
looked for in vain because a login had it.

`SessionTabs` is the window's side: its handlers, await by await, in a number of slots
(`Calls`) that may overlap at will. `tabs` is React's state, `conns` and `terms` what
the backend has, `away` tabs of other windows, `lost` (history) what a handler that
overwrites or deletes tabs without releasing them has dropped.

`HostTrust` joins the connects of the list and of the dialog with the two halves of the
question (`pendingKnownHost` of the hook, `hostTrustRequest` of the application), and the
saved password that the dialog reads.

### Windows, bar, grid

`WindowHandover`: a window made for a session is labelled by it, so windows other than
`Main` are named by sessions. Requests and answers are in `mail`, in any order; `LetGo` is
`detachSessionTab` of the closure, which writes the list it captured. `AppTabs`: session
tabs, pages, their order, drags and the shortcuts. A tab that leaves is not always followed by
another (`unseated`, history): closing a connection looks for its SFTP tab under an id that
tab does not have, deleting a profile empties the active id, and a handler that awaited
(`leaving`) writes back the tabs of its render. `SplitGrid`: a binary tree as a function
from paths to terminals and one from paths to ratios.

### Terminals

`TerminalOutput` follows a character from the event through the two bounded tails and the
preview to xterm, which parses later and answers queries. `TerminalSize` follows a size from
the layout through `reportSize`, the queue and its retries to the pseudo terminal.
`TerminalIme` has xterm's textarea, the timers and the characters sent. `TerminalStatus`,
`SerialPort`, `SerialSends` and `SerialLog` are as their headers say. In `SavedCommands` the
storage may refuse a list; the window goes on with what it shows (`refused`, history), until
a write succeeds.

### HTTP console

`HttpTree` (tree, selection, deletion dialog, drags, the load that replaces everything),
`HttpSend` (one send with its stop, chunks, history), `HttpSaving` (the 350 ms timer, the
button, marks of unsaved requests, imports, which make none, closing and opening), `HttpRows`
(rows, the draft row and the files they name; an import over a request and the late load put
other rows there and leave the files in their table), `HttpMessage` (variables and the
message), `HttpImport` (ids, addresses, overwriting).

### Stores, settings, scanner

`JsonStore`: a file is the version in it, `Missing` or `Bad`; each action is one file
operation of `write_bytes`. `Crash` stops the process anywhere. `PowerLoss` also undoes
recent renames and removals: contents were synced before the rename, so they are there once
the name is; the directory operations since its last sync survive up to some point, in order
(what journaling file systems do). `SyncsDirectory` is what `sync_parent` does on the
platform. `harmed` records damage from outside. `SettingsSaving` has, for each window, the
queue of saves and their turns, and changes that act on the settings of an old render; the
service answers a window's calls in their order. A window of its own for a session is the
whole application again: its keys for the size of the letters save all settings as *it* shows
them, and nobody tells the others (`outdated`, history: windows that have had no answer since
another's save). In `NetworkScan` a start may be made while another is awaited, after a "no"
to a cancel that came late; the hook takes both answers (`overtaken`, history). `AppUpdate`,
`HostOverview`: see their headers.

## 4. What is checked

| run | instance | shows |
|---|---|---|
| `TransferQueue_close` (809 000 states) | 2 tasks, 1 connection that may lose its channel and close, 1 slot, 2 answers, 1 retry | `HandlersInv` (one worker per task, questions and workers agree, a running task is served unless a start call was lost), `SettledStays`, the refinement `ImplementsLifecycle` |
| `TransferQueue_live` (228 000) | 3 tasks, 2 slots, channel stays up, fairness | `SlotLimit`, `WakeUpsConserved`, `QueueLives` (pending tasks get their turn, cancelled ones stop) |
| `SshSession_calls` (904 000) | 1 connection, 2 logins, 1 terminal, 2 file sessions, fairness | `SessionInv`, `GoneStaysGone`, `DisconnectShows` |
| `Disk_work` (54 000) | 4 saves with damage; or each kind of copy with 3 files of others, fairness | `StoreSound`, `CopySound`, `AskedFirst`, `CopyEndsOrAsks` |
| `Workspace_parts` (1 731 000) | the fourteen parts, see below | one property per part: `TabsSound`, `HandedOver`, `OutputSound`, `SizeSound`, `TypingSound`, `GridSound`, `BarSound`, `OnePoll`, `SavedSound`, `LogSound`, `FilesSound`, `TrustSound`, `CountsOneAttempt`, `ShownAsStored` |
| `Http_console` (1 198 000) | the six parts, fairness | `TreeSound`, `DeletesOnlyAsked`, `SendSound`, `ShownGetsToDisk`, `RowsSound`, `MessageSound`, `ImportSound` |
| `Panels_live` (126 000) | the six panels, fairness | `ViewSound`, `EndIsReread`, `ClosedIsReleased`, `TimedSendsGoOn`, `ScanSound`, `ReachableHostIsShown` |
| `TransferQueue_stranded`, `SshSession_revived`, `JsonStore_damaged`, `FileCopy_unasked`, `AppTabs_console` | the smallest that shows it | refute what a document or comment says, section 5 |

### The bounds

Connections share nothing in either backend model, so one is enough; the interactions are
between calls about the same connection. Two tasks and one slot give every race between two
start calls, a worker and a waiting task; three tasks and two slots let slots be partly
free. Two logins show exclusion, one terminal all races of a PTY with them. Four saves reach
every combination of primary and backup with every stage. Three files of others let one be
asked about, a second appear during the copy and a third in the middle of a replacement.

In the window, two handlers under way at once (`Calls`, `MaxCalls`) and three starts let one
overtake another between any two of its awaits and a third begin in between; two sessions and
four moves let a window be made, labelled, closed and labelled again; five characters with
tails of two and three overflow both stages; grids of three panes have trees of different
shape; two rows in a message let one of the user's and one of the code's meet; two windows suffice for saved commands to answer each other; two attempts and three
clicks leave events of one attempt behind in the next; one rejected, one slow and one late
save are three changes with a load, and a second window makes the first one's settings stale;
two sessions and two pages (the console and a distribution's files) have an order, and one of
the sessions can be the other's SFTP tab;
three scans let the events of one meet the answer of the other, and a third be asked for
while a "no" was late; two hosts let one be silent. The theorems have none of these bounds.

Deadlock is not checked: every model may stop (all calls made, all tasks over, nothing more
that the bounds allow).

### Fairness

Nothing is ever assumed of the user, a server, a port or a channel.

- `TransferQueue`: start calls and insertions wait for nothing; a worker that can see a stop
  or an answer does, because its looks are driven by a timer or by every block of data; the
  worker of a running task ends (finite length, the network goes on or reports an error).
  `QueueMoves` is conditional on no start call having failed and on no task keeping the slot
  paused or waiting.
- `SshSession`: readers are scheduled; an attach goes on once the transport is down, since
  then none of its awaits lasts.
- `FileCopy`: the worker goes on unless it waits for the user: every request is answered,
  times out or finds its channel closed. Pausing only delays and is not modelled there.
- `HttpSend`, `HttpSaving`: the event loop runs timers and answers; the backend comes to a
  registered call; a server may stay silent for ever. what is shown reaches the disk if the
  panel stays open with valid drafts in the end, and unless a save failed.
- `TransferView`, `WslPanel`, `SerialSends`, `NetworkScan`, `HostOverview`: timers fire and
  local commands are answered (those of `TransferView` take a lock only); a host's request is
  ended by the timeout of the page if by nothing else (`RequestTime`).
- `SerialPort`: reader threads see their flag at the next timeout of a read; commands run.

`WF` is enough everywhere: nothing that is fair is disabled again and again by something
that need not stop, and where it is (a timer set up anew by each change) the property is
conditional on rest.

## 5. Findings

Five runs refute what a document, comment or test of the repository says:

1. *A running task nobody works on* (`TransferQueue_stranded`). Pause a task between
   `start_next_pending_for_connection` and `mark_running` and resume it: the start call has
   failed, the task stays Running and keeps its slot until it is cancelled.
2. *A session revived after close* (`SshSession_revived`). A login under way while the
   connection is closed puts its session back; no command reaches it any more.
3. *A good backup given up for a spoilt file* (`JsonStore_damaged`). `write_bytes` removes
   the backup before it knows whether the file that replaces it can be read.
4. *A file replaced unasked* (`FileCopy_unasked`). A WSL copy looks at its target once. (An
   SFTP upload looks again and asks; a download looks again and fails, so that only the
   instant before its local rename is open: `AskedFirst` therefore speaks of uploads.)
5. *Two HTTP consoles* (`AppTabs_console`). The page opens beside the window its request
   panel was moved to, against `docs/easypost_http_integration.md:102-103`.

Other behaviours that the models have because the code has them, and that the properties
name as their exceptions or their limits. They are where a reader of the code will stop:

| where | what happens |
|---|---|
| `usePortivaWorkspace.ts` 2186 | `closeConnection` writes back the list of tabs it read before its awaits; it looks for the SFTP tab it removes under another id, and what is active may then be no tab |
| 2055 | deleting a profile drops its tabs without closing their connections, and leaves none active when one of them was |
| 2576, 2625 | a split at the limit leaves its terminal attached; two closes of panes leave a dead one |
| 2734 | storing one fingerprint takes away the question about another server |
| reconnects | two at once leave the first one's connection; an SFTP tab below a reconnected one no longer finds its parent |
| 571, 3010, 3066 | another tab keeps the listing of the one before; refreshes compare the path, not the session |
| 3640, 3718 | a directory download that fails in the middle leaves tasks that are not polled; a retry deletes the old task before the new one is queued |
| 1137, 893, 429 | a setting changed before the first load saves the defaults over the store |
| `ThemeSettings.tsx` 41, `NetworkSettings.tsx` 101-155 | slow changes save the settings of their render; proxy off and on again loses its authentication |
| `App.tsx` 801, 891 | a window is taken to show a session because of its label; the answer to a move comes after its timer |
| `App.tsx` 393 | the shortcut closes the session hidden behind a page |
| 338, 391 | a window made for a session saves its own, old settings over those of the others, which are not told |
| `TerminalPane.tsx` 565, 1435 | an equal size is skipped while another is under way; a snapshot meets held output |
| `terminalIme.ts` 148 | a blur between a probe and its timer sends a DEL |
| `HttpConsolePanel.tsx` 1555-1601 | a late load replaces edits; after a failed load the default tree is saved; an edit 350 ms before closing is lost |
| 1594, 1658 | an answer clears the marks of later edits; the button saves before the load |
| 3030, 3125, 3627 | a stop before the call has left is lost; chunks are added to an entry of the history |
| 2327, 2931 | a copied request shares the file of its original |
| 2602, 2613 | an import changes requests without a mark, and until the timer has saved they are shown as if they were stored; the rows it overwrites leave their files in `formFilesRef`, as does the load at 1547 |
| `serial_service.rs` 727 | the reader of an older session removes the newer one of the same terminal |
| `SerialTerminalPanel.tsx` 612 | timed sends begin anew with every output shown |
| `useNetworkScanner.ts` 98-149 | a late "no" to a cancel resets the next scan; another can then be started beside it, and its hosts are listed under either; a stop while starting does nothing |
| `ConnectionList.tsx` 387-429 | the question for a password replaces a dialog that is being filled |
| `useSavedSshCommands.ts` 53 | two windows in step can answer each other without end; a list the storage refuses is shown and not stored |
| `WslFileTransferPanel.tsx` 290, `TransferQueue.tsx` 68 | a task shown as pending that has completed can be deleted, and the listing is not read again for it |
| `useAppUpdate.ts` 58-94 | an event after the error leaves the button disabled |
| `commands/terminal.rs` 189 | `terminal_attach` and `file_transfer_open` leave their entry when the last call fails |

## 6. What is proved

All theorems are `Spec => ...`, for any values of the constants that satisfy the named
assumptions of the modules, which TLC evaluates in the runs.

- **TransferQueueProofs.** `TypeCorrect`. `HandlersSafe`: the inductive invariant
  `HandlersInv`. `OneHandler` alone is not inductive: that `StartNextPending` adds the first
  handler needs that a pending task has none, that a worker which leaves a question is the
  only one needs `QuestionHasAsker`, that a fresh number is unused needs `NewIsAbsent`. All
  conjuncts speak of one task (lemma `ByTask`), so the proof goes by action and by task.
  `SlotsSafe` follows with the cardinality of `ActiveOf`. `WakeUpsSafe`: every step is a
  payment. It adds one task to the startable ones, or gives a slot back, only where it adds
  a waker or where a handler of the task becomes one (`Pays`); `HandlersInv` is needed for
  the handlers. `SettledSafe` is the action property, `Refinement` the implementation of
  `TransferLifecycle`.
- **DiskProofs.** For `JsonStore`: `StoreTypeCorrect`; `NothingLost` from `StoreInv`, which says
  at every stage of a save what is in each file *and in each state of the directory a power
  loss may fall back to*; `SoundStore` adds that memory shows what a load would find.
  For `FileCopy`: `TypeCorrect`, `TargetComplete`, `NothingLeft`, `OldOrNew`, `HonestReport`
  and the four together (`SoundCopies`), and the action property `UploadsAsk`: from `CopyInv`
  (which temporary files can be there in which stage; in the middle of a replacement the file
  asked about is not at the target, without which restoring the backup could overwrite it)
  and `EndsInv` (what each way out may report).
- **TabsProofs.** `TabsAreSound`. A handler writes tabs back, closes terminals and splits panes
  from what it captured before its awaits, so that what is shown says too little to be
  inductive. `TabsInv` is about everything that is known of a tab, by the window, by other
  windows or by a handler: however old a copy is, it agrees with the others on which tab a
  connection is of and which kind that tab is (`FramesFit`), and on the connection of a pane
  (`PanesFit`); a connection that a handler has just opened is in no copy yet (`ReservedOnce`),
  so that showing it makes no second tab. With these, `Apart` (no two tabs share an id or a
  connection) and `OwnedOrLost` (what is open has an owner) pass through every step.
- **WorkspaceProofs.** What windows show.
  `HandoverIsSound`: that a session is shown in one window is not inductive, since while it
  moves it may be shown in none, or in one that is about to let it go. The strengthening
  counts *claims*: a tab that stays, a call that looks for a window, a window that loads the
  session, a request or refusal on its way, a tab whose answer was lost. Each session has at
  most one claim (`ClaimsInv`), and every action passes it on.
  `OutputIsSound`: `OutputInv` follows a character through held output, the snapshot of the
  tab, the pane's pending output, xterm's writes and the screen. Every one is somewhere or
  told to be missing (`Accounted`); each stage is in order and wholly before the next
  (`InTurn`), where a snapshot that a render has still to take counts as a stage of its own;
  and what was answered lies before what is to be parsed (`Replied`). A lemma on the way,
  `ChunkIsTaken`, says that the pane takes every chunk it is given for new output: the branch
  of `TerminalPane` that treats a chunk as a tail cut off, and drops, is never reached.
  `GridIsSound`: a layout is a set of paths, and that they are the leaves of one tree is a
  property of pairs: none is below another, and where a leaf turns off, another goes the other
  way (`TreeOK`). Splitting adds two steps to one path and removing takes one step out of all
  paths of the other half (`Lifted`); lemma `Depth` counts for each turn of a path a leaf of
  its own, which is why four panes are never nested deeper than the reader of stored layouts
  accepts. With a layout that no longer matches, the default one for one to four panes is shown.
  `BarIsSound`, with its action property: that of two tabs one is before the other is a relation
  of pairs (`Before`), total in a list that has each tab once (`BeforeIsAnOrder`), so that
  filtering, joining and moving (`ThoseOnce`, `JoinedOnce`, `MoveTabKeeps`) need only keep what
  is before what. The order that is kept has exactly the tabs that are open (`AppInv`), also
  where no effect runs after a drop and where a handler writes back the tabs it was called with
  (`leaving.seen` was of tabs that had been opened, each once); and what is active is a tab of
  the bar, some session whenever there is one, unless what was active went unseated (`Seated`).
- **TerminalProofs.** What a pane does, and the tables behind it.
  `PollGoesOn`: a poll that is disposed during a request leaves the new one a timer; for a
  distribution, whose answers set none, the interval must be known to stay (`StatusInv`).
  `SizeIsSound`: the queue of requests is in the order of its revisions, each size behind its
  nudge (`InOrder`), the newest is for what counts as requested (`NewestCounts`), and when
  nothing will call `reportSize` any more, all that is owed was asked for (`AsksForAll`).
  `TypingIsSound`: which composition or probe still has what to send (`Turns`, `Unsent`): the
  characters behind its start have not been sent, so that sending them sends nothing twice.
  For `SshSession`: `TypeCorrect`; `SessionsSafe`, the inductive `SessionInv`, and its
  parts `ClosedIsReleased`, `NoFrozenTerminal`, `NoDeadPty`: who has the session is inductive
  together with what is released, and a reader that ends removes its PTY only where the
  session is. `GoneForGood` is the action property.
- **HttpProofs.** `RowsAreSound`: the ids of files that rows name were given (`IdsGiven`), and
  each is named in one place, unless a copy of a request named it too (`NamedOnce`); otherwise
  removing one row's file could take another's. Rows that come by an import or from the store
  name no file (`TextRowsNameNone`), so that a request taken over disturbs nothing but its own
  files, which stay as `orphans` (`TakenOverKeeps`).
  `WhatIsSavedIsSound` is the safety of `ShownGetsToDisk` (`UnmarkedIsSaved`,
  `NeverSavesInvalid`): a request that is shown without a mark must be on the disk *and* in
  every save under way (`StaysSaved`), and so it must be when an answer to a save of it as it is
  shown has still to take the mark (`Tracked`); before the disk is read, its reading is the last
  call of all unless the button was pressed (`ReadIsLast`). Requests an import has put there are
  excepted until they are edited or the panel is opened again (`unmarked`).
  `MessageIsSound` needs no more than types as an invariant, since a message is built in one
  step; the argument is about what the filters of its rows keep. `SaidOnce`: two rows that
  name the type come from two rows of the user, or from the user and the authentication, since
  the code adds its own only where it finds none. `SentResolves`: what `TextsOf` looks at
  covers what is sent, row by row.
  `TreeIsSound`: that a request is at one place is a relation of pairs, of the requests of a
  list, the projects of a workspace and the workspaces of a tree (`Forest`); adding to a list,
  filtering it, putting something into it or changing one of its elements keeps pairs related
  (`InsertedElement`, `KeptPairs`, `ReplacedElement`), and every action is one of these at one
  level. `OnlyAskedIsDeleted`: what is deleted is found again by its id when the dialog is
  confirmed, so it must be where the dialog said or nowhere (`AskedIsThere`). A load may replace
  the tree under an open dialog; that it then meets no stored request needs that what was made
  before the load has ids of its own. Both take for granted that what is stored was saved by
  this panel, with each request at one place (`TreeAssumption`).
  `WholeAnswersStay`: no piece of an answer stays on the screen when nothing is sent, whichever
  of the ways a send ends comes first (`NoPartialWhenIdle`, which is inductive as it stands).
  `ImportIsSound`, two invariants and two action properties. The ids an import gives are counted on
  from project to project (`IdsAreGiven`), so that those of a document are its own (`IdsWithin`)
  and no two agree (`IdsDistinct`, a relation of pairs like the one of the tree). What the dialog
  makes of the current workspace comes of it (`ComesOf`): the same requests at the same places,
  then only such whose address was not there. That a project put beside another of its name gets
  one that is new needs that among more numbers than projects there is a free one (`UniqueName`).
  And what was shared comes back project by project, with their names and addresses
  (`ProjectsBrought`).
- **PanelProofs.** `TrustIsSound`, two action properties. What is being stored was
  confirmed for its server, because the question is shown only when its two halves agree; no
  question that comes meanwhile touches it. A typed password is known to be (`edited`), through
  every change of the dialog.
  `ShownIsStored`: of each window, the newest save is the last that waits or, when none waits, the
  only one at the service (`NewestIsLast`): the answer that is shown is the last to come, and a
  rejected one is followed by a read. A window at rest therefore shows what is stored, if the
  last to save was itself or it has read since (`ShownAt`).
  `ProgressIsOfOneAttempt`: the events on their way are runs of parts, each no longer than an
  update, the first one continuing what is shown and the last one not beyond what the attempt
  has; after the end of a download comes a start.
  `FilesAreSound`: what a handler kept of its SFTP tab, and the session it uses, is of the server
  of its own tab or none (`OfOwnServer`), also after the tab was given a new session.
  `SavedIsSound`: a window that does not show what is stored has still to write or to read, or was
  refused (`AgreeInv`), and every list has ids of its own, all given by the changes so far,
  also when what is read back is in part damaged (`ApartInv`).
  `LogIsSound`: all times are at most the last one given, which a clear keeps (`LogIsInOrder`);
  and the binary search for the rows in sight, whose proof follows the interval from step to
  step, ends at the row above the edge (`SearchFinds`, `InSightIsRendered`), for any heights.
  `EndsAreSeenOnce`: answers come in the order in which the queue was read, so that a task which
  one of them shows as ended, the later ones show as ended too (`RepliesInOrder`); once its end
  was seen, every answer still on its way agrees (`EndIsSeen`), and the listing is not
  refreshed for it again.
  `ScanIsShown`: unless a start was made while another was awaited or followed (`overtaken`), one
  answer is awaited at most (`AwaitedInv`), and a host that was scanned is shown, kept or on its
  way, while the start is awaited (`StartInv`) and while the scan is followed (`ActiveInv`); the events of one scan come in turn
  and none after its end (`InTurn`). So what was kept when the answer comes is the first hosts
  of the scan without a gap (`RisingOnto`, `StartedStep`), and each later event is of the next
  host. That no scan is refused but for its network needs that what the page checks implies what
  the service checks.
- **ListLemmas.** A least number of a set exists (from the library's well-founded orders);
  hence what passes from each number to the next holds of all (`UpToNumber`), and a function
  given by steps exists (`RecursionInto`). The filter of lists, `Kept`, is such a function:
  `KeptIsPart` and `KeptElements` say that it keeps all it should, nothing else, and in order.
  The lists of the saved commands, of the message's rows, of the panes, of the console's tree,
  of the events of a scan and of the tabs use it.

The inductive invariants of this section were checked by TLC, on instances of the kind of
section 4, before they were proved. Some models were changed for the proofs. The history of
`WindowHandover` that says which sessions the code dropped excused too much: a session is
lost by a closing window only when no other shows or loads it. `TerminalSize` removes a
request from its queue by position. `HttpRows` and `SessionTabs` have their unions in
parentheses, because the model checker's parser and the prover's read them differently, and
so has `HttpMessage`. Filters, sums and the default layouts of `SavedCommands`, `HttpMessage`,
`SerialLog`, `SplitGrid`, `HttpTree`, `HttpImport`, `NetworkScan` and `AppTabs` are functions that can be expanded step
by step, `TransferView` says that its bounds are numbers, and
`HttpTree` says in pairs that a request is at one place (`EachAtOnePlace`);
`SplitGrid` assumes one to four panes at most, for which the code has its default layouts.

All liveness is only model-checked, being out of the provers' reach: `QueueLives`,
`DisconnectShows`, `CopyEndsOrAsks`, `SendSound`'s stop, `ScanSound`'s end, `ShownGetsToDisk`'s
`StoreCatchesUp` and the properties of `Panels_live`. No module declares a recursive operator;
where the code walks a list, the model has a recursive function.

## 7. Not modelled, and why

- **TCP, Telnet and local terminals.** The same insertion and close races as the serial
  reader's, which `SerialPort` models; the Telnet codec is a function over bytes.
- **Output buffers of the backend** (`terminal_service.rs` 168-314): what `TerminalOutput`
  needs of them - a tail of the output and events in order - is taken as it is.
- **Secret store**: two steps over a file and the keyring of the platform, which is opaque.
- **Directory plans of transfers**: many copies of the kind of `FileCopy`, with totals.
- **The SFTP lock**: a paused transfer keeps the channel's lock, so that listings wait; this
  delays and changes no state.
- **Proxy handshake, X11 relay, WSL discovery, start-up, clipboard, fonts, tunnels, protocol
  tables, security helpers**: formats and I/O of other programs, calls of the platform, or
  tables without transitions.
- **In the window**: searching, selecting, highlighting, themes, key bindings, sorting, formatting
  of answers, curl import, properties dialogs: rendering or pure text.

Next would come the secret store with the keyring as an abstract table, `SessionTabs` composed
with `SshSession` (late answers of the window against a close in the backend), and a serial
terminal opened again while the reader of its older session still runs.

## 8. Running

    tlc -workers 2 -config TransferQueue_close.cfg MCTransferQueue
    tlapm TransferQueueProofs.tla

and likewise for the other configurations (module in `PROJECT.json`) and proof modules.
`Workspace_parts` and `Panels_live` take three minutes, `TransferQueue_live` and `Http_console` about
two, the others one or less; `HttpProofs` is proved in eight, the other proofs in less.
