-------------------------------- MODULE AppUpdate --------------------------------
(***************************************************************************)
(* The update of the application: the button of the settings page          *)
(* (useAppUpdate.ts, ApplicationSettings) and the commands behind it       *)
(* (updater.rs), which download in a few attempts and then install.        *)
(*                                                                         *)
(* Progress is told by events, in order; the answer of a command comes     *)
(* apart from them.  Only the main window has the page.                    *)
(***************************************************************************)
EXTENDS Naturals, Sequences

CONSTANTS Attempts,   \* UPDATE_DOWNLOAD_ATTEMPTS
          UpdateSize, \* parts of an update
          MaxUpdates  \* clicks on the button

ASSUME AppUpdateAssumption ==
    Attempts \in Nat \ {0} /\ UpdateSize \in Nat \ {0} /\ MaxUpdates \in Nat

VARIABLES
    phase,      \* state.phase
    version,    \* state.version is known
    available,  \* availableUpdateRef
    operation,  \* operationRef
    attempt,    \* state.attempt, 0 for none
    downloaded, \* downloadedBytesRef
    total,      \* totalBytesRef, 0 for none
    waiting,    \* UpdateService: an update is pending
    download,   \* the download: where it is, its attempt, the parts it has
    answer,     \* the answer of the command, on its way
    news,       \* progress events on their way
    updates     \* clicks so far

shownVars == <<phase, version, attempt, downloaded, total>>
updateVars == <<shownVars, available, operation, waiting, download, answer, news, updates>>

NoDownload == [at |-> "none", attempt |-> 0, parts |-> 0]
BusyPhases == {"checking", "downloading", "installing"}

UpdateInit ==
    /\ phase = "idle" /\ version = FALSE /\ available = FALSE /\ operation = "none"
    /\ attempt = 0 /\ downloaded = 0 /\ total = 0 /\ waiting = FALSE
    /\ download = NoDownload /\ answer = "none" /\ news = <<>> /\ updates = 0

-----------------------------------------------------------------------------
(* Faulty variants of what follows, for the properties to tell apart.       *)

\* A new attempt goes on counting from the last one.
CountKept == downloaded

-----------------------------------------------------------------------------
(* The page.                                                                *)

\* The button: what it does depends on what is shown.
Installs == phase = "available" \/ (phase = "error" /\ version)

Click == phase \notin BusyPhases /\ updates < MaxUpdates /\ updates' = updates + 1

\* checkForUpdates
CheckForUpdates ==
    /\ Click /\ ~Installs /\ operation = "none" /\ operation' = "checking"
    /\ phase' = "checking" /\ version' = FALSE /\ attempt' = 0 /\ available' = FALSE
    /\ UNCHANGED <<downloaded, total, waiting, download, answer, news>>

\* app_update_check and its answer: none, an update, or an error, which leaves an
\* update that was pending in the service.
Checked ==
    /\ operation = "checking" /\ operation' = "none"
    /\ \/ phase' = "current" /\ waiting' = FALSE /\ UNCHANGED <<version, available>>
       \/ phase' = "available" /\ waiting' = TRUE /\ version' = TRUE /\ available' = TRUE
       \/ phase' = "error" /\ UNCHANGED <<version, available, waiting>>
    /\ UNCHANGED <<attempt, downloaded, total, download, answer, news, updates>>

\* installAvailableUpdate
InstallAvailableUpdate ==
    /\ Click /\ Installs /\ available /\ operation = "none" /\ operation' = "updating"
    /\ downloaded' = 0 /\ total' = 0 /\ phase' = "downloading"
    /\ download' = [at |-> "asked", attempt |-> 1, parts |-> 0]
    /\ UNCHANGED <<version, available, attempt, waiting, answer, news>>

\* Where an attempt counts from.
CountFromZero == 0

\* The listener.
NewsComes ==
    LET e == Head(news) IN
    /\ news # <<>> /\ news' = Tail(news)
    /\ \/ /\ e.kind = "started" /\ downloaded' = CountFromZero /\ total' = 0
          /\ attempt' = e.attempt /\ phase' = "downloading"
       \/ /\ e.kind = "progress" /\ downloaded' = downloaded + 1
          /\ total' = IF e.length # 0 THEN e.length ELSE total
          /\ UNCHANGED <<attempt, phase>>
       \/ /\ e.kind = "finished" /\ attempt' = e.attempt /\ phase' = "installing"
          /\ UNCHANGED <<downloaded, total>>
    /\ UNCHANGED <<version, available, operation, waiting, download, answer, updates>>

\* The answer: an error is shown, and an update that is installed starts the
\* application again, unless that fails.
UpdateAnswered ==
    /\ answer # "none" /\ answer' = "none"
    /\ \/ /\ operation' = "none" /\ phase' = "error"
          /\ UNCHANGED <<version, attempt, downloaded, total, available, waiting, download, news>>
       \/ /\ answer = "ok" /\ phase' = "idle" /\ operation' = "none" /\ version' = FALSE
          /\ available' = FALSE /\ attempt' = 0 /\ downloaded' = 0 /\ total' = 0
          /\ waiting' = FALSE /\ download' = NoDownload /\ news' = <<>>
    /\ UNCHANGED updates

-----------------------------------------------------------------------------
(* app_update_download_and_install                                          *)

TellNews(kind, n, length) == news' = Append(news, [kind |-> kind, attempt |-> n, length |-> length])

DownloadEnds(result) == answer' = result /\ download' = NoDownload

BeginDownload ==
    /\ download.at = "asked"
    /\ IF waiting THEN TellNews("started", 1, 0) /\ download' = [download EXCEPT !.at = "loads"]
                       /\ UNCHANGED answer
       ELSE DownloadEnds("error") /\ UNCHANGED news
    /\ UNCHANGED <<shownVars, available, operation, waiting, updates>>

DownloadPart ==
    /\ download.at = "loads" /\ download.parts < UpdateSize
    /\ download' = [download EXCEPT !.parts = @ + 1]
    /\ \E length \in {0, UpdateSize} : TellNews("progress", download.attempt, length)
    /\ UNCHANGED <<shownVars, available, operation, waiting, answer, updates>>

\* Whether a download that failed for a while is tried again.
TriesAgain == download.attempt < Attempts

\* A failure that may pass is tried again, from the beginning.
DownloadFails ==
    /\ download.at = "loads"
    /\ \/ /\ TriesAgain
          /\ download' = [download EXCEPT !.attempt = @ + 1, !.parts = 0]
          /\ TellNews("started", download.attempt + 1, 0) /\ UNCHANGED answer
       \/ DownloadEnds("error") /\ UNCHANGED news
    /\ UNCHANGED <<shownVars, available, operation, waiting, updates>>

Install ==
    /\ download.at = "loads" /\ download.parts = UpdateSize
    /\ TellNews("finished", download.attempt, UpdateSize)
    /\ DownloadEnds("ok") \/ DownloadEnds("error")
    /\ UNCHANGED <<shownVars, available, operation, waiting, updates>>

-----------------------------------------------------------------------------
UpdateService == BeginDownload \/ DownloadPart \/ DownloadFails \/ Install
UpdateAnswers == Checked \/ UpdateAnswered

UpdateNext ==
    CheckForUpdates \/ InstallAvailableUpdate \/ NewsComes \/ UpdateAnswers \/ UpdateService

UpdateSpec == UpdateInit /\ [][UpdateNext]_updateVars

\* The progress that is shown counts the parts of one attempt, also when attempts
\* follow each other or the user tries again before all events have come.
CountsOneAttempt == downloaded <= UpdateSize
=============================================================================
