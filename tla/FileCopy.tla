------------------------------ MODULE FileCopy ------------------------------
(***************************************************************************)
(* One file transfer as its worker carries it out: an SFTP upload          *)
(* (upload_file_with_task_conflict and upload_file_with_sftp), an SFTP     *)
(* download (download_file_with_sftp) or a WSL copy (copy_wsl_task), over  *)
(* the files at and beside the target.  Errors, a cancel, the loss of the  *)
(* SFTP channel and the end of the process can come at every step, and     *)
(* others may put a file at the target or take theirs away.                *)
(*                                                                         *)
(* The file moved is Mine, or Half as long as it is not complete; a file   *)
(* that others put at the target is a number, each a new one.              *)
(***************************************************************************)
EXTENDS Integers

CONSTANTS Methods,      \* the kinds of transfer: "upload", "download", "wsl"
          MaxOthers     \* bound: files that others put at the target

ASSUME CopyAssumption == Methods \subseteq {"upload", "download", "wsl"} /\ MaxOthers \in Nat

Nothing == 0
Mine    == -1
Half    == -2

VARIABLES
    method,     \* the kind of this transfer
    target,     \* the file at the target's path
    part,       \* the temporary file the copy writes to
    staged,     \* WSL: the copy that will replace the target (.replace)
    backup,     \* WSL: the replaced target (.backup)
    left,       \* the files left under backup names nobody remembers
    stage,      \* where the worker is; "over" when there is none
    outcome,    \* what the call, or at the end the transfer, returns
    policy,     \* the sticky conflict policy, if the user chose one
    replace,    \* WSL: whether a staged copy is made
    created,    \* WSL: target_was_created
    retried,    \* whether the SFTP call was already repeated on a new channel
    agreed,     \* history: whether the user agreed to overwrite since the last check
    asked,      \* history: the file that check found
    placed,     \* history: whether the copy came to be at the target
    unanswered, \* history: whether the server did what it never answered
    dirty,      \* history: whether a clean-up failed or could not be made
    made,       \* the number of files others put at the target
    gone        \* those they took away

filesVars   == <<target, part, staged, backup, left>>
callVars    == <<outcome, policy, replace, created, retried>>
historyVars == <<agreed, asked, placed, unanswered, dirty>>
othersVars  == <<method, made, gone>>
vars == <<method, target, part, staged, backup, left, stage, outcome, policy, replace,
          created, retried, agreed, asked, placed, unanswered, dirty, made, gone>>

Sftp == method \in {"upload", "download"}
GoTo(from, to) == stage = from /\ stage' = to
End(from, what) == GoTo(from, "over") /\ outcome' = what

\* An error or a cancel while a temporary file is there.
GiveUp(from, what) == GoTo(from, "failing") /\ outcome' = what

\* Files of others that nobody but the transfer can have removed.
Lost == {k \in 1..made : k \notin gone \cup left \cup {target, backup}}

Init ==
    /\ method \in Methods
    /\ target = Nothing /\ part = Nothing /\ staged = Nothing /\ backup = Nothing
    /\ left = {}
    /\ stage = "over" /\ outcome = "none"
    /\ policy = "Ask" /\ replace = FALSE /\ created = FALSE /\ retried = FALSE
    /\ agreed = FALSE /\ asked = Nothing /\ placed = FALSE /\ unanswered = FALSE
    /\ dirty = FALSE
    /\ made = 0 /\ gone = {}

-----------------------------------------------------------------------------
(* Faulty variants of what follows, for the properties to tell apart.      *)

\* The answer is not looked at.
DecideAnyway(answer) ==
    /\ GoTo("asking", IF method = "upload" THEN "removing" ELSE "planning")
    /\ policy = "Ask" \/ answer = policy
    /\ policy' = IF answer \in {"OverwriteAll", "SkipAll"} THEN answer ELSE policy
    /\ replace' = (method = "wsl")
    /\ retried' = FALSE
    /\ agreed' = (agreed \/ answer \in {"Overwrite", "OverwriteAll"})
    /\ UNCHANGED <<filesVars, outcome, created, asked, placed, unanswered, dirty, othersVars>>

\* The target is removed, not renamed, to make room.
PreserveNot ==
    /\ GoTo("staged", "moved")
    /\ target # Nothing
    /\ target' = Nothing
    /\ UNCHANGED <<part, staged, backup, left, callVars, historyVars, othersVars>>

\* The repetition of a call is not remembered.
ReopenForgets ==
    /\ \/ GoTo("reopenToCopy", "opening")
       \/ GoTo("reopenToRemove", "removing")
    /\ UNCHANGED <<filesVars, callVars, historyVars, othersVars>>

-----------------------------------------------------------------------------
(* Before the copy.                                                        *)

\* A transfer starts, or is retried after it failed: only then can a staged copy that is
\* left be its own, by the name.
Begin ==
    /\ GoTo("over", IF method = "download" THEN "opening" ELSE "ready")
    /\ outcome' = "none"
    /\ policy' = "Ask" /\ replace' = FALSE /\ created' = FALSE /\ retried' = FALSE
    /\ agreed' = FALSE /\ asked' = Nothing /\ placed' = FALSE /\ unanswered' = FALSE
    /\ staged' = IF outcome = "failed" THEN staged ELSE Nothing
    /\ UNCHANGED <<target, part, backup, left, dirty, othersVars>>

\* entry_kind of the upload, target.exists() of the WSL copy.
CheckTarget ==
    /\ GoTo("ready", IF target # Nothing THEN "asking"
                     ELSE IF method = "wsl" THEN "planning" ELSE "opening")
    /\ asked' = target /\ agreed' = FALSE
    /\ retried' = FALSE
    /\ UNCHANGED <<filesVars, outcome, policy, replace, created, placed,
                   unanswered, dirty, othersVars>>

\* The answer of the user, or the sticky policy chosen before.
Decide(answer) ==
    /\ policy = "Ask" \/ answer = policy
    /\ policy' = IF answer \in {"OverwriteAll", "SkipAll"} THEN answer ELSE policy
    /\ \/ /\ answer \in {"Overwrite", "OverwriteAll"}
          /\ GoTo("asking", IF method = "upload" THEN "removing" ELSE "planning")
          /\ replace' = (method = "wsl")
          /\ agreed' = TRUE
          /\ UNCHANGED outcome
       \/ /\ answer \in {"Skip", "SkipAll"}
          /\ End("asking", "skipped")
          /\ UNCHANGED <<replace, agreed>>
    /\ retried' = FALSE
    /\ UNCHANGED <<filesVars, created, asked, placed, unanswered, dirty, othersVars>>

\* An upload makes room by removing what is there.
RemoveTarget ==
    /\ GoTo("removing", "opening")
    /\ target # Nothing
    /\ target' = Nothing
    /\ retried' = FALSE
    /\ UNCHANGED <<part, staged, backup, left, outcome, policy, replace, created,
                   historyVars, othersVars>>

\* The channel closes under the removal, or the answer is late; it may have been done.
RemovalUnanswered ==
    /\ \/ ~retried /\ GoTo("removing", "reopenToRemove") /\ UNCHANGED outcome
       \/ End("removing", "failed")
    /\ target' \in {target, Nothing}
    /\ UNCHANGED <<part, staged, backup, left, policy, replace, created, retried,
                   historyVars, othersVars>>

\* A staged copy left by an earlier transfer goes; the source is looked through; and
\* it is noted whether the place the copy will take is free.
Plan ==
    /\ GoTo("planning", "opening")
    /\ staged' = IF replace THEN Nothing ELSE staged
    /\ created' = (replace \/ target = Nothing)
    /\ UNCHANGED <<target, part, backup, left, outcome, policy, replace, retried,
                   historyVars, othersVars>>

\* The staged copy could not be removed, the source not be read, or a cancel was seen.
PlanFails ==
    /\ \E what \in {"failed", "cancelled"} : End("planning", what)
    /\ staged' \in IF replace THEN {staged, Nothing} ELSE {staged}
    /\ UNCHANGED <<target, part, backup, left, policy, replace, created, retried,
                   historyVars, othersVars>>

-----------------------------------------------------------------------------
(* The copy.                                                               *)

OpenPart ==
    /\ GoTo("opening", "copying")
    /\ Sftp => target = Nothing
    /\ part' = Half
    /\ UNCHANGED <<target, staged, backup, left, callVars, historyVars, othersVars>>

\* The target exists by now: an upload asks again, a download fails.
TargetExists ==
    /\ Sftp /\ target # Nothing
    /\ \/ method = "upload" /\ GoTo("opening", "ready") /\ UNCHANGED outcome
       \/ method = "download" /\ End("opening", "failed")
    /\ UNCHANGED <<filesVars, policy, replace, created, retried, historyVars, othersVars>>

\* The server creates the temporary file without saying so: nobody will remove it.
OpeningUnanswered ==
    /\ method = "upload" /\ target = Nothing
    /\ \E what \in {"closed", "failed"} : GiveUp("opening", what)
    /\ dirty' = TRUE
    /\ UNCHANGED <<filesVars, policy, replace, created, retried, agreed, asked, placed,
                   unanswered, othersVars>>

CopyEnds ==
    /\ GoTo("copying", IF Sftp THEN "copied" ELSE "checked")
    /\ part' = Mine
    /\ UNCHANGED <<target, staged, backup, left, callVars, historyVars, othersVars>>

RecheckTarget ==
    /\ \/ target = Nothing /\ GoTo("copied", "checked") /\ UNCHANGED outcome
       \/ /\ target # Nothing
          /\ GiveUp("copied", IF method = "upload" THEN "conflict" ELSE "failed")
    /\ UNCHANGED <<filesVars, policy, replace, created, retried, historyVars, othersVars>>

\* The temporary file takes its name.  The server refuses a name that is taken; the
\* local file system replaces what is there.
PlacePart ==
    /\ ~replace
    /\ method = "upload" => target = Nothing
    /\ End("checked", "done")
    /\ target' = part /\ part' = Nothing
    /\ placed' = TRUE
    /\ UNCHANGED <<staged, backup, left, policy, replace, created, retried, agreed,
                   asked, unanswered, dirty, othersVars>>

\* The server renames the file, but the channel closes or the time is up before it says so.
PlacingUnanswered ==
    /\ method = "upload" /\ target = Nothing
    /\ \E what \in {"closed", "failed"} : GiveUp("checked", what)
    /\ target' = part /\ part' = Nothing
    /\ placed' = TRUE /\ unanswered' = TRUE
    /\ UNCHANGED <<staged, backup, left, policy, replace, created, retried, agreed,
                   asked, dirty, othersVars>>

-----------------------------------------------------------------------------
(* replace_target_with_staged.                                             *)

StagePart ==
    /\ replace
    /\ GoTo("checked", "staged")
    /\ staged' = part /\ part' = Nothing
    /\ UNCHANGED <<target, backup, left, callVars, historyVars, othersVars>>

PreserveTarget ==
    /\ GoTo("staged", "moved")
    /\ target # Nothing
    /\ backup' = target /\ target' = Nothing
    /\ UNCHANGED <<part, staged, left, callVars, historyVars, othersVars>>

PlaceStaged ==
    /\ GoTo("moved", "placed")
    /\ target' = staged /\ staged' = Nothing
    /\ placed' = TRUE
    /\ UNCHANGED <<part, backup, left, callVars, agreed, asked, unanswered, dirty, othersVars>>

\* The original is restored, or that fails too and it stays under the backup's name.
PlacingFails ==
    /\ GoTo("moved", "unstaging")
    /\ outcome' = "failed"
    /\ \/ target' = backup /\ UNCHANGED <<left, dirty>>
       \/ left' = left \cup {backup} /\ dirty' = TRUE /\ UNCHANGED target
    /\ backup' = Nothing
    /\ UNCHANGED <<part, staged, policy, replace, created, retried, agreed, asked, placed,
                   unanswered, othersVars>>

\* A backup that cannot be removed makes the transfer fail, with its copy in place.
RemoveBackup ==
    /\ \/ End("placed", "done") /\ UNCHANGED <<left, dirty>>
       \/ End("placed", "failed") /\ left' = left \cup {backup} /\ dirty' = TRUE
    /\ backup' = Nothing
    /\ UNCHANGED <<target, part, staged, policy, replace, created, retried, agreed, asked,
                   placed, unanswered, othersVars>>

ReplaceFails ==
    /\ GoTo("staged", "unstaging")
    /\ outcome' = "failed"
    /\ UNCHANGED <<filesVars, policy, replace, created, retried, historyVars, othersVars>>

-----------------------------------------------------------------------------
(* What goes wrong, and the clean-up.                                      *)

\* An error, or a look that finds the task cancelled, before the temporary file ...
StopsEarly ==
    /\ \/ \E s \in {"ready", "asking", "removing"} : End(s, "failed")
       \/ Sftp /\ End("opening", "failed")
       \/ method = "upload" /\ End("ready", "cancelled")
       \/ End("asking", "cancelled")
    /\ UNCHANGED <<filesVars, policy, replace, created, retried, historyVars, othersVars>>

\* ... and after, or when a WSL copy has its plan and cleans up after it; an SFTP call
\* can also find its channel closed.
StopsLate ==
    /\ \/ \E s \in {"copying", "copied", "checked"} : GiveUp(s, "failed")
       \/ GiveUp("copying", "cancelled")
       \/ method = "wsl" /\ \E what \in {"failed", "cancelled"} : GiveUp("opening", what)
       \/ Sftp /\ \E s \in {"opening", "copying", "copied", "checked"} : GiveUp(s, "closed")
    /\ UNCHANGED <<filesVars, policy, replace, created, retried, historyVars, othersVars>>

\* What follows on a call that returned an error.
Follows ==
    IF method = "wsl" THEN "unstaging"
    ELSE IF outcome = "conflict" THEN "ready"
    ELSE IF outcome = "closed" /\ ~retried THEN "reopenToCopy"
    ELSE "over"

\* The temporary file is removed, or stays for good: it is not looked for again.
CleanUp ==
    /\ GoTo("failing", Follows)
    /\ part' = Nothing
    /\ outcome' = IF Follows = "over" /\ outcome = "closed" THEN "failed" ELSE outcome
    /\ dirty' \in IF part = Nothing THEN {dirty} ELSE {dirty, TRUE}
    /\ UNCHANGED <<target, staged, backup, left, policy, replace, created, retried, agreed,
                   asked, placed, unanswered, othersVars>>

\* The WSL copy removes what its plan has created: the staged copy, or the target.
Unstage ==
    /\ GoTo("unstaging", "over")
    /\ \/ /\ staged' = IF replace THEN Nothing ELSE staged
          /\ target' = IF ~replace /\ created THEN Nothing ELSE target
          /\ UNCHANGED dirty
       \/ dirty' = TRUE /\ UNCHANGED <<staged, target>>
    /\ UNCHANGED <<part, backup, left, callVars, agreed, asked, placed, unanswered, othersVars>>

\* reopen_sftp, after which the call is repeated once.
Reopen ==
    /\ \/ GoTo("reopenToCopy", "opening")
       \/ GoTo("reopenToRemove", "removing")
    /\ retried' = TRUE
    /\ UNCHANGED <<filesVars, outcome, policy, replace, created, historyVars, othersVars>>

ReopenFails ==
    /\ End("reopenToCopy", "failed") \/ End("reopenToRemove", "failed")
    /\ UNCHANGED <<filesVars, policy, replace, created, retried, historyVars, othersVars>>

\* The process ends.  The backup's name holds the time and is forgotten with it.
Kill ==
    /\ stage # "over"
    /\ stage' = "over" /\ outcome' = "killed"
    /\ part' = Nothing /\ backup' = Nothing
    /\ left' = left \cup ({backup} \ {Nothing})
    /\ dirty' = TRUE
    /\ UNCHANGED <<target, staged, policy, replace, created, retried, agreed, asked,
                   placed, unanswered, othersVars>>

-----------------------------------------------------------------------------
(* Others use the target's path.                                           *)

OthersPut ==
    /\ target = Nothing /\ made < MaxOthers
    /\ made' = made + 1 /\ target' = made + 1
    /\ UNCHANGED <<method, gone, part, staged, backup, left, stage, callVars, historyVars>>

OthersTake ==
    /\ target > 0
    /\ gone' = gone \cup {target} /\ target' = Nothing
    /\ UNCHANGED <<method, made, part, staged, backup, left, stage, callVars, historyVars>>

-----------------------------------------------------------------------------
Answers == {"Overwrite", "OverwriteAll", "Skip", "SkipAll"}

CopyStep ==
    \/ CheckTarget \/ RemoveTarget \/ RemovalUnanswered \/ Plan \/ PlanFails
    \/ OpenPart \/ OpeningUnanswered \/ TargetExists \/ CopyEnds \/ RecheckTarget
    \/ PlacePart \/ PlacingUnanswered
    \/ StagePart \/ PreserveTarget \/ PlaceStaged \/ PlacingFails \/ RemoveBackup \/ ReplaceFails
    \/ StopsEarly \/ StopsLate \/ CleanUp \/ Unstage \/ Reopen \/ ReopenFails

Next ==
    \/ Begin \/ CopyStep \/ (\E answer \in Answers : Decide(answer))
    \/ Kill \/ OthersPut \/ OthersTake

Spec == Init /\ [][Next]_vars

(***************************************************************************)
(* Fairness: the worker goes on.  The user need not answer.                *)
(***************************************************************************)
FairSpec == Spec /\ WF_vars(stage # "asking" /\ CopyStep)

-----------------------------------------------------------------------------
(* Properties.                                                             *)

Contents  == {Nothing, Mine, Half} \cup 1..made
Stages    == {"over", "ready", "asking", "removing", "planning", "opening", "copying", "copied",
              "checked", "failing", "staged", "moved", "placed", "unstaging", "reopenToCopy",
              "reopenToRemove"}
Outcomes  == {"none", "done", "skipped", "cancelled", "failed", "conflict", "closed", "killed"}

FilesTyped ==
    /\ made \in Nat /\ gone \subseteq 1..made
    /\ target \in Contents /\ part \in Contents /\ staged \in Contents
    /\ backup \in Contents /\ asked \in Contents /\ left \subseteq Contents

ControlTyped ==
    /\ method \in Methods
    /\ stage \in Stages /\ outcome \in Outcomes
    /\ policy \in {"Ask", "OverwriteAll", "SkipAll"}
    /\ replace \in BOOLEAN /\ created \in BOOLEAN /\ retried \in BOOLEAN
    /\ agreed \in BOOLEAN /\ placed \in BOOLEAN /\ unanswered \in BOOLEAN /\ dirty \in BOOLEAN

\* Every variable has its type; in particular only the answers for all files are kept.
TypeOK == FilesTyped /\ ControlTyped

(***************************************************************************)
(* An incomplete file is never at the target, nor put aside for it: the    *)
(* copy goes to a temporary file that takes its name when it is complete,  *)
(* whatever error, cancel, closed channel or kill comes in between.        *)
(***************************************************************************)
NeverHalf == Half \notin {target, staged, backup} \cup left

(***************************************************************************)
(* An upload makes a file of others disappear only if the user has agreed  *)
(* to overwrite since upload_file_with_task_conflict last looked: also     *)
(* when the file appeared during the copy, and when a removal was repeated *)
(* on a new channel.                                                       *)
(***************************************************************************)
AskedFirst == [][method = "upload" /\ Lost' # Lost => agreed']_vars

(***************************************************************************)
(* A WSL copy gives up the file it asked about only when the new one has   *)
(* taken its place: until then it is at the target or under its backup     *)
(* name, also after a kill between the two renames of                      *)
(* replace_target_with_staged and when they fail.                          *)
(***************************************************************************)
AskedKept == method = "wsl" /\ asked \in Lost => placed

(***************************************************************************)
(* A transfer that ends, in whatever way, leaves no temporary file, staged *)
(* copy or backup behind, unless a removal failed, the creation was never  *)
(* answered, or the process was killed.                                    *)
(***************************************************************************)
CleanEnd == stage = "over" /\ ~dirty => {part, staged, backup} = {Nothing}

(***************************************************************************)
(* What the transfer reports is so: done means that the copy came to be at *)
(* the target; anything else that it did not, unless the server renamed it *)
(* without an answer, or only the backup could not be removed.             *)
(***************************************************************************)
HonestEnd ==
    stage = "over" =>
        /\ outcome = "done" => placed
        /\ outcome \in {"skipped", "cancelled", "failed"} /\ placed => unanswered \/ left # {}

(***************************************************************************)
(* What the user has before and after: whole files, the old one or the new *)
(* one, nothing else beside them, and a report that says so.               *)
(***************************************************************************)
CopySound == NeverHalf /\ AskedKept /\ CleanEnd /\ HonestEnd

(***************************************************************************)
(* A worker that does not wait for the user comes to the end of its        *)
(* transfer, or to a question: calls are repeated once, and an upload that *)
(* finds its target taken asks.                                            *)
(***************************************************************************)
TransferEnds == stage \notin {"over", "asking"} ~> stage \in {"over", "asking"}

(***************************************************************************)
(* No transfer makes a file of others disappear that the user was not      *)
(* asked about (README.md:54: transfers confirm conflicts at the target).  *)
(***************************************************************************)
NothingLostUnasked == [][Lost' # Lost => agreed']_vars
=============================================================================
