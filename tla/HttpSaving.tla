------------------------------ MODULE HttpSaving ------------------------------
(***************************************************************************)
(* How the HTTP console keeps what it shows on the disk                    *)
(* (HttpConsolePanel.tsx): every change starts a timer of 350 ms anew,     *)
(* which saves the workspaces the change left; the save button does not    *)
(* wait; nothing is saved before the stored workspaces were read, nor      *)
(* while an address is invalid; the mark of an unsaved request goes with   *)
(* the next answer to a save.  The panel can be closed and opened again    *)
(* at any moment.                                                          *)
(*                                                                         *)
(* The workspaces are a version, a version for each request edited and the *)
(* requests with an invalid address.                                       *)
(***************************************************************************)
EXTENDS Naturals, Sequences, FiniteSets

CONSTANTS Editable,     \* requests
          MaxVersion,   \* versions ever made, 2 is on the disk at first
          MaxOpenings,  \* times the panel is opened
          MaxCalls      \* calls under way when the save button is pressed

ASSUME SavingAssumption == MaxVersion \in Nat /\ MaxOpenings \in Nat /\ MaxCalls \in Nat

NoTimer == [version |-> 0, of |-> [r \in Editable |-> 0], bad |-> {}]
\* What the panel starts with, before it has read the disk.
Default == [NoTimer EXCEPT !.version = 1]
Stored == [NoTimer EXCEPT !.version = 2]

VARIABLES
    isOpen,     \* the panel is mounted
    canSave,    \* storageReady
    drafts,     \* workspaces
    marks,      \* dirtyRequestIds
    timer,      \* what saveWorkspacesTimerRef will save, NoTimer when it is not set
    queue,      \* calls on their way to the backend
    replies,    \* answers on their way back
    disk,       \* what the backend has stored
    versions,   \* versions made
    openings,   \* times the panel was opened
    saveFailed, \* history: the last save the backend was asked for failed
    unmarked    \* history: requests whose mark went, or was not made, for another reason than a save

savingVars == <<isOpen, canSave, drafts, marks, timer, queue, replies, disk,
                versions, openings, saveFailed, unmarked>>

Opened ==
    /\ isOpen' = TRUE
    /\ canSave' = FALSE
    /\ drafts' = Default
    /\ marks' = {}
    /\ queue' = Append(queue, [get |-> TRUE, by |-> openings', of |-> Default])

SavingInit ==
    /\ isOpen = TRUE
    /\ canSave = FALSE
    /\ drafts = Default
    /\ marks = {}
    /\ timer = NoTimer
    /\ queue = <<[get |-> TRUE, by |-> 1, of |-> Default]>>
    /\ replies = <<>>
    /\ disk = Stored
    /\ versions = 2
    /\ openings = 1
    /\ saveFailed = FALSE
    /\ unmarked = {}

SaveOf(d) == [get |-> FALSE, by |-> openings, of |-> d]

\* An answer to a panel that is gone is not looked at.
Mine(r) == isOpen /\ r.by = openings

\* hasInvalidRequestUrl
Invalid(d) == d.bad # {}

-----------------------------------------------------------------------------
(* Faulty variants of what follows, for the properties to tell apart.      *)

\* A timer that is running is left alone: it saves the change it was set for.
RestartOnce(d, allowed) ==
    timer' = IF timer # NoTimer THEN timer ELSE IF allowed /\ ~Invalid(d) THEN d ELSE NoTimer

-----------------------------------------------------------------------------
\* The effect on the workspaces: the timer of the change before is cleared,
\* and a new one set for these workspaces.
Restart(d, allowed) == timer' = IF allowed /\ ~Invalid(d) THEN d ELSE NoTimer

\* markRequestDirty does nothing before the disk was read.
Mark(r) ==
    IF canSave THEN marks' = marks \cup {r} /\ unmarked' = unmarked \ {r}
    ELSE unmarked' = unmarked \cup {r} /\ UNCHANGED marks

Make(d) ==
    /\ isOpen
    /\ versions < MaxVersion
    /\ versions' = versions + 1
    /\ drafts' = [d EXCEPT !.version = versions']
    /\ Restart(drafts', canSave)

\* updateActiveRequest: a field of the request, its address among them.
EditRequest(r, valid) ==
    /\ Make([drafts EXCEPT !.of[r] = versions + 1,
                           !.bad = IF valid THEN @ \ {r} ELSE @ \cup {r}])
    /\ Mark(r)
    /\ UNCHANGED <<isOpen, canSave, queue, replies, disk, openings, saveFailed>>

\* createRequest, duplicateRequest of a valid one and a request's commitRename.
RenameRequest(r) ==
    /\ Make([drafts EXCEPT !.of[r] = versions + 1])
    /\ Mark(r)
    /\ UNCHANGED <<isOpen, canSave, queue, replies, disk, openings, saveFailed>>

\* deleteRequest takes the mark away with the request.
DeleteRequest(r) ==
    /\ drafts.of[r] # 0
    /\ Make([drafts EXCEPT !.of[r] = 0, !.bad = @ \ {r}])
    /\ marks' = marks \ {r}
    /\ UNCHANGED <<isOpen, canSave, queue, replies, disk, openings, saveFailed, unmarked>>

\* importShareJson writes over requests or adds some, and marks none.
ImportRequests(changed, invalid) ==
    /\ Make([drafts EXCEPT !.of = [r \in Editable |->
                                      IF r \in changed THEN versions + 1 ELSE drafts.of[r]],
                           !.bad = (@ \ changed) \cup invalid])
    /\ unmarked' = unmarked \cup changed
    /\ UNCHANGED <<isOpen, canSave, marks, queue, replies, disk, openings, saveFailed>>

\* updateActiveWorkspace and what else changes no request: environments,
\* variables, the order of the tree.
EditRest ==
    /\ Make(drafts)
    /\ UNCHANGED <<isOpen, canSave, marks, queue, replies, disk, openings, saveFailed, unmarked>>

-----------------------------------------------------------------------------
\* http_workspaces_get and http_workspaces_save run in the order of the calls.
Serve(ok) ==
    LET call == Head(queue)
    IN  /\ queue # <<>>
        /\ queue' = Tail(queue)
        /\ disk' = IF ok /\ ~call.get THEN call.of ELSE disk
        /\ saveFailed' = IF call.get THEN saveFailed ELSE ~ok
        /\ replies' = Append(replies, [get |-> call.get, by |-> call.by, ok |-> ok,
                                       of |-> IF call.get THEN disk ELSE call.of])
        /\ UNCHANGED <<isOpen, canSave, drafts, marks, timer, versions, openings, unmarked>>

\* What was read takes the place of what was changed before; when it could not
\* be read, what the panel started with stays, to be saved in its turn.
Read ==
    LET r == Head(replies)
    IN  /\ replies # <<>>
        /\ r.get
        /\ replies' = Tail(replies)
        /\ IF Mine(r)
           THEN /\ canSave' = TRUE
                /\ drafts' = IF r.ok THEN r.of ELSE drafts
                /\ marks' = IF r.ok THEN {} ELSE marks
                /\ Restart(drafts', TRUE)
           ELSE UNCHANGED <<canSave, drafts, marks, timer>>
        /\ UNCHANGED <<isOpen, queue, disk, versions, openings, saveFailed, unmarked>>

\* The timer of 350 ms.
TimerFires ==
    /\ isOpen
    /\ timer # NoTimer
    /\ queue' = Append(queue, SaveOf(timer))
    /\ timer' = NoTimer
    /\ UNCHANGED <<isOpen, canSave, drafts, marks, replies, disk, versions, openings, saveFailed, unmarked>>

\* The button.  The timer is cleared before the addresses are looked at; that
\* the disk was not read yet does not matter to it.
SaveNow ==
    /\ timer' = NoTimer
    /\ queue' = IF Invalid(drafts) THEN queue ELSE Append(queue, SaveOf(drafts))

saveWorkspacesNow ==
    /\ isOpen
    /\ Len(queue) + Len(replies) < MaxCalls
    /\ SaveNow
    /\ unmarked' = IF canSave THEN unmarked ELSE Editable
    /\ UNCHANGED <<isOpen, canSave, drafts, marks, replies, disk, versions, openings, saveFailed>>

\* An answer takes all the marks away, those of later changes too.
Reply ==
    /\ replies # <<>>
    /\ ~Head(replies).get
    /\ replies' = Tail(replies)
    /\ IF Mine(Head(replies)) /\ Head(replies).ok
       THEN /\ marks' = {}
            /\ unmarked' = unmarked \cup {r \in marks : drafts.of[r] # Head(replies).of.of[r]}
       ELSE UNCHANGED <<marks, unmarked>>
    /\ UNCHANGED <<isOpen, canSave, drafts, timer, queue, disk, versions, openings, saveFailed>>

\* The clean-ups: the timer is cleared, saved or not.
Close ==
    /\ isOpen
    /\ isOpen' = FALSE
    /\ timer' = NoTimer
    /\ UNCHANGED <<canSave, drafts, marks, queue, replies, disk, versions, openings, saveFailed, unmarked>>

Open ==
    /\ ~isOpen
    /\ openings < MaxOpenings
    /\ openings' = openings + 1
    /\ Opened
    /\ unmarked' = {}
    /\ UNCHANGED <<timer, replies, disk, versions, saveFailed>>

-----------------------------------------------------------------------------
SavingNext ==
    \/ \E r \in Editable :
          (\E valid \in BOOLEAN : EditRequest(r, valid)) \/ RenameRequest(r) \/ DeleteRequest(r)
    \/ \E changed \in SUBSET Editable : \E invalid \in SUBSET changed :
          ImportRequests(changed, invalid)
    \/ EditRest
    \/ \E ok \in BOOLEAN : Serve(ok)
    \/ Read
    \/ TimerFires
    \/ saveWorkspacesNow
    \/ Reply
    \/ Close
    \/ Open

\* Timers fire, and calls are answered.
SavingFairness ==
    /\ WF_savingVars(TimerFires)
    /\ WF_savingVars(\E ok \in BOOLEAN : Serve(ok))
    /\ WF_savingVars(Read)
    /\ WF_savingVars(Reply)

SavingSpec == SavingInit /\ [][SavingNext]_savingVars /\ SavingFairness

-----------------------------------------------------------------------------
\* What an open panel shows gets to the disk by itself: it is there in the
\* end, unless an address is invalid or the backend could not store it.
StoreCatchesUp == <>[](isOpen /\ ~Invalid(drafts)) => <>[](disk = drafts \/ saveFailed)

\* Workspaces with an invalid address are never stored, whoever saves them.
NeverSavesInvalid == ~Invalid(disk)

\* A request that carries no mark is on the disk as it is shown, once the disk
\* was read: but for requests that an answer to an older save unmarked, for
\* those an import changed, and for those changed or saved before the disk was read.
UnmarkedIsSaved ==
    isOpen /\ canSave =>
        \A r \in Editable \ (marks \cup unmarked) : drafts.of[r] \in {0, disk.of[r]}
=============================================================================
