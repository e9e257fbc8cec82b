------------------------------ MODULE WslPanel ------------------------------
(***************************************************************************)
(* The file panel of a WSL distribution (WslFileTransferPanel): two        *)
(* listings, the host's and the distribution's, the tasks between them,    *)
(* and the reading of both again when a task has ended.  Both sides are    *)
(* alike, so that one listing stands for the two.                          *)
(***************************************************************************)
EXTENDS Integers, Sequences, FiniteSets

CONSTANTS
    WslPaths, WslHome, \* the directories, and the one shown first
    MaxWslTasks,       \* tasks queued at all
    MaxWslCalls,       \* calls under way
    MaxVisits          \* directories the user opens and actions on tasks, together

ASSUME HomeIsAPath == WslHome \in WslPaths

VARIABLES
    wslQueue,    \* the backend's tasks
    wslShown,    \* transfers
    wslSeen,     \* previousStatusesRef
    wslPath,     \* the directory shown
    wslLoaded,   \* the effect on mount has ended
    wslCalls,    \* the calls on their way, oldest first
    reread,      \* the tasks that had ended when a listing was last asked for
    visits

wslVars == <<wslQueue, wslShown, wslSeen, wslPath, wslLoaded, wslCalls, reread, visits>>

WslIds == 1 .. MaxWslTasks
WslMoving == {"pending", "running", "paused", "waiting-conflict"}
WslResting == {"pending", "completed", "partial", "failed", "cancelled"}
WslEnded == {t \in WslIds : wslQueue[t] \in {"completed", "partial"}}

\* Tasks of the distribution may be there when the panel opens.
WslInit ==
    /\ \E n \in 0 .. MaxWslTasks :
         wslQueue = [t \in WslIds |-> IF t <= n THEN "pending" ELSE "absent"]
    /\ wslShown = [t \in WslIds |-> "absent"] /\ wslSeen = wslShown
    /\ wslPath = WslHome /\ wslLoaded = FALSE
    /\ wslCalls = <<[for |-> "load", path |-> WslHome, queue |-> wslQueue]>>
    /\ reread = {} /\ visits = 0

-----------------------------------------------------------------------------
(* Faulty variants of what follows, for the properties to tell apart.       *)

\* A task that had ended when it was first shown does not count.
EndedWhileShown(q) ==
    {t \in WslIds : q[t] \in {"completed", "partial"} /\ wslSeen[t] \notin {"absent", "completed", "partial"}}

-----------------------------------------------------------------------------
(* The view of the tasks.                                                   *)

\* hasActiveTransfer
WslMoves == \E t \in WslIds : wslShown[t] \in WslMoving

\* justFinished
JustEnded(q) ==
    {t \in WslIds : q[t] \in {"completed", "partial"} /\ wslSeen[t] \notin {"completed", "partial"}}

Room(n) == Len(wslCalls) + n <= MaxWslCalls
ListCall(path) == [for |-> "listing", path |-> path, queue |-> wslQueue]
QueueCall == [for |-> "tasks", path |-> wslPath, queue |-> wslQueue']

\* setTransfers, and the effect that asks for the listing of the directory
\* shown when something has ended.
ShowTasks(q, rest) ==
    /\ wslShown' = q /\ wslSeen' = q
    /\ IF JustEnded(q) = {}
       THEN wslCalls' = rest /\ UNCHANGED reread
       ELSE wslCalls' = Append(rest, ListCall(wslPath)) /\ reread' = WslEnded

-----------------------------------------------------------------------------
(* Calls.                                                                   *)

\* The interval of 500 ms: refreshTransfers.
PollTasks ==
    /\ WslMoves /\ Room(2)
    /\ UNCHANGED <<wslQueue, wslShown, wslSeen, wslPath, wslLoaded, reread, visits>>
    /\ wslCalls' = Append(wslCalls, QueueCall)

\* uploadEntry, uploadPaths, downloadEntry: a task is queued; its answer makes
\* the panel read the tasks.
QueueTask ==
    /\ wslLoaded /\ Room(2)
    /\ \E t \in WslIds :
         /\ wslQueue[t] = "absent" /\ \A u \in WslIds : u < t => wslQueue[u] # "absent"
         /\ wslQueue' = [wslQueue EXCEPT ![t] = "pending"]
    /\ wslCalls' = Append(wslCalls, [for |-> "queued", path |-> wslPath, queue |-> wslQueue'])
    /\ UNCHANGED <<wslShown, wslSeen, wslPath, wslLoaded, reread, visits>>

\* What can be asked for of a task as it is shown (TransferQueue), what the backend
\* takes of a task as it is, and what becomes of it; an answer to a conflict is
\* taken by the worker at once.  A task shown as pending may have ended, and can be deleted.
TaskActions ==
    {[shown |-> {"running"}, is |-> {"running"}, to |-> "paused"],
     [shown |-> {"paused"}, is |-> {"paused"}, to |-> "running"],
     [shown |-> {"waiting-conflict"}, is |-> {"waiting-conflict"}, to |-> "running"],
     [shown |-> {"failed"}, is |-> {"failed"}, to |-> "pending"],
     [shown |-> WslMoving, is |-> WslMoving, to |-> "cancelled"],
     [shown |-> WslResting, is |-> WslResting, to |-> "deleted"]}

\* updateTransfer and resolveConflict: what the backend takes makes the panel read the
\* tasks; what it refuses is only reported.
ActOnTask ==
    /\ Room(2)
    /\ \E t \in WslIds, a \in TaskActions :
         /\ wslShown[t] \in a.shown /\ wslQueue[t] \in a.is
         /\ wslQueue' = [wslQueue EXCEPT ![t] = a.to]
    /\ visits < MaxVisits /\ visits' = visits + 1
    /\ wslCalls' = Append(wslCalls, [for |-> "queued", path |-> wslPath, queue |-> wslQueue'])
    /\ UNCHANGED <<wslShown, wslSeen, wslPath, wslLoaded, reread>>

\* refreshWsl of a directory the user opens; the making, renaming and removing
\* of entries end with one of the directory shown.
Visit ==
    /\ wslLoaded /\ Room(2)
    /\ visits < MaxVisits /\ visits' = visits + 1
    /\ \E p \in WslPaths : wslCalls' = Append(wslCalls, ListCall(p))
    /\ reread' = WslEnded
    /\ UNCHANGED <<wslQueue, wslShown, wslSeen, wslPath, wslLoaded>>

-----------------------------------------------------------------------------
(* Answers, in the order of the calls.                                      *)

Late == Tail(wslCalls)

\* The effect on mount: the tasks as they were and the listings as they are
\* now, which take longer, or nothing at all.
Loads ==
    /\ wslCalls # <<>> /\ Head(wslCalls).for = "load"
    /\ \/ /\ wslShown' = Head(wslCalls).queue /\ wslSeen' = wslShown'
          /\ reread' = WslEnded
          /\ wslPath' = WslHome
       \/ UNCHANGED <<wslShown, wslSeen, reread, wslPath>>
    /\ wslLoaded' = TRUE
    /\ wslCalls' = Late
    /\ UNCHANGED <<wslQueue, visits>>

\* refreshWsl shows what it read and where, or reports that it could not.
ListingArrives ==
    /\ wslCalls # <<>> /\ Head(wslCalls).for = "listing"
    /\ wslPath' \in {wslPath, Head(wslCalls).path}
    /\ wslCalls' = Late
    /\ UNCHANGED <<wslQueue, wslShown, wslSeen, wslLoaded, reread, visits>>

TaskQueued ==
    /\ wslCalls # <<>> /\ Head(wslCalls).for = "queued"
    /\ UNCHANGED <<wslQueue, wslShown, wslSeen, wslPath, wslLoaded, reread, visits>>
    /\ wslCalls' = Append(Late, QueueCall)

TasksArrive ==
    /\ wslCalls # <<>> /\ Head(wslCalls).for = "tasks"
    /\ ShowTasks(Head(wslCalls).queue, Late)
    /\ UNCHANGED <<wslQueue, wslPath, wslLoaded, visits>>

\* What the backend's worker may make of a task; the last part may be done when the task
\* is paused.
WorkOf(state) ==
    CASE state = "pending" -> {"running"}
      [] state = "running" -> {"waiting-conflict", "completed", "partial", "failed"}
      [] state = "paused" -> {"completed", "partial", "failed"}
      [] state = "waiting-conflict" -> {"failed"}
      [] OTHER -> {}

WslWork ==
    /\ \E t \in WslIds : \E s \in WorkOf(wslQueue[t]) : wslQueue' = [wslQueue EXCEPT ![t] = s]
    /\ UNCHANGED <<wslShown, wslSeen, wslPath, wslLoaded, wslCalls, reread, visits>>

WslArrives == Loads \/ ListingArrives \/ TaskQueued \/ TasksArrive

WslNext == PollTasks \/ QueueTask \/ ActOnTask \/ Visit \/ WslArrives \/ WslWork

WslFairness == WF_wslVars(PollTasks) /\ WF_wslVars(WslArrives)

WslSpec == WslInit /\ [][WslNext]_wslVars /\ WslFairness

-----------------------------------------------------------------------------
(* Properties.                                                              *)

\* When a task that is shown as moving, or that the panel has just queued, ends,
\* the listing is asked for again, also when it ended before it could be shown
\* (justFinished); but not when it is deleted before the panel has seen its end, as a
\* task can be that is still shown as pending.
EndIsReread ==
    \A t \in WslIds :
        (/\ t \in WslEnded
         /\ \/ wslShown[t] \in WslMoving
            \/ \E i \in DOMAIN wslCalls : wslCalls[i].for = "queued" /\ wslCalls[i].queue[t] = "pending")
        ~> t \in reread \/ wslQueue[t] = "deleted"

=============================================================================
