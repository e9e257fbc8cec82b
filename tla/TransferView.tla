---------------------------- MODULE TransferView ----------------------------
(***************************************************************************)
(* The transfer queue as the window shows it (usePortivaWorkspace): a copy *)
(* of the backend's tasks that is read again every 750 ms while a task in  *)
(* it may still move, and after each command; the commands of the queue's  *)
(* buttons, the retry that connects anew, the dialog of App for a target   *)
(* that exists, and the refresh of the listing when an upload has ended.   *)
(*                                                                         *)
(* The backend answers the calls in the order in which it carried them     *)
(* out.  A handler that awaits two calls makes the second one when the     *)
(* first has been answered.                                                *)
(***************************************************************************)
EXTENDS Integers, Sequences, FiniteSets

CONSTANTS
    MaxTask,        \* tasks are numbered as they are queued
    MaxReplies,     \* answers on their way
    MaxCommands     \* commands of the user

ASSUME ViewAssumption == MaxTask \in Nat /\ MaxReplies \in Nat /\ MaxCommands \in Nat

TransferIds == 1 .. MaxTask

VARIABLES
    queue,      \* the backend's tasks
    shownQueue, \* transfers
    seen,       \* transferStatusRef
    replies,    \* the answers on their way to the window
    commands,   \* commands given
    refreshes   \* how often the end of each task made the listing be read again

viewVars == <<queue, shownQueue, seen, replies, commands, refreshes>>

\* Statuses: a task that failed because its connection was closed is "lost".
Moving == {"pending", "running", "paused", "waiting-conflict"}
Absent == "absent"

ViewInit ==
    /\ queue = [t \in TransferIds |-> Absent]
    /\ shownQueue = queue /\ seen = queue
    /\ replies = <<>>
    /\ commands = 0
    /\ refreshes = [t \in TransferIds |-> 0]

-----------------------------------------------------------------------------
(* Faulty variants of what follows, for the properties to tell apart.       *)

\* A task that waits for its turn is taken for one that stands still.
MovesOnceStarted(q) == \E t \in TransferIds : q[t] \in Moving \ {"pending"}

-----------------------------------------------------------------------------
(* The view and its effects.                                                *)

\* hasActiveTransfer: the queue is polled while this holds.
Moves(q) == \E t \in TransferIds : q[t] \in Moving

\* completedTasks: those seen unfinished before and complete now.
JustCompleted(q) == {t \in TransferIds : q[t] = "completed" /\ seen[t] \notin {Absent, "completed"}}

Remembered(q, ended) == q

\* The view becomes q: the effect compares it with the statuses seen before.
ShowQueue(q) ==
    /\ shownQueue' = q
    /\ seen' = Remembered(q, JustCompleted(q))
    /\ refreshes' = [t \in TransferIds |-> refreshes[t] + IF t \in JustCompleted(q) THEN 1 ELSE 0]

-----------------------------------------------------------------------------
(* Calls: what the backend does, and the answer it sends.                   *)

NextId == CHOOSE t \in TransferIds : queue[t] = Absent /\ \A u \in TransferIds : u < t => queue[u] # Absent

Reply(r) == Len(replies) < MaxReplies /\ replies' = Append(replies, r)
ListReply == [for |-> "show", queue |-> queue', task |-> 0]

\* The interval fires: transferList().
Poll ==
    /\ Moves(shownQueue)
    /\ UNCHANGED <<queue, shownQueue, seen, commands, refreshes>>
    /\ Reply(ListReply)

Command == commands < MaxCommands /\ commands' = commands + 1

\* fileTransferUpload, fileTransferDownload or fileTransferUploadBatch: a task
\* is queued; the handler goes on with what its answer is for.
Queued(for) ==
    /\ \E t \in TransferIds : queue[t] = Absent
    /\ queue' = [queue EXCEPT ![NextId] = "pending"]
    /\ Reply([for |-> for, queue |-> queue', task |-> NextId])

\* queueUpload, queueDownload: queue the task, then read the queue.
\* uploadLocalPaths: the task queued is added to the view.
Enqueue ==
    /\ Command
    /\ \E for \in {"list", "add"} : Queued(for)
    /\ UNCHANGED <<shownQueue, seen, refreshes>>

\* downloadRemoteEntry of a directory: one task after the other, then read the
\* queue.
DownloadDirectory ==
    /\ Command
    /\ Queued("queue-more")
    /\ UNCHANGED <<shownQueue, seen, refreshes>>

\* pause, resume, cancel and retry as the backend allows them.
Acted(s) ==
    CASE s = "running" -> {"paused", "cancelled"}
      [] s = "paused" -> {"running", "cancelled"}
      [] s = "pending" -> {"cancelled"}
      [] s = "waiting-conflict" -> {"cancelled"}
      [] s \in {"failed", "cancelled"} -> {"pending"}
      [] OTHER -> {}

\* updateTransferTask with an answer that is the task as it is now.
UpdateTask ==
    /\ Command
    /\ \E t \in TransferIds :
         /\ shownQueue[t] \notin {Absent, "completed", "lost"}
         /\ \E s \in Acted(queue[t]) :
              /\ queue' = [queue EXCEPT ![t] = s]
              /\ Reply([for |-> "update", queue |-> queue', task |-> t])
    /\ UNCHANGED <<shownQueue, seen, refreshes>>

DeleteTask ==
    /\ Command
    /\ \E t \in TransferIds :
         /\ shownQueue[t] \notin {Absent, "running", "paused", "waiting-conflict"}
         /\ queue[t] \in {"pending", "completed", "failed", "cancelled", "lost"}
         /\ queue' = [queue EXCEPT ![t] = "deleted"]
         /\ Reply([for |-> "remove", queue |-> queue', task |-> t])
    /\ UNCHANGED <<shownQueue, seen, refreshes>>

\* pendingTransferConflict: the dialog asks about the first task that waits.
PendingConflict(t) ==
    /\ shownQueue[t] = "waiting-conflict"
    /\ \A u \in TransferIds : u < t => shownQueue[u] # "waiting-conflict"

ResolveConflict ==
    /\ Command
    /\ \E t \in TransferIds :
         /\ PendingConflict(t)
         /\ queue[t] = "waiting-conflict"
         /\ queue' = [queue EXCEPT ![t] = "running"]
         /\ Reply([for |-> "update", queue |-> queue', task |-> t])
    /\ UNCHANGED <<shownQueue, seen, refreshes>>

\* retry of a task whose connection was closed: reconnectActiveFileTransfer
\* first; without a session nothing happens.
RetryLost ==
    /\ Command
    /\ \E t \in TransferIds :
         /\ shownQueue[t] = "lost"
         /\ UNCHANGED queue
         /\ Reply([for |-> "reconnected", queue |-> queue', task |-> t])
    /\ UNCHANGED <<shownQueue, seen, refreshes>>

\* An answer arrives, the oldest one first; the handler goes on.
Oldest == Head(replies)
Answer(next) == replies' = Append(Tail(replies), next)

ShowReply ==
    /\ replies # <<>>
    /\ Oldest.for \in {"show", "update", "remove", "add"}
    /\ replies' = Tail(replies)
    /\ ShowQueue(CASE Oldest.for = "show" -> [t \in TransferIds |->
                        IF Oldest.queue[t] = "deleted" THEN Absent ELSE Oldest.queue[t]]
                   [] Oldest.for = "update" ->
                        IF shownQueue[Oldest.task] = Absent THEN shownQueue
                        ELSE [shownQueue EXCEPT ![Oldest.task] = Oldest.queue[Oldest.task]]
                   [] Oldest.for = "remove" -> [shownQueue EXCEPT ![Oldest.task] = Absent]
                   [] OTHER -> [shownQueue EXCEPT ![Oldest.task] = "pending"])
    /\ UNCHANGED <<queue, commands>>

\* The task is queued: transferList().
ReadAfter ==
    /\ replies # <<>> /\ Oldest.for = "list"
    /\ UNCHANGED <<queue, shownQueue, seen, commands, refreshes>>
    /\ Answer(ListReply)

\* The next file of a directory; if it cannot be queued, the handler ends with a
\* message, and does not read the queue.
QueueMore ==
    /\ replies # <<>> /\ Oldest.for = "queue-more"
    /\ \/ /\ \E t \in TransferIds : queue[t] = Absent
          /\ queue' = [queue EXCEPT ![NextId] = "pending"]
          /\ Answer([for |-> "list", queue |-> queue', task |-> NextId])
       \/ replies' = Tail(replies) /\ UNCHANGED queue
    /\ UNCHANGED <<shownQueue, seen, commands, refreshes>>

\* Connected anew: the lost task is deleted, then queued again as a new one;
\* either may fail.
ForgetLost ==
    /\ replies # <<>> /\ Oldest.for = "reconnected"
    /\ \/ replies' = Tail(replies) /\ UNCHANGED queue
       \/ /\ queue' = IF queue[Oldest.task] = "lost" THEN [queue EXCEPT ![Oldest.task] = "deleted"] ELSE queue
          /\ Answer([for |-> "requeue", queue |-> queue', task |-> Oldest.task])
    /\ UNCHANGED <<shownQueue, seen, commands, refreshes>>

RequeueLost ==
    /\ replies # <<>> /\ Oldest.for = "requeue"
    /\ \/ /\ \E t \in TransferIds : queue[t] = Absent
          /\ queue' = [queue EXCEPT ![NextId] = "pending"]
          /\ Answer([for |-> "list", queue |-> queue', task |-> NextId])
       \/ replies' = Tail(replies) /\ UNCHANGED queue
    /\ UNCHANGED <<shownQueue, seen, commands, refreshes>>

\* The backend's worker.
Work ==
    /\ \E t \in TransferIds :
         \/ queue[t] = "pending" /\ queue' = [queue EXCEPT ![t] = "running"]
         \/ /\ queue[t] = "running"
            /\ \E s \in {"completed", "failed", "lost", "waiting-conflict"} : queue' = [queue EXCEPT ![t] = s]
    /\ UNCHANGED <<shownQueue, seen, replies, commands, refreshes>>

Arrives == ShowReply \/ ReadAfter \/ QueueMore \/ ForgetLost \/ RequeueLost

ViewNext ==
    \/ Poll \/ Enqueue \/ DownloadDirectory \/ UpdateTask \/ DeleteTask \/ ResolveConflict \/ RetryLost
    \/ Arrives \/ Work

\* The interval fires again and again, and a call is answered.
ViewFairness == WF_viewVars(Poll) /\ WF_viewVars(Arrives)

ViewSpec == ViewInit /\ [][ViewNext]_viewVars /\ ViewFairness

-----------------------------------------------------------------------------
(* Properties.                                                              *)

\* A task that is shown as moving and moves no longer comes to be shown as what it is,
\* ended or waiting for the user, unless it moves again: the queue is never left
\* showing it as moving (the polling effect).
MovingIsFollowed ==
    \A t \in TransferIds :
        (shownQueue[t] \in Moving /\ queue[t] \notin Moving)
          ~> (shownQueue[t] \notin Moving \/ queue[t] \in Moving)

\* The end of a transfer makes the listing be read again once, however often the
\* queue is read afterwards (the effect on transfers).
RefreshedOnce == \A t \in TransferIds : refreshes[t] <= 1


\* The view keeps up with the queue.
ViewSound == []RefreshedOnce /\ MovingIsFollowed
=============================================================================
