---------------------------- MODULE TransferQueue ----------------------------
(***************************************************************************)
(* The transfer scheduler: the commands of commands/file_transfer.rs and   *)
(* commands/wsl_files.rs that queue, start, control and finish transfers.  *)
(*                                                                         *)
(* A start call (start_queued_sftp_transfers, start_queued_wsl_transfers)  *)
(* is made by the command that creates or retries a task and by a worker   *)
(* that ended.  It takes the table's lock twice, to claim the oldest       *)
(* pending task and to mark it running, and then spawns its worker; the    *)
(* user's commands run in between.  Start calls of one connection are      *)
(* interchangeable, so they are counted per stage instead of named.        *)
(***************************************************************************)
EXTENDS TransferTasks, FiniteSets

CONSTANTS Conns,        \* connections (SFTP) and distributions (WSL)
          Stable,       \* those whose channel needs no check and never closes (WSL)
          Owner,        \* Owner[t]: connection_id of the t-th task
          Limit,        \* max_running of start_next_pending_for_connection_with_limit
          Choices,      \* bound: the answers the user gives to a conflict
          MaxRetries    \* bound: retries of one task

ASSUME QueueAssumption ==
    /\ Ids \subseteq Nat \ {0} /\ IsFiniteSet(Ids)
    /\ Stable \subseteq Conns
    /\ Owner \in [Ids -> Conns]
    /\ Limit \in Nat \ {0}
    /\ Choices \subseteq Answer
    /\ MaxRetries \in Nat

VARIABLES nextSequence, \* last sequence number handed out
          allocated,    \* numbers handed out whose task is not inserted yet
          link,         \* link[c]: how far connection_close got
          sftp,         \* the connections with an SFTP channel (has_sftp)
          entering,     \* entering[c]: start calls before require_sftp
          picking,      \* picking[c]: start calls before start_next_pending
          claims,       \* claims[t]: start calls that claimed t, before mark_running
          copying,      \* copying[t]: workers of t that move data
          asking,       \* asking[t]: workers of t that wait for a conflict choice
          retries,      \* retry_count
          lost          \* history: connections of which a start call ended with an error

queueVars == <<nextSequence, allocated, link, sftp, entering, picking,
               claims, copying, asking, retries, lost>>
vars == <<status, policy, imperfect, nextSequence, allocated, link, sftp,
          entering, picking, claims, copying, asking, retries, lost>>

Owned(c)     == {t \in Ids : Owner[t] = c}
ActiveOf(c)  == {t \in Owned(c) : status[t] \in Active}
PendingOf(c) == {t \in Owned(c) : status[t] = "Pending"}
Handlers(t)  == claims[t] + copying[t] + asking[t]
Links        == {"open", "sessionsClosed", "transfersCancelled", "closed"}

-----------------------------------------------------------------------------
(* Faulty variants of what follows, for the properties to tell apart.      *)

\* One slot too many.
SlotFreeAtLimit(c) == Cardinality(ActiveOf(c)) <= Limit

\* A worker that ends does not start the next task.
EndCopyingNoStart(t) ==
    /\ copying[t] > 0
    /\ copying' = [copying EXCEPT ![t] = @ - 1]
    /\ UNCHANGED <<nextSequence, allocated, link, sftp, entering, picking, claims,
                   asking, retries, lost>>

\* The progress callback stops a transfer only when its task is gone.
WorkerSeesOnlyAbsent(t) ==
    /\ status[t] = "Absent" /\ copying[t] > 0
    /\ copying' = [copying EXCEPT ![t] = @ - 1]
    /\ entering' = [entering EXCEPT ![Owner[t]] = @ + 1]
    /\ UNCHANGED <<taskVars, nextSequence, allocated, link, sftp, picking,
                   claims, asking, retries, lost>>

Init ==
    /\ TasksInit
    /\ nextSequence = 0
    /\ allocated = {}
    /\ link = [c \in Conns |-> "open"]
    /\ sftp = Conns
    /\ entering = [c \in Conns |-> 0]
    /\ picking = [c \in Conns |-> 0]
    /\ claims = [t \in Ids |-> 0]
    /\ copying = [t \in Ids |-> 0]
    /\ asking = [t \in Ids |-> 0]
    /\ retries = [t \in Ids |-> 0]
    /\ lost = {}

-----------------------------------------------------------------------------
(* The commands that put a task in the queue.                              *)

\* file_transfer_upload, _upload_batch, _download: the session and the SFTP
\* channel are checked, then create_task takes a number under its own lock.
AllocateSequence ==
    LET t == nextSequence + 1 IN
    /\ t \in Ids
    /\ link[Owner[t]] = "open" /\ Owner[t] \in sftp
    /\ nextSequence' = t
    /\ allocated' = allocated \cup {t}
    /\ UNCHANGED <<taskVars, link, sftp, entering, picking, claims, copying,
                   asking, retries, lost>>

\* The insertion under the table's lock; the command goes on to a start call.
InsertTask(t) ==
    /\ t \in allocated
    /\ InsertPending(t)
    /\ allocated' = allocated \ {t}
    /\ entering' = [entering EXCEPT ![Owner[t]] = @ + 1]
    /\ UNCHANGED <<nextSequence, link, sftp, picking, claims, copying, asking,
                   retries, lost>>

Retry(t) ==
    /\ Owner[t] \in sftp
    /\ retries[t] < MaxRetries
    /\ RetryTask(t)
    /\ retries' = [retries EXCEPT ![t] = @ + 1]
    /\ entering' = [entering EXCEPT ![Owner[t]] = @ + 1]
    /\ UNCHANGED <<nextSequence, allocated, link, sftp, picking, claims,
                   copying, asking, lost>>

-----------------------------------------------------------------------------
(* The other commands on a task: one table operation each.                 *)

Cancel(t)  == CancelTask(t) /\ UNCHANGED queueVars
Pause(t)   == PauseTask(t)  /\ UNCHANGED queueVars
Resume(t)  == ResumeTask(t) /\ UNCHANGED queueVars
Delete(t)  == DeleteTask(t) /\ UNCHANGED queueVars
Resolve(t) == (\E answer \in Choices : ResolveConflict(t, answer)) /\ UNCHANGED queueVars

-----------------------------------------------------------------------------
(* A start call.                                                           *)

RequireSftp(c) ==
    /\ entering[c] > 0
    /\ entering' = [entering EXCEPT ![c] = @ - 1]
    /\ \/ /\ c \in sftp
          /\ picking' = [picking EXCEPT ![c] = @ + 1]
          /\ UNCHANGED lost
       \/ /\ c \notin sftp
          /\ lost' = lost \cup {c}
          /\ UNCHANGED picking
    /\ UNCHANGED <<taskVars, nextSequence, allocated, link, sftp, claims,
                   copying, asking, retries>>

SlotFree(c) == Cardinality(ActiveOf(c)) < Limit
Oldest(t)   == \A u \in PendingOf(Owner[t]) : t <= u

\* start_next_pending_for_connection_with_limit claims the oldest pending task.
StartNextPending(t) ==
    LET c == Owner[t] IN
    /\ picking[c] > 0
    /\ SlotFree(c) /\ status[t] = "Pending" /\ Oldest(t)
    /\ status' = [status EXCEPT ![t] = "Running"]
    /\ picking' = [picking EXCEPT ![c] = @ - 1]
    /\ claims' = [claims EXCEPT ![t] = @ + 1]
    /\ UNCHANGED <<policy, imperfect, nextSequence, allocated, link, sftp,
                   entering, copying, asking, retries, lost>>

NothingToStart(c) ==
    /\ picking[c] > 0
    /\ ~SlotFree(c) \/ PendingOf(c) = {}
    /\ picking' = [picking EXCEPT ![c] = @ - 1]
    /\ UNCHANGED <<taskVars, nextSequence, allocated, link, sftp, entering,
                   claims, copying, asking, retries, lost>>

\* mark_running, under the lock again; its error leaves the call through `?`.
\* A call starts one task at most, then it is over.
MarkRunning(t) ==
    /\ claims[t] > 0
    /\ claims' = [claims EXCEPT ![t] = @ - 1]
    /\ \/ /\ status[t] \in {"Pending", "Running"}
          /\ status' = [status EXCEPT ![t] = "Running"]
          /\ copying' = [copying EXCEPT ![t] = @ + 1]
          /\ UNCHANGED lost
       \/ /\ status[t] \notin {"Pending", "Running"}
          /\ lost' = lost \cup {Owner[t]}
          /\ UNCHANGED <<status, copying>>
    /\ UNCHANGED <<policy, imperfect, nextSequence, allocated, link, sftp,
                   entering, picking, asking, retries>>

-----------------------------------------------------------------------------
(* The worker of a task.  Between two looks at the status it moves data.   *)

\* finish_background_transfer ends with a start call for the connection.
EndCopying(t) ==
    /\ copying[t] > 0
    /\ copying' = [copying EXCEPT ![t] = @ - 1]
    /\ entering' = [entering EXCEPT ![Owner[t]] = @ + 1]
    /\ UNCHANGED <<nextSequence, allocated, link, sftp, picking, claims, asking,
                   retries, lost>>

\* A look at a cancelled or deleted task ends the transfer without a report
\* that changes the task.
WorkerSeesStop(t) ==
    /\ status[t] \in {"Cancelled", "Absent"}
    /\ EndCopying(t)
    /\ UNCHANGED taskVars

AskerSeesStop(t) ==
    /\ status[t] \in {"Cancelled", "Absent"}
    /\ asking[t] > 0
    /\ asking' = [asking EXCEPT ![t] = @ - 1]
    /\ entering' = [entering EXCEPT ![Owner[t]] = @ + 1]
    /\ UNCHANGED <<taskVars, nextSequence, allocated, link, sftp, picking,
                   claims, copying, retries, lost>>

WorkerAsks(t) ==
    /\ copying[t] > 0
    /\ RequestConflict(t)
    /\ copying' = [copying EXCEPT ![t] = @ - 1]
    /\ asking' = [asking EXCEPT ![t] = @ + 1]
    /\ UNCHANGED <<nextSequence, allocated, link, sftp, entering, picking,
                   claims, retries, lost>>

WorkerTakesAnswer(t) ==
    /\ asking[t] > 0
    /\ TakeDirective(t)
    /\ asking' = [asking EXCEPT ![t] = @ - 1]
    /\ copying' = [copying EXCEPT ![t] = @ + 1]
    /\ UNCHANGED <<nextSequence, allocated, link, sftp, entering, picking,
                   claims, retries, lost>>

WorkerMarksItem(t) ==
    /\ copying[t] > 0
    /\ MarkImperfect(t)
    /\ UNCHANGED queueVars

\* The reports come after the last look, so the status may have changed meanwhile.
WorkerCompletes(t) == EndCopying(t) /\ MarkCompleted(t)
WorkerFails(t)     == EndCopying(t) /\ MarkFailed(t)

-----------------------------------------------------------------------------
(* The connection under the transfers.                                     *)

\* reopen_sftp clears the channel before it opens a new one, and may fail.
SftpDown(c) ==
    /\ c \in sftp \ Stable
    /\ sftp' = sftp \ {c}
    /\ UNCHANGED <<taskVars, nextSequence, allocated, link, entering, picking,
                   claims, copying, asking, retries, lost>>

SftpUp(c) ==
    /\ c \notin sftp /\ link[c] # "closed"
    /\ sftp' = sftp \cup {c}
    /\ UNCHANGED <<taskVars, nextSequence, allocated, link, entering, picking,
                   claims, copying, asking, retries, lost>>

\* connection_close: the file sessions, then the transfers, then the SSH session.
CloseFileSessions(c) ==
    /\ c \notin Stable /\ link[c] = "open"
    /\ link' = [link EXCEPT ![c] = "sessionsClosed"]
    /\ UNCHANGED <<taskVars, nextSequence, allocated, sftp, entering, picking,
                   claims, copying, asking, retries, lost>>

CancelByConnection(c) ==
    /\ link[c] = "sessionsClosed"
    /\ link' = [link EXCEPT ![c] = "transfersCancelled"]
    /\ CancelOwned(Owned(c))
    /\ UNCHANGED <<nextSequence, allocated, sftp, entering, picking, claims,
                   copying, asking, retries, lost>>

CloseSsh(c) ==
    /\ link[c] = "transfersCancelled"
    /\ link' = [link EXCEPT ![c] = "closed"]
    /\ sftp' = sftp \ {c}
    /\ UNCHANGED <<taskVars, nextSequence, allocated, entering, picking, claims,
                   copying, asking, retries, lost>>

-----------------------------------------------------------------------------
UserStep(t) ==
    \/ Retry(t) \/ Cancel(t) \/ Pause(t) \/ Resume(t) \/ Delete(t) \/ Resolve(t)

WorkerStep(t) ==
    \/ WorkerSeesStop(t) \/ AskerSeesStop(t) \/ WorkerAsks(t) \/ WorkerTakesAnswer(t)
    \/ WorkerMarksItem(t) \/ WorkerCompletes(t) \/ WorkerFails(t)

LinkStep(c) ==
    \/ SftpDown(c) \/ SftpUp(c)
    \/ CloseFileSessions(c) \/ CancelByConnection(c) \/ CloseSsh(c)

Next ==
    \/ AllocateSequence
    \/ \E t \in Ids : \/ InsertTask(t) \/ UserStep(t)
                      \/ StartNextPending(t) \/ MarkRunning(t) \/ WorkerStep(t)
    \/ \E c \in Conns : RequireSftp(c) \/ NothingToStart(c) \/ LinkStep(c)

Spec == Init /\ [][Next]_vars

(***************************************************************************)
(* Fairness: commands and start calls run to their end (they never wait),  *)
(* a worker looks at the status again and again, and one whose task is     *)
(* running comes to an end.  Nothing is assumed of the user, of a paused   *)
(* worker or of the connection, except that connection_close goes through. *)
(***************************************************************************)
WorkerEnds(t) == status[t] = "Running" /\ (WorkerCompletes(t) \/ WorkerFails(t))

Fairness ==
    /\ \A t \in Ids : /\ WF_vars(InsertTask(t))
                      /\ WF_vars(MarkRunning(t))
                      /\ WF_vars(WorkerSeesStop(t))
                      /\ WF_vars(AskerSeesStop(t))
                      /\ WF_vars(WorkerTakesAnswer(t))
                      /\ WF_vars(WorkerEnds(t))
    /\ \A c \in Conns : /\ WF_vars(RequireSftp(c))
                        /\ WF_vars(NothingToStart(c) \/ \E t \in Owned(c) : StartNextPending(t))
                        /\ WF_vars(CancelByConnection(c))
                        /\ WF_vars(CloseSsh(c))

FairSpec == Spec /\ Fairness

-----------------------------------------------------------------------------
(* Properties.                                                             *)

\* Type invariant.
TypeOK ==
    /\ TasksTypeOK
    /\ nextSequence \in Nat
    /\ allocated \subseteq Ids
    /\ link \in [Conns -> Links]
    /\ sftp \subseteq Conns
    /\ entering \in [Conns -> Nat]
    /\ picking \in [Conns -> Nat]
    /\ claims \in [Ids -> Nat]
    /\ copying \in [Ids -> Nat]
    /\ asking \in [Ids -> Nat]
    /\ retries \in [Ids -> Nat]
    /\ lost \subseteq Conns

\* A task never has two handlers: two start calls that race, a retry right after
\* a failure or a resume never make two workers write the same target.
OneHandler == \A t \in Ids : Handlers(t) <= 1

\* A task that is queued, over (but not cancelled) or only allocated has none, so
\* no worker outlives the end it reported: its late calls cannot hit a retried task.
IdleHasNoHandler ==
    \A t \in Ids : status[t] \in {"Pending", "Failed", "Partial", "Completed"}
                      => Handlers(t) = 0

\* The slots: at most Limit tasks of a connection are running, paused or waiting.
SlotLimit == \A c \in Conns : Cardinality(ActiveOf(c)) <= Limit

\* A task waits for a conflict choice exactly while a worker of it will read the
\* choice: no answer is ever taken for a question nobody asked.
QuestionHasAsker ==
    \A t \in Ids :
        /\ status[t] = "WaitingConflict" => asking[t] = 1
        /\ asking[t] > 0 => status[t] \in {"WaitingConflict", "Cancelled", "Absent"}

\* A task shown as running or paused has a worker, or one about to be spawned,
\* unless a start call of its connection failed.
ServedUnlessLost ==
    \A t \in Ids : status[t] \in {"Running", "Paused"} /\ Handlers(t) = 0
                      => Owner[t] \in lost

\* A number that was not inserted yet is not in the table and nobody works on it.
NotInsertedYet(t) == t \in allocated \/ t > nextSequence
NewIsAbsent ==
    /\ \A t \in allocated : t <= nextSequence
    /\ \A t \in Ids : NotInsertedYet(t) => status[t] = "Absent" /\ Handlers(t) = 0

\* Status and handlers of every task agree, however start calls, workers and commands
\* interleave: the inductive invariant behind the safety properties.
HandlersInv ==
    /\ OneHandler
    /\ IdleHasNoHandler
    /\ QuestionHasAsker
    /\ ServedUnlessLost
    /\ NewIsAbsent

\* No wake-up is lost: while a slot is free for a pending task, enough start calls
\* are on their way, or will be made by workers whose task gave its slot back.
Wakers(c) ==
    entering[c] + picking[c]
      + Cardinality({t \in Owned(c) : status[t] \notin Active /\ Handlers(t) > 0})
Startable(c) ==
    LET free == Limit - Cardinality(ActiveOf(c))
        pending == Cardinality(PendingOf(c))
    IN  IF pending < free THEN pending ELSE free
WakeUpsConserved == \A c \in Conns : c \notin lost => Startable(c) <= Wakers(c)

\* What has been said of a task stays said: a cancelled task is never completed,
\* failed or restarted by a late worker, a completed one never reopened; a failed
\* one leaves only by a retry (or delete), and a deleted number never returns.
SettledStays ==
    [][\A t \in Ids :
        /\ status[t] \in {"Cancelled", "Partial", "Completed"}
              => status'[t] \in {status[t], "Absent"}
        /\ status[t] = "Failed" => status'[t] \in {"Failed", "Pending", "Absent"}
        /\ status[t] = "Absent" /\ ~NotInsertedYet(t) => status'[t] = "Absent"]_vars

\* The queue moves: a pending task gets its turn, unless a start call failed, or
\* some task of the connection keeps its slot paused or waiting for the user.
QueueMoves ==
    \A t \in Ids :
        status[t] = "Pending"
          ~> \/ status[t] # "Pending"
             \/ Owner[t] \in lost
             \/ \E u \in ActiveOf(Owner[t]) : status[u] # "Running"

\* A cancelled transfer stops working, even while its choice is awaited.
CancelStopsWork ==
    \A t \in Ids : status[t] = "Cancelled" ~> copying[t] + asking[t] = 0

\* What is queued gets its turn, and what is cancelled comes to rest.
QueueLives == QueueMoves /\ CancelStopsWork

\* What the table shows of a task, in the words of TransferLifecycle.
StageOf(t) ==
    CASE status[t] = "Pending"   -> "queued"
      [] status[t] \in Active    -> "holding"
      [] status[t] = "Cancelled" -> "cancelled"
      [] status[t] = "Failed"    -> "failed"
      [] status[t] \in {"Partial", "Completed"} -> "done"
      [] status[t] = "Absent" ->
            IF NotInsertedYet(t) THEN "new" ELSE "deleted"

Lifecycle == INSTANCE TransferLifecycle WITH stage <- [t \in Ids |-> StageOf(t)]

\* The queue implements the lifecycle: with every race between start calls, workers
\* and commands, each step is one the abstract queue may take, or changes nothing.
ImplementsLifecycle == Lifecycle!Spec

\* README.md:32 offers pause, continue, cancel and retry of queued transfers: a task
\* shown as running is being transferred, or about to be.  Refuted: see the findings.
RunningIsServed == \A t \in Ids : status[t] = "Running" => Handlers(t) > 0
=============================================================================
