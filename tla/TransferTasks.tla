---------------------------- MODULE TransferTasks ----------------------------
(***************************************************************************)
(* The task table of services/transfer_service.rs.  Every public method of *)
(* TransferService takes the one mutex around the table, so each operator  *)
(* below is one atomic step.  A task keeps only what the control depends   *)
(* on: its status, the conflict policy chosen for it, and whether an item  *)
(* was skipped or failed (the two counters mark_completed compares with 0).*)
(* A call refused by its guard returns Err and changes nothing.            *)
(***************************************************************************)
EXTENDS Naturals

CONSTANT Ids            \* sequence numbers of the tasks, the order of the queue

VARIABLES status,       \* status[t]: TransferStatus, "Absent" when not in the table
          policy,       \* policy[t]: TransferConflictPolicy
          imperfect     \* the tasks with skipped_items > 0 or failed_items > 0

taskVars == <<status, policy, imperfect>>

Active   == {"Running", "Paused", "WaitingConflict"}    \* a task that holds a slot
Settled  == {"Cancelled", "Failed", "Partial", "Completed"}
Status   == {"Absent", "Pending"} \cup Active \cup Settled

StickyPolicy == {"OverwriteAll", "SkipAll"}
Answer       == {"Overwrite", "Skip"} \cup StickyPolicy
Policy       == {"Ask"} \cup Answer        \* resolve_conflict refuses "rename"

TasksTypeOK ==
    /\ status \in [Ids -> Status]
    /\ policy \in [Ids -> Policy]
    /\ imperfect \subseteq Ids

TasksInit ==
    /\ status = [t \in Ids |-> "Absent"]
    /\ policy = [t \in Ids |-> "Ask"]
    /\ imperfect = {}

-----------------------------------------------------------------------------
\* The one status change behind cancel, pause and resume.
Transition(t, from, to) ==
    /\ status[t] \in from
    /\ status' = [status EXCEPT ![t] = to]
    /\ UNCHANGED <<policy, imperfect>>

-----------------------------------------------------------------------------
(* Faulty variants: each is a mistake the code could have made in the      *)
(* method below it is named after; a property must tell it from the real.  *)

\* resume accepts a task that failed.
ResumeFailed(t) == Transition(t, {"Paused", "Failed"}, "Running")

\* retry accepts a cancelled task, whose worker may still be there.
RetryCancelled(t) ==
    /\ status[t] \in {"Failed", "Cancelled"}
    /\ status' = [status EXCEPT ![t] = "Pending"]
    /\ policy' = [policy EXCEPT ![t] = "Ask"]
    /\ imperfect' = imperfect \ {t}

\* mark_completed overwrites whatever it finds.
CompleteAnything(t) ==
    /\ status' = [status EXCEPT ![t] = IF t \in imperfect THEN "Partial" ELSE "Completed"]
    /\ UNCHANGED <<policy, imperfect>>

-----------------------------------------------------------------------------
(* The user's calls.                                                       *)

InsertPending(t) ==
    /\ status' = [status EXCEPT ![t] = "Pending"]
    /\ policy' = [policy EXCEPT ![t] = "Ask"]
    /\ imperfect' = imperfect \ {t}

CancelTask(t) == Transition(t, {"Pending"} \cup Active, "Cancelled")
PauseTask(t)  == Transition(t, {"Running"}, "Paused")
ResumeTask(t) == Transition(t, {"Paused"}, "Running")

\* delete leaves an active task alone: it has to be cancelled first.
DeleteTask(t) == Transition(t, {"Pending"} \cup Settled, "Absent")

\* Only a failed task goes back to the queue, with its counters reset.
RetryTask(t) == status[t] = "Failed" /\ InsertPending(t)

CancelOwned(S) ==
    /\ status' = [t \in Ids |-> IF t \in S /\ status[t] \in {"Pending"} \cup Active
                                THEN "Cancelled" ELSE status[t]]
    /\ UNCHANGED <<policy, imperfect>>

-----------------------------------------------------------------------------
\* Calls of the worker that executes the task.
RequestConflict(t) ==
    /\ status[t] = "Running" /\ policy[t] \notin StickyPolicy
    /\ status' = [status EXCEPT ![t] = "WaitingConflict"]
    /\ policy' = [policy EXCEPT ![t] = "Ask"]
    /\ UNCHANGED imperfect

ResolveConflict(t, answer) ==
    /\ status[t] = "WaitingConflict"
    /\ policy' = [policy EXCEPT ![t] = answer]
    /\ UNCHANGED <<status, imperfect>>

TakeDirective(t) ==
    /\ status[t] = "WaitingConflict" /\ policy[t] # "Ask"
    /\ status' = [status EXCEPT ![t] = "Running"]
    /\ policy' = [policy EXCEPT ![t] = IF @ \in StickyPolicy THEN @ ELSE "Ask"]
    /\ UNCHANGED imperfect

\* mark_item_skipped and mark_item_failed.
MarkImperfect(t) ==
    /\ status[t] \in {"Running", "Paused"}
    /\ imperfect' = imperfect \cup {t}
    /\ UNCHANGED <<status, policy>>

\* The two final reports; a task that left the states they expect keeps its status.
MarkCompleted(t) ==
    /\ status' = [status EXCEPT ![t] =
                    IF @ \notin {"Running", "Paused"} THEN @
                    ELSE IF t \in imperfect THEN "Partial" ELSE "Completed"]
    /\ UNCHANGED <<policy, imperfect>>

MarkFailed(t) ==
    /\ status' = [status EXCEPT ![t] = IF @ \in Active THEN "Failed" ELSE @]
    /\ UNCHANGED <<policy, imperfect>>
=============================================================================
