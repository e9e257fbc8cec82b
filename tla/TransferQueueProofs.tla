------------------------- MODULE TransferQueueProofs -------------------------
(***************************************************************************)
(* Safety of the transfer queue for any number of tasks, connections and   *)
(* slots: TypeOK, the inductive HandlersInv, SlotLimit, that no wake-up is *)
(* lost, and that the queue implements the lifecycle of a transfer.        *)
(***************************************************************************)
EXTENDS TransferQueue, FiniteSetTheorems, TLAPS

\* The queue's variables always hold values of their types.
THEOREM TypeCorrect == Spec => []TypeOK
<1> USE QueueAssumption
    DEF TypeOK, TasksTypeOK, Status, Active, Settled, Policy, Answer, StickyPolicy, Links
<1>1. Init => TypeOK
  BY DEF Init, TasksInit
<1>2. TypeOK /\ [Next]_vars => TypeOK'
  <2> SUFFICES ASSUME TypeOK, [Next]_vars PROVE TypeOK'
    OBVIOUS
  <2>1. CASE AllocateSequence
    BY <2>1 DEF AllocateSequence, taskVars
  <2>2. ASSUME NEW t \in Ids, InsertTask(t) PROVE TypeOK'
    BY <2>2 DEF InsertTask, InsertPending
  <2>3. ASSUME NEW t \in Ids, UserStep(t) PROVE TypeOK'
    <3>1. CASE Retry(t)
      BY <3>1 DEF Retry, RetryTask, InsertPending
    <3>2. CASE Cancel(t) \/ Pause(t) \/ Resume(t) \/ Delete(t)
      BY <3>2 DEF Cancel, Pause, Resume, Delete, CancelTask, PauseTask, ResumeTask,
                  DeleteTask, Transition, queueVars
    <3>3. CASE Resolve(t)
      BY <3>3 DEF Resolve, ResolveConflict, queueVars
    <3>4. QED
      BY <2>3, <3>1, <3>2, <3>3 DEF UserStep
  <2>4. ASSUME NEW t \in Ids, StartNextPending(t) PROVE TypeOK'
    BY <2>4 DEF StartNextPending
  <2>5. ASSUME NEW t \in Ids, MarkRunning(t) PROVE TypeOK'
    <3>1. status' \in [Ids -> Status] /\ copying' \in [Ids -> Nat] /\ claims' \in [Ids -> Nat]
      BY <2>5 DEF MarkRunning
    <3>2. lost' \subseteq Conns
      BY <2>5 DEF MarkRunning
    <3>3. QED
      BY <2>5, <3>1, <3>2 DEF MarkRunning
  <2>6. ASSUME NEW t \in Ids, WorkerStep(t) PROVE TypeOK'
    <3>1. CASE WorkerSeesStop(t)
      BY <3>1 DEF WorkerSeesStop, EndCopying, taskVars
    <3>8. CASE AskerSeesStop(t)
      BY <3>8 DEF AskerSeesStop, taskVars
    <3>2. CASE WorkerAsks(t)
      BY <3>2 DEF WorkerAsks, RequestConflict
    <3>3. CASE WorkerTakesAnswer(t)
      BY <3>3 DEF WorkerTakesAnswer, TakeDirective
    <3>4. CASE WorkerMarksItem(t)
      BY <3>4 DEF WorkerMarksItem, MarkImperfect, queueVars
    <3>5. CASE WorkerCompletes(t)
      BY <3>5 DEF WorkerCompletes, EndCopying, MarkCompleted
    <3>6. CASE WorkerFails(t)
      BY <3>6 DEF WorkerFails, EndCopying, MarkFailed
    <3>7. QED
      BY <2>6, <3>1, <3>2, <3>3, <3>4, <3>5, <3>6, <3>8 DEF WorkerStep
  <2>7. ASSUME NEW c \in Conns, RequireSftp(c) PROVE TypeOK'
    <3>1. entering' \in [Conns -> Nat] /\ picking' \in [Conns -> Nat]
      BY <2>7 DEF RequireSftp
    <3>2. lost' \subseteq Conns
      BY <2>7 DEF RequireSftp
    <3>3. QED
      BY <2>7, <3>1, <3>2 DEF RequireSftp, taskVars
  <2>8. ASSUME NEW c \in Conns, NothingToStart(c) PROVE TypeOK'
    BY <2>8 DEF NothingToStart, taskVars
  <2>9. ASSUME NEW c \in Conns, LinkStep(c) PROVE TypeOK'
    <3>1. CASE SftpDown(c)
      BY <3>1 DEF SftpDown, taskVars
    <3>2. CASE SftpUp(c)
      BY <3>2 DEF SftpUp, taskVars
    <3>3. CASE CloseFileSessions(c)
      BY <3>3 DEF CloseFileSessions, taskVars
    <3>4. CASE CancelByConnection(c)
      BY <3>4 DEF CancelByConnection, CancelOwned
    <3>5. CASE CloseSsh(c)
      BY <3>5 DEF CloseSsh, taskVars
    <3>6. QED
      BY <2>9, <3>1, <3>2, <3>3, <3>4, <3>5 DEF LinkStep
  <2>10. CASE UNCHANGED vars
    BY <2>10 DEF vars
  <2>11. QED
    BY <2>1, <2>2, <2>3, <2>4, <2>5, <2>6, <2>7, <2>8, <2>9, <2>10 DEF Next
<1>3. QED
  BY <1>1, <1>2, PTL DEF Spec

-----------------------------------------------------------------------------
\* The initial state: an empty table that nobody works on.
LEMMA HandlersInit == Init => HandlersInv
  BY QueueAssumption
     DEF Init, TasksInit, HandlersInv, OneHandler, IdleHasNoHandler, QuestionHasAsker,
         ServedUnlessLost, NewIsAbsent, NotInsertedYet, Handlers

\* The part of HandlersInv that speaks of one task.
TaskInv(t) ==
    /\ Handlers(t) <= 1
    /\ status[t] \in {"Pending", "Failed", "Partial", "Completed"} => Handlers(t) = 0
    /\ status[t] = "WaitingConflict" => asking[t] = 1
    /\ asking[t] > 0 => status[t] \in {"WaitingConflict", "Cancelled", "Absent"}
    /\ status[t] \in {"Running", "Paused"} /\ Handlers(t) = 0 => Owner[t] \in lost
    /\ NotInsertedYet(t) => status[t] = "Absent" /\ Handlers(t) = 0

LEMMA ByTask == HandlersInv <=> /\ \A t \in allocated : t <= nextSequence
                                /\ \A t \in Ids : TaskInv(t)
  BY DEF HandlersInv, OneHandler, IdleHasNoHandler, QuestionHasAsker, ServedUnlessLost,
         NewIsAbsent, TaskInv

\* What a step does to the tasks it is not about.
TouchesOnly(u) ==
    /\ nextSequence' = nextSequence /\ allocated' \subseteq allocated
    /\ lost \subseteq lost'
    /\ \A t \in Ids \ {u} :
          /\ status'[t] = status[t] /\ claims'[t] = claims[t]
          /\ copying'[t] = copying[t] /\ asking'[t] = asking[t]

\* Such a step keeps the invariant if it keeps the part of its own task.
LEMMA OneTask ==
    ASSUME NEW u \in Ids, HandlersInv, TouchesOnly(u), TaskInv(u)'
    PROVE  HandlersInv'
<1>1. \A t \in allocated' : t <= nextSequence'
  BY ByTask DEF TouchesOnly
<1>2. ASSUME NEW t \in Ids, t # u PROVE TaskInv(t)'
  <2>1. TaskInv(t)
    BY ByTask
  <2>2. QED
    BY <1>2, <2>1 DEF TouchesOnly, TaskInv, Handlers, NotInsertedYet
<1>3. \A t \in Ids : TaskInv(t)'
  BY <1>2
<1>4. QED
  BY <1>1, <1>3 DEF HandlersInv, OneHandler, IdleHasNoHandler, QuestionHasAsker,
     ServedUnlessLost, NewIsAbsent, TaskInv, Handlers, NotInsertedYet

\* The facts about task u a step starts from.
LEMMA AtTask ==
    ASSUME NEW u \in Ids, TypeOK, HandlersInv
    PROVE  /\ TaskInv(u)
           /\ claims[u] \in Nat /\ copying[u] \in Nat /\ asking[u] \in Nat
  BY ByTask DEF TypeOK

\* A new number handed out leaves everyone else alone.
LEMMA AllocateStep == TypeOK /\ HandlersInv /\ AllocateSequence => HandlersInv'
<1> SUFFICES ASSUME TypeOK, HandlersInv, AllocateSequence PROVE HandlersInv'
  OBVIOUS
<1> DEFINE u == nextSequence + 1
<1>1. /\ u \in Ids /\ nextSequence' = u /\ allocated' = allocated \cup {u}
      /\ UNCHANGED <<status, claims, copying, asking, lost>>
  BY DEF AllocateSequence, taskVars
<1>2. \A t \in allocated' : t <= nextSequence'
  BY <1>1, ByTask, QueueAssumption DEF TypeOK
<1>3. ASSUME NEW t \in Ids PROVE TaskInv(t)'
  <2>1. TaskInv(t) /\ t \in Nat /\ nextSequence \in Nat
    BY ByTask, QueueAssumption DEF TypeOK
  <2>2. NotInsertedYet(t)' => NotInsertedYet(t)
    BY <1>1, <2>1 DEF NotInsertedYet
  <2>3. QED
    BY <1>1, <2>1, <2>2 DEF TaskInv, Handlers
<1>4. QED
  BY <1>2, <1>3 DEF HandlersInv, OneHandler, IdleHasNoHandler, QuestionHasAsker,
     ServedUnlessLost, NewIsAbsent, TaskInv, Handlers, NotInsertedYet

\* The steps that move a task into the queue and out of it to a claim.
LEMMA QueueingSteps ==
    ASSUME NEW u \in Ids, TypeOK, HandlersInv,
           InsertTask(u) \/ Retry(u) \/ StartNextPending(u)
    PROVE  HandlersInv'
<1>1. /\ TaskInv(u)
      /\ claims[u] \in Nat /\ copying[u] \in Nat /\ asking[u] \in Nat
  BY AtTask
<1>2. CASE InsertTask(u)
  <2>1. TouchesOnly(u)
    BY <1>2 DEF TypeOK, TasksTypeOK, TouchesOnly, InsertTask, InsertPending
  <2>2. /\ status'[u] = "Pending" /\ u \notin allocated' /\ u \in allocated
        /\ claims'[u] = claims[u]
        /\ copying'[u] = copying[u]
        /\ asking'[u] = asking[u]
        /\ lost' = lost
        /\ nextSequence' = nextSequence /\ u <= nextSequence /\ u \in Nat /\ nextSequence \in Nat
    BY <1>2, ByTask, QueueAssumption DEF TypeOK, TasksTypeOK, InsertTask, InsertPending
  <2>3. TaskInv(u)'
    BY <1>1, <2>2 DEF TaskInv, Handlers, NotInsertedYet
  <2>4. QED
    BY <2>1, <2>3, OneTask
<1>3. CASE Retry(u)
  <2>1. TouchesOnly(u)
    BY <1>3 DEF TypeOK, TasksTypeOK, TouchesOnly, Retry, RetryTask, InsertPending
  <2>2. /\ status[u] = "Failed" /\ status'[u] = "Pending"
        /\ claims'[u] = claims[u]
        /\ copying'[u] = copying[u]
        /\ asking'[u] = asking[u]
        /\ lost' = lost
        /\ nextSequence' = nextSequence /\ allocated' = allocated
    BY <1>3 DEF TypeOK, TasksTypeOK, Retry, RetryTask, InsertPending
  <2>3. TaskInv(u)'
    BY <1>1, <2>2 DEF TaskInv, Handlers, NotInsertedYet
  <2>4. QED
    BY <2>1, <2>3, OneTask
<1>4. CASE StartNextPending(u)
  <2>1. TouchesOnly(u)
    BY <1>4 DEF TypeOK, TasksTypeOK, TouchesOnly, StartNextPending
  <2>2. /\ status[u] = "Pending" /\ status'[u] = "Running"
        /\ claims'[u] = claims[u] + 1
        /\ copying'[u] = copying[u]
        /\ asking'[u] = asking[u]
        /\ lost' = lost
        /\ nextSequence' = nextSequence /\ allocated' = allocated
    BY <1>4 DEF TypeOK, TasksTypeOK, StartNextPending
  <2>3. TaskInv(u)'
    BY <1>1, <2>2 DEF TaskInv, Handlers, NotInsertedYet
  <2>4. QED
    BY <2>1, <2>3, OneTask
<1>5. QED
  BY <1>2, <1>3, <1>4

\* The user's commands on a task.
LEMMA ControlSteps ==
    ASSUME NEW u \in Ids, TypeOK, HandlersInv,
           Cancel(u) \/ Pause(u) \/ Resume(u) \/ Delete(u)
             \/ Resolve(u)
    PROVE  HandlersInv'
<1>1. /\ TaskInv(u)
      /\ claims[u] \in Nat /\ copying[u] \in Nat /\ asking[u] \in Nat
  BY AtTask
<1>2. CASE Cancel(u)
  <2>1. TouchesOnly(u)
    BY <1>2 DEF TypeOK, TasksTypeOK, TouchesOnly, Cancel, CancelTask, Transition, queueVars
  <2>2. /\ status[u] \in {"Pending"} \cup Active /\ status'[u] = "Cancelled"
        /\ claims'[u] = claims[u]
        /\ copying'[u] = copying[u]
        /\ asking'[u] = asking[u]
        /\ lost' = lost
        /\ nextSequence' = nextSequence /\ allocated' = allocated
    BY <1>2 DEF TypeOK, TasksTypeOK, Cancel, CancelTask, Transition, queueVars
  <2>3. TaskInv(u)'
    BY <1>1, <2>2 DEF TaskInv, Handlers, NotInsertedYet, Active
  <2>4. QED
    BY <2>1, <2>3, OneTask
<1>3. CASE Pause(u)
  <2>1. TouchesOnly(u)
    BY <1>3 DEF TypeOK, TasksTypeOK, TouchesOnly, Pause, PauseTask, Transition, queueVars
  <2>2. /\ status[u] = "Running" /\ status'[u] = "Paused"
        /\ claims'[u] = claims[u]
        /\ copying'[u] = copying[u]
        /\ asking'[u] = asking[u]
        /\ lost' = lost
        /\ nextSequence' = nextSequence /\ allocated' = allocated
    BY <1>3 DEF TypeOK, TasksTypeOK, Pause, PauseTask, Transition, queueVars
  <2>3. TaskInv(u)'
    BY <1>1, <2>2 DEF TaskInv, Handlers, NotInsertedYet
  <2>4. QED
    BY <2>1, <2>3, OneTask
<1>4. CASE Resume(u)
  <2>1. TouchesOnly(u)
    BY <1>4 DEF TypeOK, TasksTypeOK, TouchesOnly, Resume, ResumeTask, Transition, queueVars
  <2>2. /\ status[u] = "Paused" /\ status'[u] = "Running"
        /\ claims'[u] = claims[u]
        /\ copying'[u] = copying[u]
        /\ asking'[u] = asking[u]
        /\ lost' = lost
        /\ nextSequence' = nextSequence /\ allocated' = allocated
    BY <1>4 DEF TypeOK, TasksTypeOK, Resume, ResumeTask, Transition, queueVars
  <2>3. TaskInv(u)'
    BY <1>1, <2>2 DEF TaskInv, Handlers, NotInsertedYet
  <2>4. QED
    BY <2>1, <2>3, OneTask
<1>5. CASE Delete(u)
  <2>1. TouchesOnly(u)
    BY <1>5 DEF TypeOK, TasksTypeOK, TouchesOnly, Delete, DeleteTask, Transition, queueVars
  <2>2. /\ status[u] \in {"Pending"} \cup Settled /\ status'[u] = "Absent"
        /\ claims'[u] = claims[u]
        /\ copying'[u] = copying[u]
        /\ asking'[u] = asking[u]
        /\ lost' = lost
        /\ nextSequence' = nextSequence /\ allocated' = allocated
    BY <1>5 DEF TypeOK, TasksTypeOK, Delete, DeleteTask, Transition, queueVars
  <2>3. TaskInv(u)'
    BY <1>1, <2>2 DEF TaskInv, Handlers, NotInsertedYet, Settled
  <2>4. QED
    BY <2>1, <2>3, OneTask
<1>6. CASE Resolve(u)
  <2>1. TouchesOnly(u)
    BY <1>6 DEF TypeOK, TasksTypeOK, TouchesOnly, Resolve, ResolveConflict, queueVars
  <2>2. /\ status'[u] = status[u]
        /\ claims'[u] = claims[u]
        /\ copying'[u] = copying[u]
        /\ asking'[u] = asking[u]
        /\ lost' = lost
        /\ nextSequence' = nextSequence /\ allocated' = allocated
    BY <1>6 DEF TypeOK, TasksTypeOK, Resolve, ResolveConflict, queueVars
  <2>3. TaskInv(u)'
    BY <1>1, <2>2 DEF TaskInv, Handlers, NotInsertedYet
  <2>4. QED
    BY <2>1, <2>3, OneTask
<1>7. QED
  BY <1>2, <1>3, <1>4, <1>5, <1>6

\* The steps of a task's worker.
LEMMA WorkerSteps ==
    ASSUME NEW u \in Ids, TypeOK, HandlersInv,
           WorkerSeesStop(u) \/ AskerSeesStop(u) \/ WorkerAsks(u) \/ WorkerTakesAnswer(u)
             \/ WorkerMarksItem(u) \/ WorkerCompletes(u) \/ WorkerFails(u)
    PROVE  HandlersInv'
<1>1. /\ TaskInv(u)
      /\ claims[u] \in Nat /\ copying[u] \in Nat /\ asking[u] \in Nat
  BY AtTask
<1>2. CASE WorkerSeesStop(u)
  <2>1. TouchesOnly(u)
    BY <1>2 DEF TypeOK, TasksTypeOK, TouchesOnly, WorkerSeesStop, EndCopying, taskVars
  <2>2. /\ status[u] \in {"Cancelled", "Absent"} /\ status'[u] = status[u] /\ copying[u] > 0
        /\ claims'[u] = claims[u]
        /\ copying'[u] = copying[u] - 1
        /\ asking'[u] = asking[u]
        /\ lost' = lost
        /\ nextSequence' = nextSequence /\ allocated' = allocated
    BY <1>2 DEF TypeOK, TasksTypeOK, WorkerSeesStop, EndCopying, taskVars
  <2>3. TaskInv(u)'
    BY <1>1, <2>2 DEF TaskInv, Handlers, NotInsertedYet
  <2>4. QED
    BY <2>1, <2>3, OneTask
<1>3. CASE AskerSeesStop(u)
  <2>1. TouchesOnly(u)
    BY <1>3 DEF TypeOK, TasksTypeOK, TouchesOnly, AskerSeesStop, taskVars
  <2>2. /\ status[u] \in {"Cancelled", "Absent"} /\ status'[u] = status[u] /\ asking[u] > 0
        /\ claims'[u] = claims[u]
        /\ copying'[u] = copying[u]
        /\ asking'[u] = asking[u] - 1
        /\ lost' = lost
        /\ nextSequence' = nextSequence /\ allocated' = allocated
    BY <1>3 DEF TypeOK, TasksTypeOK, AskerSeesStop, taskVars
  <2>3. TaskInv(u)'
    BY <1>1, <2>2 DEF TaskInv, Handlers, NotInsertedYet
  <2>4. QED
    BY <2>1, <2>3, OneTask
<1>4. CASE WorkerAsks(u)
  <2>1. TouchesOnly(u)
    BY <1>4 DEF TypeOK, TasksTypeOK, TouchesOnly, WorkerAsks, RequestConflict
  <2>2. /\ status[u] = "Running" /\ status'[u] = "WaitingConflict" /\ copying[u] > 0
        /\ claims'[u] = claims[u]
        /\ copying'[u] = copying[u] - 1
        /\ asking'[u] = asking[u] + 1
        /\ lost' = lost
        /\ nextSequence' = nextSequence /\ allocated' = allocated
    BY <1>4 DEF TypeOK, TasksTypeOK, WorkerAsks, RequestConflict
  <2>3. TaskInv(u)'
    BY <1>1, <2>2 DEF TaskInv, Handlers, NotInsertedYet
  <2>4. QED
    BY <2>1, <2>3, OneTask
<1>5. CASE WorkerTakesAnswer(u)
  <2>1. TouchesOnly(u)
    BY <1>5 DEF TypeOK, TasksTypeOK, TouchesOnly, WorkerTakesAnswer, TakeDirective
  <2>2. /\ status[u] = "WaitingConflict" /\ status'[u] = "Running"
        /\ claims'[u] = claims[u]
        /\ copying'[u] = copying[u] + 1
        /\ asking'[u] = asking[u] - 1
        /\ lost' = lost
        /\ nextSequence' = nextSequence /\ allocated' = allocated
    BY <1>5 DEF TypeOK, TasksTypeOK, WorkerTakesAnswer, TakeDirective
  <2>3. TaskInv(u)'
    BY <1>1, <2>2 DEF TaskInv, Handlers, NotInsertedYet
  <2>4. QED
    BY <2>1, <2>3, OneTask
<1>6. CASE WorkerMarksItem(u)
  <2>1. TouchesOnly(u)
    BY <1>6 DEF TypeOK, TasksTypeOK, TouchesOnly, WorkerMarksItem, MarkImperfect, queueVars
  <2>2. /\ status'[u] = status[u]
        /\ claims'[u] = claims[u]
        /\ copying'[u] = copying[u]
        /\ asking'[u] = asking[u]
        /\ lost' = lost
        /\ nextSequence' = nextSequence /\ allocated' = allocated
    BY <1>6 DEF TypeOK, TasksTypeOK, WorkerMarksItem, MarkImperfect, queueVars
  <2>3. TaskInv(u)'
    BY <1>1, <2>2 DEF TaskInv, Handlers, NotInsertedYet
  <2>4. QED
    BY <2>1, <2>3, OneTask
<1>7. CASE WorkerCompletes(u)
  <2>1. TouchesOnly(u)
    BY <1>7 DEF TypeOK, TasksTypeOK, TouchesOnly, WorkerCompletes, EndCopying, MarkCompleted
  <2>2. /\ copying[u] > 0
        /\ status'[u] = IF status[u] \notin {"Running", "Paused"} THEN status[u]
                        ELSE IF u \in imperfect THEN "Partial" ELSE "Completed"
        /\ claims'[u] = claims[u]
        /\ copying'[u] = copying[u] - 1
        /\ asking'[u] = asking[u]
        /\ lost' = lost
        /\ nextSequence' = nextSequence /\ allocated' = allocated
    BY <1>7 DEF TypeOK, TasksTypeOK, WorkerCompletes, EndCopying, MarkCompleted
  <2>3. TaskInv(u)'
    BY <1>1, <2>2 DEF TaskInv, Handlers, NotInsertedYet
  <2>4. QED
    BY <2>1, <2>3, OneTask
<1>8. CASE WorkerFails(u)
  <2>1. TouchesOnly(u)
    BY <1>8 DEF TypeOK, TasksTypeOK, TouchesOnly, WorkerFails, EndCopying, MarkFailed
  <2>2. /\ copying[u] > 0
        /\ status'[u] = IF status[u] \in Active THEN "Failed" ELSE status[u]
        /\ claims'[u] = claims[u]
        /\ copying'[u] = copying[u] - 1
        /\ asking'[u] = asking[u]
        /\ lost' = lost
        /\ nextSequence' = nextSequence /\ allocated' = allocated
    BY <1>8 DEF TypeOK, TasksTypeOK, WorkerFails, EndCopying, MarkFailed
  <2>3. TaskInv(u)'
    BY <1>1, <2>2 DEF TaskInv, Handlers, NotInsertedYet, Active
  <2>4. QED
    BY <2>1, <2>3, OneTask
<1>9. QED
  BY <1>2, <1>3, <1>4, <1>5, <1>6, <1>7, <1>8

\* mark_running spawns the worker of the claimed task, or loses the start call.
LEMMA MarkRunningStep ==
    ASSUME NEW u \in Ids, TypeOK, HandlersInv, MarkRunning(u)
    PROVE  HandlersInv'
<1>1. TaskInv(u) /\ claims[u] \in Nat /\ copying[u] \in Nat /\ asking[u] \in Nat
  BY AtTask
<1>2. TouchesOnly(u)
  BY DEF TypeOK, TasksTypeOK, TouchesOnly, MarkRunning
<1>3. /\ claims[u] > 0 /\ claims'[u] = claims[u] - 1 /\ asking'[u] = asking[u]
      /\ nextSequence' = nextSequence /\ allocated' = allocated
  BY DEF TypeOK, MarkRunning
<1>4. CASE status[u] \in {"Pending", "Running"}
  <2>1. status'[u] = "Running" /\ copying'[u] = copying[u] + 1
    BY <1>4 DEF TypeOK, TasksTypeOK, MarkRunning
  <2>2. TaskInv(u)'
    BY <1>1, <1>3, <1>4, <2>1 DEF TaskInv, Handlers, NotInsertedYet
  <2>3. QED
    BY <1>2, <2>2, OneTask
<1>5. CASE status[u] \notin {"Pending", "Running"}
  <2>1. status'[u] = status[u] /\ copying'[u] = copying[u] /\ Owner[u] \in lost'
    BY <1>5 DEF MarkRunning
  <2>2. TaskInv(u)'
    BY <1>1, <1>3, <1>5, <2>1 DEF TaskInv, Handlers, NotInsertedYet
  <2>3. QED
    BY <1>2, <2>2, OneTask
<1>6. QED
  BY <1>4, <1>5

\* connection_close cancels all the tasks of its connection in one step.
LEMMA CancelByConnectionStep ==
    ASSUME NEW c \in Conns, TypeOK, HandlersInv, CancelByConnection(c)
    PROVE  HandlersInv'
<1>1. UNCHANGED <<claims, copying, asking, lost, nextSequence, allocated>>
  BY DEF CancelByConnection
<1>2. ASSUME NEW t \in Ids PROVE TaskInv(t)'
  <2>1. TaskInv(t)
    BY AtTask
  <2>2. \/ status'[t] = status[t]
        \/ status[t] \in {"Pending"} \cup Active /\ status'[t] = "Cancelled"
    BY DEF CancelByConnection, CancelOwned
  <2>3. QED
    BY <1>1, <2>1, <2>2 DEF TaskInv, Handlers, NotInsertedYet, Active
<1>3. \A t \in allocated' : t <= nextSequence'
  BY <1>1, ByTask
<1>4. QED
  BY <1>2, <1>3
     DEF HandlersInv, OneHandler, IdleHasNoHandler, QuestionHasAsker, ServedUnlessLost,
         NewIsAbsent, TaskInv, Handlers, NotInsertedYet

\* Steps that touch no task at all.
LEMMA IdleSteps ==
    ASSUME HandlersInv, lost \subseteq lost',
           UNCHANGED <<status, claims, copying, asking, nextSequence, allocated>>
    PROVE  HandlersInv'
  BY DEF HandlersInv, OneHandler, IdleHasNoHandler, QuestionHasAsker, ServedUnlessLost,
         NewIsAbsent, Handlers, NotInsertedYet

\* Each step keeps the invariant.
LEMMA HandlersStep == TypeOK /\ HandlersInv /\ [Next]_vars => HandlersInv'
<1> SUFFICES ASSUME TypeOK, HandlersInv, [Next]_vars PROVE HandlersInv'
  OBVIOUS
<1>1. CASE AllocateSequence
  BY <1>1, AllocateStep
<1>2. ASSUME NEW u \in Ids, InsertTask(u) \/ UserStep(u) PROVE HandlersInv'
  BY <1>2, QueueingSteps, ControlSteps DEF UserStep
<1>3. ASSUME NEW u \in Ids, StartNextPending(u) \/ MarkRunning(u) PROVE HandlersInv'
  BY <1>3, QueueingSteps, MarkRunningStep
<1>4. ASSUME NEW u \in Ids, WorkerStep(u) PROVE HandlersInv'
  BY <1>4, WorkerSteps DEF WorkerStep
<1>5. ASSUME NEW c \in Conns, RequireSftp(c) \/ NothingToStart(c) PROVE HandlersInv'
  <2>1. /\ lost \subseteq lost'
        /\ UNCHANGED <<status, claims, copying, asking, nextSequence, allocated>>
    BY <1>5 DEF RequireSftp, NothingToStart, taskVars
  <2>2. QED
    BY <2>1, IdleSteps
<1>6. ASSUME NEW c \in Conns, LinkStep(c) PROVE HandlersInv'
  <2>1. CASE CancelByConnection(c)
    BY <2>1, CancelByConnectionStep
  <2>2. CASE ~CancelByConnection(c)
    <3>1. UNCHANGED <<status, claims, copying, asking, nextSequence, allocated, lost>>
      BY <1>6, <2>2 DEF LinkStep, SftpDown, SftpUp, CloseFileSessions, CloseSsh, taskVars
    <3>2. QED
      BY <3>1, IdleSteps
  <2>3. QED
    BY <2>1, <2>2
<1>7. CASE UNCHANGED vars
  BY <1>7, IdleSteps DEF vars
<1>8. QED
  BY <1>1, <1>2, <1>3, <1>4, <1>5, <1>6, <1>7 DEF Next

\* The queue keeps its handlers in order: at most one for a task, none for a task that
\* waits or is over, and one that will read the answer of every conflict question.
THEOREM HandlersSafe == Spec => []HandlersInv
  BY HandlersInit, HandlersStep, TypeCorrect, PTL DEF Spec

\* No task ever has two workers or start calls at once.
THEOREM OneHandlerSafe == Spec => []OneHandler
<1>1. HandlersInv => OneHandler
  BY DEF HandlersInv
<1>2. QED
  BY <1>1, HandlersSafe, PTL

-----------------------------------------------------------------------------
(* What a step does to the status of a task; the slots, the finality of a   *)
(* settled task and the refinement all follow from it.                      *)

TaskStep(u) ==
    \/ InsertTask(u) \/ UserStep(u) \/ StartNextPending(u) \/ MarkRunning(u) \/ WorkerStep(u)

Moves(u) ==
    \/ /\ status[u] = "Absent" /\ status'[u] = "Pending"
       /\ u \in allocated /\ allocated' = allocated \ {u}
    \/ /\ allocated' = allocated
       /\ \/ status'[u] = status[u]
          \/ status[u] = "Failed" /\ status'[u] = "Pending"
          \/ status[u] = "Pending" /\ status'[u] = "Running" /\ SlotFree(Owner[u])
          \/ status[u] \in Active /\ status'[u] \in Active
          \/ status[u] \in Active /\ status'[u] \in {"Failed", "Partial", "Completed"}
          \/ status[u] \in {"Pending"} \cup Active /\ status'[u] = "Cancelled"
          \/ status[u] \in {"Pending"} \cup Settled /\ status'[u] = "Absent"

\* Every step of a task moves that task alone, along one of the listed edges.
LEMMA StatusMoves ==
    ASSUME NEW u \in Ids, TypeOK, HandlersInv, TaskStep(u)
    PROVE  Moves(u) /\ \A t \in Ids \ {u} : status'[t] = status[t]
<1>1. TaskInv(u) /\ claims[u] \in Nat /\ copying[u] \in Nat /\ asking[u] \in Nat
  BY AtTask
<1> USE DEF TypeOK, TasksTypeOK, Moves
<1>2. CASE InsertTask(u)
  BY <1>1, <1>2 DEF InsertTask, InsertPending, TaskInv, NotInsertedYet
<1>3. CASE UserStep(u)
  <2>1. CASE Retry(u)
    BY <2>1 DEF Retry, RetryTask, InsertPending
  <2>2. CASE Cancel(u) \/ Pause(u) \/ Resume(u) \/ Delete(u)
    BY <2>2 DEF Cancel, CancelTask, Pause, PauseTask, Resume, ResumeTask, Delete, DeleteTask,
                Transition, queueVars, Active
  <2>3. CASE Resolve(u)
    BY <2>3 DEF Resolve, ResolveConflict, queueVars
  <2>4. QED
    BY <1>3, <2>1, <2>2, <2>3 DEF UserStep
<1>4. CASE StartNextPending(u)
  BY <1>4 DEF StartNextPending
<1>5. CASE MarkRunning(u)
  <2>1. status[u] # "Pending"
    BY <1>1, <1>5 DEF MarkRunning, TaskInv, Handlers
  <2>2. QED
    BY <1>5, <2>1 DEF MarkRunning
<1>6. CASE WorkerStep(u)
  <2>1. CASE WorkerSeesStop(u) \/ AskerSeesStop(u) \/ WorkerMarksItem(u)
    BY <2>1 DEF WorkerSeesStop, EndCopying, AskerSeesStop, WorkerMarksItem, MarkImperfect,
                taskVars, queueVars
  <2>2. CASE WorkerAsks(u)
    BY <2>2 DEF WorkerAsks, RequestConflict, Active
  <2>3. CASE WorkerTakesAnswer(u)
    BY <2>3 DEF WorkerTakesAnswer, TakeDirective, Active
  <2>4. CASE WorkerCompletes(u)
    BY <2>4 DEF WorkerCompletes, EndCopying, MarkCompleted, Active
  <2>5. CASE WorkerFails(u)
    BY <2>5 DEF WorkerFails, EndCopying, MarkFailed, Active
  <2>6. QED
    BY <1>6, <2>1, <2>2, <2>3, <2>4, <2>5 DEF WorkerStep
<1>7. QED
  BY <1>2, <1>3, <1>4, <1>5, <1>6 DEF TaskStep

\* The other steps keep every status, but for the cancellation by connection.
LEMMA OtherSteps ==
    ASSUME [Next]_vars, ~AllocateSequence, \A u \in Ids : ~TaskStep(u),
           \A c \in Conns : ~CancelByConnection(c)
    PROVE  UNCHANGED <<status, nextSequence, allocated>>
<1>1. ASSUME NEW c \in Conns, RequireSftp(c) \/ NothingToStart(c)
      PROVE  UNCHANGED <<status, nextSequence, allocated>>
  BY <1>1 DEF RequireSftp, NothingToStart, taskVars
<1>2. ASSUME NEW c \in Conns, LinkStep(c)
      PROVE  UNCHANGED <<status, nextSequence, allocated>>
  BY <1>2 DEF LinkStep, SftpDown, SftpUp, CloseFileSessions, CloseSsh, taskVars
<1>3. CASE UNCHANGED vars
  BY <1>3 DEF vars
<1>4. QED
  BY <1>1, <1>2, <1>3 DEF Next, TaskStep

\* A set of tasks that only shrinks stays within its bound.
LEMMA SlotsShrink ==
    ASSUME NEW c \in Conns, NEW n \in Nat, Cardinality(ActiveOf(c)) <= n,
           ActiveOf(c)' \subseteq ActiveOf(c)
    PROVE  Cardinality(ActiveOf(c)') <= n
<1>1. IsFiniteSet(ActiveOf(c))
  BY FS_Subset, QueueAssumption DEF ActiveOf, Owned
<1>2. /\ IsFiniteSet(ActiveOf(c)')
      /\ Cardinality(ActiveOf(c)') <= Cardinality(ActiveOf(c))
  BY <1>1, FS_Subset
<1>3. Cardinality(ActiveOf(c)) \in Nat /\ Cardinality(ActiveOf(c)') \in Nat
  BY <1>1, <1>2, FS_CardinalityType
<1>4. QED
  BY <1>2, <1>3

\* The slots are never exceeded, whoever starts, resumes or retries what and when.
LEMMA SlotStep == TypeOK /\ HandlersInv /\ SlotLimit /\ [Next]_vars => SlotLimit'
<1> SUFFICES ASSUME TypeOK, HandlersInv, SlotLimit, [Next]_vars, NEW c \in Conns
             PROVE  Cardinality(ActiveOf(c)') <= Limit
  BY DEF SlotLimit
<1>0. Cardinality(ActiveOf(c)) <= Limit /\ Limit \in Nat
  BY QueueAssumption DEF SlotLimit
<1>1. CASE AllocateSequence \/ \E d \in Conns : CancelByConnection(d)
  <2>1. ActiveOf(c)' \subseteq ActiveOf(c)
    BY <1>1 DEF AllocateSequence, CancelByConnection, CancelOwned, ActiveOf, Owned, Active,
                taskVars
  <2>2. QED
    BY <1>0, <2>1, SlotsShrink
<1>2. ASSUME NEW u \in Ids, TaskStep(u) PROVE Cardinality(ActiveOf(c)') <= Limit
  <2>1. Moves(u) /\ \A t \in Ids \ {u} : status'[t] = status[t]
    BY <1>2, StatusMoves
  <2>2. CASE status[u] = "Pending" /\ status'[u] = "Running" /\ SlotFree(Owner[u])
              /\ c = Owner[u]
    <3>1. ActiveOf(c)' = ActiveOf(c) \cup {u} /\ u \notin ActiveOf(c)
      BY <2>1, <2>2 DEF ActiveOf, Owned, Active
    <3>2. IsFiniteSet(ActiveOf(c))
      BY FS_Subset, QueueAssumption DEF ActiveOf, Owned
    <3>3. Cardinality(ActiveOf(c)') = Cardinality(ActiveOf(c)) + 1
      BY <3>1, <3>2, FS_AddElement
    <3>4. Cardinality(ActiveOf(c)) < Limit /\ Cardinality(ActiveOf(c)) \in Nat
      BY <2>2, <3>2, FS_CardinalityType DEF SlotFree
    <3>5. QED
      BY <1>0, <3>3, <3>4
  <2>3. CASE ~(status[u] = "Pending" /\ status'[u] = "Running" /\ SlotFree(Owner[u])
                /\ c = Owner[u])
    <3>1. ActiveOf(c)' \subseteq ActiveOf(c)
      BY <2>1, <2>3 DEF Moves, ActiveOf, Owned, Active, Settled
    <3>2. QED
      BY <1>0, <3>1, SlotsShrink
  <2>4. QED
    BY <2>2, <2>3
<1>3. CASE UNCHANGED <<status, nextSequence, allocated>>
  <2>1. ActiveOf(c)' \subseteq ActiveOf(c)
    BY <1>3 DEF ActiveOf, Owned
  <2>2. QED
    BY <1>0, <2>1, SlotsShrink
<1>4. QED
  BY <1>1, <1>2, <1>3, OtherSteps

\* At most Limit tasks of a connection hold a slot.
THEOREM SlotsSafe == Spec => []SlotLimit
<1>1. Init => SlotLimit
  <2> SUFFICES ASSUME Init, NEW c \in Conns PROVE Cardinality(ActiveOf(c)) <= Limit
    BY DEF SlotLimit
  <2>1. ActiveOf(c) = {}
    BY DEF Init, TasksInit, ActiveOf, Owned, Active
  <2>2. QED
    BY <2>1, FS_EmptySet, QueueAssumption
<1>2. QED
  BY <1>1, SlotStep, TypeCorrect, HandlersSafe, PTL DEF Spec

-----------------------------------------------------------------------------
(* Wake-ups: a connection's tasks are counted by what they mean for it.    *)

\* The tasks whose worker will still make a start call for a slot given back.
FreedOf(c) == {t \in Owned(c) : status[t] \notin Active /\ Handlers(t) > 0}
Calls(c)   == entering[c] + picking[c]
Bit(b)     == IF b THEN 1 ELSE 0

LEMMA CountOne ==
    ASSUME NEW S, IsFiniteSet(S), NEW u
    PROVE  /\ Cardinality(S \ {u}) \in Nat
           /\ Cardinality(S) = Cardinality(S \ {u}) + Bit(u \in S)
<1>1. IsFiniteSet(S \ {u})
  BY FS_Subset
<1>2. Cardinality(S \ {u}) \in Nat
  BY <1>1, FS_CardinalityType
<1>3. CASE u \in S
  <2>1. S = (S \ {u}) \cup {u}
    BY <1>3
  <2>2. Cardinality((S \ {u}) \cup {u}) = Cardinality(S \ {u}) + 1
    BY <1>1, FS_AddElement
  <2>3. QED
    BY <1>2, <1>3, <2>1, <2>2 DEF Bit
<1>4. CASE u \notin S
  <2>1. S \ {u} = S
    BY <1>4
  <2>2. Cardinality(S \ {u}) = Cardinality(S)
    BY <2>1
  <2>3. Bit(u \in S) = 0
    BY <1>4 DEF Bit
  <2>4. QED
    BY <1>2, <2>2, <2>3
<1>5. QED
  BY <1>3, <1>4

\* A step about task u changes the three counts by what becomes of u alone.
LEMMA CountTask ==
    ASSUME NEW u \in Ids, NEW c \in Conns, TouchesOnly(u)
    PROVE  \E a, p, g \in Nat :
              /\ Cardinality(ActiveOf(c))   = a + Bit(u \in ActiveOf(c))
              /\ Cardinality(ActiveOf(c)')  = a + Bit(u \in ActiveOf(c)')
              /\ Cardinality(PendingOf(c))  = p + Bit(u \in PendingOf(c))
              /\ Cardinality(PendingOf(c)') = p + Bit(u \in PendingOf(c)')
              /\ Cardinality(FreedOf(c))    = g + Bit(u \in FreedOf(c))
              /\ Cardinality(FreedOf(c)')   = g + Bit(u \in FreedOf(c)')
<1>1. /\ IsFiniteSet(ActiveOf(c))  /\ IsFiniteSet(ActiveOf(c)')
      /\ IsFiniteSet(PendingOf(c)) /\ IsFiniteSet(PendingOf(c)')
      /\ IsFiniteSet(FreedOf(c))   /\ IsFiniteSet(FreedOf(c)')
  <2>1. /\ ActiveOf(c)  \subseteq Ids /\ ActiveOf(c)'  \subseteq Ids
        /\ PendingOf(c) \subseteq Ids /\ PendingOf(c)' \subseteq Ids
        /\ FreedOf(c)   \subseteq Ids /\ FreedOf(c)'   \subseteq Ids
    BY DEF ActiveOf, PendingOf, FreedOf, Owned
  <2>2. QED
    BY <2>1, FS_Subset, QueueAssumption
<1>2. /\ ActiveOf(c)' \ {u}  = ActiveOf(c) \ {u}
      /\ PendingOf(c)' \ {u} = PendingOf(c) \ {u}
  BY DEF ActiveOf, PendingOf, Owned, TouchesOnly
<1>3. FreedOf(c)' \ {u} = FreedOf(c) \ {u}
  BY DEF FreedOf, Owned, TouchesOnly, Handlers
<1> DEFINE a == Cardinality(ActiveOf(c) \ {u})
           p == Cardinality(PendingOf(c) \ {u})
           g == Cardinality(FreedOf(c) \ {u})
<1>4. /\ a \in Nat /\ Cardinality(ActiveOf(c)) = a + Bit(u \in ActiveOf(c))
      /\ Cardinality(ActiveOf(c)') = a + Bit(u \in ActiveOf(c)')
  BY <1>1, <1>2, CountOne
<1>5. /\ p \in Nat /\ Cardinality(PendingOf(c)) = p + Bit(u \in PendingOf(c))
      /\ Cardinality(PendingOf(c)') = p + Bit(u \in PendingOf(c)')
  BY <1>1, <1>2, CountOne
<1>6. /\ g \in Nat /\ Cardinality(FreedOf(c)) = g + Bit(u \in FreedOf(c))
      /\ Cardinality(FreedOf(c)') = g + Bit(u \in FreedOf(c)')
  BY <1>1, <1>3, CountOne
<1>7. QED
  BY <1>4, <1>5, <1>6

\* Enough start calls for connection c.
Enough(c) == Startable(c) <= Wakers(c)

\* What a step about u must give its connection to keep it awake.
Pays(u) ==
    LET c == Owner[u]
        held == status[u] \in Active      holds == status'[u] \in Active
        waited == status[u] = "Pending"   waits == status'[u] = "Pending"
        freed == ~held /\ Handlers(u) > 0 frees == ~holds /\ Handlers(u)' > 0
    IN  \/ c \in lost'
        \/ /\ Calls(c)' = Calls(c)
           /\ \/ (held <=> holds) /\ (waits => waited) /\ (freed => frees)
              \/ held /\ ~holds /\ ~waits /\ frees
        \/ /\ Calls(c)' = Calls(c) + 1
           /\ \/ (held <=> holds) /\ ((waited <=> waits) \/ (freed => frees))
              \/ held /\ ~holds /\ ~waits
        \/ /\ Calls(c)' = Calls(c) - 1
           /\ SlotFree(c) /\ waited /\ ~freed /\ holds

\* A step that pays keeps every connection awake.
LEMMA PayingStep ==
    ASSUME NEW u \in Ids, TypeOK, TypeOK', TouchesOnly(u), Pays(u), WakeUpsConserved,
           \A c \in Conns \ {Owner[u]} : Calls(c)' = Calls(c)
    PROVE  WakeUpsConserved'
<1> SUFFICES ASSUME NEW c \in Conns, c \notin lost' PROVE Enough(c)'
  BY DEF WakeUpsConserved, Enough
<1>1. Enough(c)
  BY DEF WakeUpsConserved, Enough, TouchesOnly
<1>2. PICK a \in Nat, p \in Nat, g \in Nat :
              /\ Cardinality(ActiveOf(c))   = a + Bit(u \in ActiveOf(c))
              /\ Cardinality(ActiveOf(c)')  = a + Bit(u \in ActiveOf(c)')
              /\ Cardinality(PendingOf(c))  = p + Bit(u \in PendingOf(c))
              /\ Cardinality(PendingOf(c)') = p + Bit(u \in PendingOf(c)')
              /\ Cardinality(FreedOf(c))    = g + Bit(u \in FreedOf(c))
              /\ Cardinality(FreedOf(c)')   = g + Bit(u \in FreedOf(c)')
  BY CountTask
<1>3. Limit \in Nat /\ Calls(c) \in Nat /\ Calls(c)' \in Nat
  BY QueueAssumption DEF Calls, TypeOK
<1>4. /\ Startable(c)  = LET f == Limit - Cardinality(ActiveOf(c))
                             n == Cardinality(PendingOf(c)) IN IF n < f THEN n ELSE f
      /\ Startable(c)' = LET f == Limit - Cardinality(ActiveOf(c)')
                             n == Cardinality(PendingOf(c)') IN IF n < f THEN n ELSE f
  BY DEF Startable
<1>5. /\ Wakers(c)  = Calls(c) + Cardinality(FreedOf(c))
      /\ Wakers(c)' = Calls(c)' + Cardinality(FreedOf(c)')
  BY DEF Wakers, FreedOf, Calls
<1>6. CASE Owner[u] # c
  <2>1. /\ u \notin ActiveOf(c)  /\ u \notin ActiveOf(c)'
        /\ u \notin PendingOf(c) /\ u \notin PendingOf(c)'
        /\ u \notin FreedOf(c)   /\ u \notin FreedOf(c)'
    BY <1>6 DEF ActiveOf, PendingOf, FreedOf, Owned
  <2>2. Calls(c)' = Calls(c)
    BY <1>6
  <2>3. QED
    BY <1>1, <1>2, <1>3, <1>4, <1>5, <2>1, <2>2 DEF Enough, Bit
<1>7. CASE Owner[u] = c
  <2> DEFINE held == u \in ActiveOf(c)     holds == u \in ActiveOf(c)'
             waited == u \in PendingOf(c)  waits == u \in PendingOf(c)'
             freed == u \in FreedOf(c)     frees == u \in FreedOf(c)'
  <2>1. /\ held <=> status[u] \in Active /\ TRUE
        /\ holds <=> status'[u] \in Active
        /\ waited <=> status[u] = "Pending"
        /\ waits <=> status'[u] = "Pending"
        /\ freed <=> status[u] \notin Active /\ Handlers(u) > 0
        /\ frees <=> status'[u] \notin Active /\ Handlers(u)' > 0
    BY <1>7 DEF ActiveOf, PendingOf, FreedOf, Owned, Active
  <2>2. ~(held /\ waited) /\ ~(holds /\ waits) /\ ~(held /\ freed) /\ ~(holds /\ frees)
    BY DEF ActiveOf, PendingOf, FreedOf, Active
  <2>3. \/ /\ Calls(c)' = Calls(c)
           /\ \/ (held <=> holds) /\ (waits => waited) /\ (freed => frees)
              \/ held /\ ~holds /\ ~waits /\ frees
        \/ /\ Calls(c)' = Calls(c) + 1
           /\ \/ (held <=> holds) /\ ((waited <=> waits) \/ (freed => frees))
              \/ held /\ ~holds /\ ~waits
        \/ /\ Calls(c)' = Calls(c) - 1
           /\ SlotFree(c) /\ waited /\ ~freed /\ holds
    BY <1>7, <2>1 DEF Pays
  <2> HIDE DEF held, holds, waited, waits, freed, frees
  <2>4. SlotFree(c) => Cardinality(ActiveOf(c)) < Limit
    BY DEF SlotFree
  <2>5. /\ Cardinality(ActiveOf(c))   = a + Bit(held)
        /\ Cardinality(ActiveOf(c)')  = a + Bit(holds)
        /\ Cardinality(PendingOf(c))  = p + Bit(waited)
        /\ Cardinality(PendingOf(c)') = p + Bit(waits)
        /\ Cardinality(FreedOf(c))    = g + Bit(freed)
        /\ Cardinality(FreedOf(c)')   = g + Bit(frees)
    BY <1>2 DEF held, holds, waited, waits, freed, frees
  <2>6. QED
    BY <1>1, <1>3, <1>4, <1>5, <2>2, <2>3, <2>4, <2>5 DEF Enough, Bit
<1>8. QED
  BY <1>6, <1>7

\* The commands and the calls that claim a task pay: a task that joins the queue or
\* a slot given back comes with a start call, or a worker that will make one.
LEMMA QueueingPays ==
    ASSUME NEW u \in Ids, TypeOK, HandlersInv,
           InsertTask(u) \/ UserStep(u) \/ StartNextPending(u) \/ MarkRunning(u)
    PROVE  /\ TouchesOnly(u) /\ Pays(u)
           /\ \A c \in Conns \ {Owner[u]} : Calls(c)' = Calls(c)
<1>1. /\ TaskInv(u) /\ Owner[u] \in Conns
      /\ claims[u] \in Nat /\ copying[u] \in Nat /\ asking[u] \in Nat
  BY AtTask, QueueAssumption
<1>2. \A c \in Conns : entering[c] \in Nat /\ picking[c] \in Nat
  BY DEF TypeOK
<1> USE DEF TypeOK, TasksTypeOK
<1>3. CASE InsertTask(u)
  <2>1. TouchesOnly(u) /\ \A c \in Conns \ {Owner[u]} : Calls(c)' = Calls(c)
    BY <1>3 DEF TouchesOnly, InsertTask, InsertPending, Calls
  <2>2. /\ Calls(Owner[u])' = Calls(Owner[u]) + 1
        /\ status[u] = "Absent" /\ status'[u] = "Pending" /\ Handlers(u) = 0
    BY <1>1, <1>2, <1>3 DEF InsertTask, InsertPending, Calls, TaskInv, NotInsertedYet
  <2>3. QED
    BY <2>1, <2>2 DEF Pays, Active
<1>4. CASE Retry(u)
  <2>1. TouchesOnly(u) /\ \A c \in Conns \ {Owner[u]} : Calls(c)' = Calls(c)
    BY <1>4 DEF TouchesOnly, Retry, RetryTask, InsertPending, Calls
  <2>2. /\ Calls(Owner[u])' = Calls(Owner[u]) + 1
        /\ status[u] = "Failed" /\ status'[u] = "Pending" /\ Handlers(u) = 0
    BY <1>1, <1>2, <1>4 DEF Retry, RetryTask, InsertPending, Calls, TaskInv
  <2>3. QED
    BY <2>1, <2>2 DEF Pays, Active
<1>5. CASE Cancel(u) \/ Pause(u) \/ Resume(u) \/ Delete(u) \/ Resolve(u)
  <2>1. UNCHANGED queueVars /\ \A t \in Ids \ {u} : status'[t] = status[t]
    BY <1>5 DEF Cancel, CancelTask, Pause, PauseTask, Resume, ResumeTask, Delete, DeleteTask,
                Resolve, ResolveConflict, Transition
  <2>2. TouchesOnly(u) /\ \A c \in Conns : Calls(c)' = Calls(c)
    BY <2>1 DEF TouchesOnly, queueVars, Calls
  <2>3. Handlers(u)' = Handlers(u) /\ lost' = lost
    BY <2>1 DEF queueVars, Handlers
  <2>4. \/ (status[u] \in Active <=> status'[u] \in Active) /\ status'[u] # "Pending"
        \/ status[u] = "Pending" /\ status'[u] \in {"Cancelled", "Absent"}
        \/ status[u] \in Settled /\ status'[u] = "Absent"
        \/ status[u] \in Active /\ status'[u] = "Cancelled"
    BY <1>5 DEF Cancel, CancelTask, Pause, PauseTask, Resume, ResumeTask, Delete, DeleteTask,
                Resolve, ResolveConflict, Transition, Active, Settled
  <2>5. status[u] \in Active => Handlers(u) > 0 \/ Owner[u] \in lost
    BY <1>1 DEF TaskInv, Active, Handlers
  <2>6. QED
    BY <1>1, <2>2, <2>3, <2>4, <2>5 DEF Pays, Active, Settled
<1>6. CASE StartNextPending(u)
  <2>1. TouchesOnly(u) /\ \A c \in Conns \ {Owner[u]} : Calls(c)' = Calls(c)
    BY <1>6 DEF TouchesOnly, StartNextPending, Calls
  <2>2. /\ Calls(Owner[u])' = Calls(Owner[u]) - 1 /\ SlotFree(Owner[u])
        /\ status[u] = "Pending" /\ status'[u] = "Running" /\ Handlers(u) = 0
    BY <1>1, <1>2, <1>6 DEF StartNextPending, Calls, TaskInv
  <2>3. QED
    BY <2>1, <2>2 DEF Pays, Active
<1>7. CASE MarkRunning(u)
  <2>1. TouchesOnly(u) /\ \A c \in Conns : Calls(c)' = Calls(c)
    BY <1>7 DEF TouchesOnly, MarkRunning, Calls
  <2>2. status[u] # "Pending"
    BY <1>1, <1>7 DEF MarkRunning, TaskInv, Handlers
  <2>3. (status'[u] = "Running" /\ status[u] = "Running") \/ Owner[u] \in lost'
    BY <1>7, <2>2 DEF MarkRunning
  <2>4. QED
    BY <1>1, <2>1, <2>3 DEF Pays, Active
<1>8. QED
  BY <1>3, <1>4, <1>5, <1>6, <1>7 DEF UserStep

\* A worker that ends makes a start call; one that goes on keeps its slot.
LEMMA WorkerPays ==
    ASSUME NEW u \in Ids, TypeOK, HandlersInv, WorkerStep(u)
    PROVE  /\ TouchesOnly(u) /\ Pays(u)
           /\ \A c \in Conns \ {Owner[u]} : Calls(c)' = Calls(c)
<1>1. /\ TaskInv(u) /\ Owner[u] \in Conns
      /\ claims[u] \in Nat /\ copying[u] \in Nat /\ asking[u] \in Nat
  BY AtTask, QueueAssumption
<1>2. \A c \in Conns : entering[c] \in Nat /\ picking[c] \in Nat
  BY DEF TypeOK
<1> USE DEF TypeOK, TasksTypeOK
<1>3. CASE WorkerSeesStop(u) \/ AskerSeesStop(u)
  <2>1. TouchesOnly(u) /\ \A c \in Conns \ {Owner[u]} : Calls(c)' = Calls(c)
    BY <1>3 DEF TouchesOnly, WorkerSeesStop, AskerSeesStop, EndCopying, Calls, taskVars
  <2>2. Calls(Owner[u])' = Calls(Owner[u]) + 1 /\ status'[u] = status[u]
    BY <1>1, <1>2, <1>3 DEF WorkerSeesStop, AskerSeesStop, EndCopying, Calls, taskVars
  <2>3. QED
    BY <2>1, <2>2 DEF Pays
<1>4. CASE WorkerAsks(u) \/ WorkerTakesAnswer(u) \/ WorkerMarksItem(u)
  <2>1. TouchesOnly(u) /\ \A c \in Conns : Calls(c)' = Calls(c)
    BY <1>4 DEF TouchesOnly, WorkerAsks, RequestConflict, WorkerTakesAnswer, TakeDirective,
                WorkerMarksItem, MarkImperfect, Calls, queueVars
  <2>2. status[u] \in Active /\ status'[u] \in Active
    BY <1>4 DEF WorkerAsks, RequestConflict, WorkerTakesAnswer, TakeDirective,
                WorkerMarksItem, MarkImperfect, Active
  <2>3. QED
    BY <1>1, <2>1, <2>2 DEF Pays, Active
<1>5. CASE WorkerCompletes(u) \/ WorkerFails(u)
  <2>1. TouchesOnly(u) /\ \A c \in Conns \ {Owner[u]} : Calls(c)' = Calls(c)
    BY <1>5 DEF TouchesOnly, WorkerCompletes, WorkerFails, EndCopying, MarkCompleted,
                MarkFailed, Calls
  <2>2. Calls(Owner[u])' = Calls(Owner[u]) + 1
    BY <1>1, <1>2, <1>5 DEF WorkerCompletes, WorkerFails, EndCopying, Calls
  <2>3. \/ status'[u] = status[u]
        \/ status[u] \in Active /\ status'[u] \in {"Failed", "Partial", "Completed"}
    BY <1>5 DEF WorkerCompletes, WorkerFails, MarkCompleted, MarkFailed, Active
  <2>4. QED
    BY <2>1, <2>2, <2>3 DEF Pays, Active
<1>6. QED
  BY <1>3, <1>4, <1>5 DEF WorkerStep

\* Where no slot is free or no task waits, no start call is needed.
LEMMA IdleCall ==
    ASSUME NEW active \in SUBSET Ids, NEW pending \in SUBSET Ids, NEW freed \in SUBSET Ids,
           NEW calls \in Nat, ~(Cardinality(active) < Limit) \/ pending = {}
    PROVE  LET free == Limit - Cardinality(active)
           IN  (IF Cardinality(pending) < free THEN Cardinality(pending) ELSE free)
                 <= calls + Cardinality(freed)
<1>1. /\ Cardinality(active) \in Nat /\ Cardinality(pending) \in Nat
      /\ Cardinality(freed) \in Nat
  BY FS_Subset, FS_CardinalityType, QueueAssumption
<1>2. pending = {} => Cardinality(pending) = 0
  BY FS_EmptySet
<1>3. QED
  BY <1>1, <1>2, QueueAssumption

\* A step that touches no task and no number of start calls.
LEMMA QuietStep ==
    ASSUME WakeUpsConserved, lost \subseteq lost', NEW c \in Conns, c \notin lost',
           UNCHANGED <<status, claims, copying, asking>>, Calls(c)' = Calls(c)
    PROVE  Enough(c)'
<1>1. ActiveOf(c)' = ActiveOf(c) /\ PendingOf(c)' = PendingOf(c) /\ FreedOf(c)' = FreedOf(c)
  BY DEF ActiveOf, PendingOf, FreedOf, Owned, Handlers
<1>2. Startable(c)' = Startable(c)
  BY <1>1 DEF Startable
<1>3. Wakers(c)' = Wakers(c)
  BY <1>1 DEF Wakers, Calls, FreedOf
<1>4. QED
  BY <1>2, <1>3 DEF WakeUpsConserved, Enough

\* Each step keeps every connection awake.
LEMMA WakeStep ==
    TypeOK /\ TypeOK' /\ HandlersInv /\ WakeUpsConserved /\ [Next]_vars => WakeUpsConserved'
<1> SUFFICES ASSUME TypeOK, TypeOK', HandlersInv, WakeUpsConserved, [Next]_vars
             PROVE  WakeUpsConserved'
  OBVIOUS
<1>1. CASE AllocateSequence \/ UNCHANGED vars
  BY <1>1, QuietStep DEF AllocateSequence, vars, taskVars, Calls, WakeUpsConserved, Enough
<1>2. ASSUME NEW u \in Ids,
             InsertTask(u) \/ UserStep(u) \/ StartNextPending(u) \/ MarkRunning(u)
      PROVE  WakeUpsConserved'
  BY <1>2, QueueingPays, PayingStep
<1>3. ASSUME NEW u \in Ids, WorkerStep(u) PROVE WakeUpsConserved'
  BY <1>3, WorkerPays, PayingStep
<1>4. ASSUME NEW d \in Conns, RequireSftp(d) PROVE WakeUpsConserved'
  <2> SUFFICES ASSUME NEW c \in Conns, c \notin lost' PROVE Enough(c)'
    BY DEF WakeUpsConserved, Enough
  <2>1. lost \subseteq lost' /\ UNCHANGED <<status, claims, copying, asking>>
    BY <1>4 DEF RequireSftp, taskVars
  <2>2. Calls(c)' = Calls(c)
    BY <1>4 DEF RequireSftp, Calls, TypeOK
  <2>3. QED
    BY <2>1, <2>2, QuietStep
<1>5. ASSUME NEW d \in Conns, NothingToStart(d) PROVE WakeUpsConserved'
  <2> SUFFICES ASSUME NEW c \in Conns, c \notin lost' PROVE Enough(c)'
    BY DEF WakeUpsConserved, Enough
  <2>1. lost = lost' /\ UNCHANGED <<status, claims, copying, asking>>
    BY <1>5 DEF NothingToStart, taskVars
  <2>2. CASE c = d
    <3>1. ~(Cardinality(ActiveOf(c)') < Limit) \/ PendingOf(c)' = {}
      <4>1. ActiveOf(c)' = ActiveOf(c) /\ PendingOf(c)' = PendingOf(c)
        BY <2>1 DEF ActiveOf, PendingOf, Owned
      <4>2. QED
        BY <1>5, <2>2, <4>1 DEF NothingToStart, SlotFree
    <3>2. /\ ActiveOf(c)' \in SUBSET Ids /\ PendingOf(c)' \in SUBSET Ids
          /\ FreedOf(c)' \in SUBSET Ids /\ Calls(c)' \in Nat
      BY DEF ActiveOf, PendingOf, FreedOf, Owned, Calls, TypeOK
    <3>3. QED
      BY <3>1, <3>2, IdleCall DEF Enough, Startable, Wakers, Calls, FreedOf
  <2>3. CASE c # d
    BY <1>5, <2>1, <2>3, QuietStep DEF NothingToStart, Calls
  <2>4. QED
    BY <2>2, <2>3
<1>6. ASSUME NEW d \in Conns, CancelByConnection(d) PROVE WakeUpsConserved'
  <2> SUFFICES ASSUME NEW c \in Conns, c \notin lost' PROVE Enough(c)'
    BY DEF WakeUpsConserved, Enough
  <2>1. UNCHANGED <<lost, entering, picking, claims, copying, asking>>
    BY <1>6 DEF CancelByConnection
  <2>2. CASE c = d
    <3>1. PendingOf(c)' = {}
      BY <1>6, <2>2 DEF CancelByConnection, CancelOwned, PendingOf, Owned
    <3>2. /\ ActiveOf(c)' \in SUBSET Ids /\ PendingOf(c)' \in SUBSET Ids
          /\ FreedOf(c)' \in SUBSET Ids /\ Calls(c)' \in Nat
      BY DEF ActiveOf, PendingOf, FreedOf, Owned, Calls, TypeOK
    <3>3. QED
      BY <3>1, <3>2, IdleCall DEF Enough, Startable, Wakers, Calls, FreedOf
  <2>3. CASE c # d
    <3>1. \A t \in Owned(c) : status'[t] = status[t]
      BY <1>6, <2>3 DEF CancelByConnection, CancelOwned, Owned
    <3>2. /\ ActiveOf(c)' = ActiveOf(c) /\ PendingOf(c)' = PendingOf(c)
          /\ FreedOf(c)' = FreedOf(c)
      BY <2>1, <3>1 DEF ActiveOf, PendingOf, FreedOf, Owned, Handlers
    <3>3. Startable(c)' = Startable(c)
      BY <3>2 DEF Startable
    <3>4. Wakers(c)' = Wakers(c)
      BY <2>1, <3>2 DEF Wakers, FreedOf
    <3>5. QED
      BY <2>1, <3>3, <3>4 DEF WakeUpsConserved, Enough
  <2>4. QED
    BY <2>2, <2>3
<1>7. ASSUME NEW d \in Conns,
             SftpDown(d) \/ SftpUp(d) \/ CloseFileSessions(d) \/ CloseSsh(d)
      PROVE  WakeUpsConserved'
  <2> SUFFICES ASSUME NEW c \in Conns, c \notin lost' PROVE Enough(c)'
    BY DEF WakeUpsConserved, Enough
  <2>1. UNCHANGED <<status, claims, copying, asking, lost, entering, picking>>
    BY <1>7 DEF SftpDown, SftpUp, CloseFileSessions, CloseSsh, taskVars
  <2>2. QED
    BY <2>1, QuietStep DEF Calls
<1>8. QED
  BY <1>1, <1>2, <1>3, <1>4, <1>5, <1>6, <1>7 DEF Next, LinkStep

\* No wake-up is ever lost, with any number of tasks, slots, start calls and workers.
THEOREM WakeUpsSafe == Spec => []WakeUpsConserved
<1>1. Init => WakeUpsConserved
  <2> SUFFICES ASSUME Init, NEW c \in Conns PROVE Enough(c)
    BY DEF WakeUpsConserved, Enough
  <2>1. PendingOf(c) = {}
    BY DEF Init, TasksInit, PendingOf, Owned
  <2>2. /\ ActiveOf(c) \in SUBSET Ids /\ PendingOf(c) \in SUBSET Ids
        /\ FreedOf(c) \in SUBSET Ids /\ Calls(c) \in Nat
    BY DEF Init, ActiveOf, PendingOf, FreedOf, Owned, Calls
  <2>3. QED
    BY <2>1, <2>2, IdleCall DEF Enough, Startable, Wakers, Calls, FreedOf
<1>2. QED
  BY <1>1, WakeStep, TypeCorrect, HandlersSafe, PTL DEF Spec

-----------------------------------------------------------------------------
(* A task that is over, and the refinement of TransferLifecycle.           *)

\* What SettledStays says of one task and one step.
StaysSettled(t) ==
    /\ status[t] \in {"Cancelled", "Partial", "Completed"} => status'[t] \in {status[t], "Absent"}
    /\ status[t] = "Failed" => status'[t] \in {"Failed", "Pending", "Absent"}
    /\ status[t] = "Absent" /\ ~NotInsertedYet(t) => status'[t] = "Absent"

\* No step of a worker, a start call or a command reopens a task that is over.
LEMMA SettledStep ==
    ASSUME TypeOK, HandlersInv, [Next]_vars, NEW t \in Ids
    PROVE  StaysSettled(t)
<1>1. CASE AllocateSequence \/ \E d \in Conns : CancelByConnection(d)
  BY <1>1 DEF AllocateSequence, CancelByConnection, CancelOwned, Active, taskVars,
              StaysSettled, TypeOK, TasksTypeOK
<1>2. ASSUME NEW u \in Ids, TaskStep(u) PROVE StaysSettled(t)
  <2>1. Moves(u) /\ \A v \in Ids \ {u} : status'[v] = status[v]
    BY <1>2, StatusMoves
  <2>2. CASE t = u
    BY <2>1, <2>2 DEF Moves, StaysSettled, Active, Settled, NotInsertedYet
  <2>3. CASE t # u
    BY <2>1, <2>3 DEF StaysSettled
  <2>4. QED
    BY <2>2, <2>3
<1>3. CASE UNCHANGED <<status, nextSequence, allocated>>
  BY <1>3 DEF StaysSettled
<1>4. QED
  BY <1>1, <1>2, <1>3, OtherSteps

\* A cancelled, completed or deleted task stays what it is whatever late calls arrive.
THEOREM SettledSafe == Spec => SettledStays
<1>1. TypeOK /\ HandlersInv /\ [Next]_vars => [\A t \in Ids : StaysSettled(t)]_vars
  BY SettledStep
<1>2. [\A t \in Ids : StaysSettled(t)]_vars
        <=> [\A t \in Ids :
               /\ status[t] \in {"Cancelled", "Partial", "Completed"}
                     => status'[t] \in {status[t], "Absent"}
               /\ status[t] = "Failed" => status'[t] \in {"Failed", "Pending", "Absent"}
               /\ status[t] = "Absent" /\ ~NotInsertedYet(t) => status'[t] = "Absent"]_vars
  BY DEF StaysSettled
<1>3. QED
  BY <1>1, <1>2, TypeCorrect, HandlersSafe, PTL DEF Spec, SettledStays

\* The stages of the tasks, the refinement mapping.
StageMap == [t \in Ids |-> StageOf(t)]

\* A task's stage moves exactly when its status does.
LEMMA StageOfMove ==
    ASSUME NEW u \in Ids, TypeOK, HandlersInv, TaskStep(u)
    PROVE  Lifecycle!Next \/ StageMap' = StageMap
<1>1. Moves(u) /\ \A t \in Ids \ {u} : status'[t] = status[t]
  BY StatusMoves
<1>2. nextSequence' = nextSequence
  BY DEF TaskStep, InsertTask, UserStep, Retry, Cancel, Pause, Resume, Delete, Resolve,
         StartNextPending, MarkRunning, WorkerStep, WorkerSeesStop, AskerSeesStop, WorkerAsks,
         WorkerTakesAnswer, WorkerMarksItem, WorkerCompletes, WorkerFails, EndCopying,
         queueVars
<1>3. TaskInv(u)
  BY AtTask
<1>4. \A t \in Ids \ {u} : StageOf(t)' = StageOf(t)
  BY <1>1, <1>2 DEF Moves, StageOf, NotInsertedYet
<1>5. ASSUME NEW from, NEW to, StageOf(u) \in from, StageOf(u)' = to
      PROVE  Lifecycle!Move(u, from, to)
  BY <1>4, <1>5 DEF Lifecycle!Move
<1>6. CASE status[u] = "Absent" /\ status'[u] = "Pending" /\ u \in allocated
  <2>1. StageOf(u) = "new" /\ StageOf(u)' = "queued"
    BY <1>6 DEF StageOf, NotInsertedYet, Active
  <2>2. QED
    BY <1>5, <2>1 DEF Lifecycle!Next, Lifecycle!Submit
<1>7. CASE allocated' = allocated
  <2>1. CASE status'[u] = status[u]
    <3>1. StageOf(u)' = StageOf(u)
      BY <1>2, <1>7, <2>1 DEF StageOf, NotInsertedYet
    <3>2. QED
      BY <1>4, <3>1 DEF StageMap
  <2>2. CASE status[u] = "Failed" /\ status'[u] = "Pending"
    <3>1. StageOf(u) = "failed" /\ StageOf(u)' = "queued"
      BY <2>2 DEF StageOf, Active
    <3>2. QED
      BY <1>5, <3>1 DEF Lifecycle!Next, Lifecycle!Submit
  <2>3. CASE status[u] = "Pending" /\ status'[u] = "Running" /\ SlotFree(Owner[u])
    <3>1. StageOf(u) = "queued" /\ StageOf(u)' = "holding"
      BY <2>3 DEF StageOf, Active
    <3>2. Lifecycle!Holding(Owner[u]) = ActiveOf(Owner[u])
      <4>1. ASSUME NEW t \in Ids PROVE (StageOf(t) = "holding") <=> (status[t] \in Active)
        BY DEF StageOf, Active, TypeOK, TasksTypeOK, Status, Settled
      <4>2. QED
        BY <4>1 DEF Lifecycle!Holding, ActiveOf, Owned
    <3>3. Cardinality(Lifecycle!Holding(Owner[u])) < Limit
      BY <2>3, <3>2 DEF SlotFree
    <3>4. QED
      <4>1. StageOf(u) \in {"queued"}
        BY <3>1
      <4>2. Lifecycle!Move(u, {"queued"}, "holding")
        BY <1>5, <3>1, <4>1
      <4>3. Lifecycle!Grant(u)
        BY <3>3, <4>2 DEF Lifecycle!Grant, Lifecycle!Cardinality, Cardinality
      <4>4. QED
        BY <4>3 DEF Lifecycle!Next
  <2>4. CASE status[u] \in Active /\ status'[u] \in Active
    <3>1. StageOf(u)' = StageOf(u)
      BY <2>4 DEF StageOf, Active
    <3>2. QED
      BY <1>4, <3>1 DEF StageMap
  <2>5. CASE status[u] \in Active /\ status'[u] = "Failed"
    <3>1. StageOf(u) = "holding" /\ StageOf(u)' = "failed"
      BY <2>5 DEF StageOf, Active
    <3>2. QED
      BY <1>5, <3>1 DEF Lifecycle!Next, Lifecycle!Fail
  <2>6. CASE status[u] \in Active /\ status'[u] \in {"Partial", "Completed"}
    <3>1. StageOf(u) = "holding" /\ StageOf(u)' = "done"
      BY <2>6 DEF StageOf, Active
    <3>2. QED
      BY <1>5, <3>1 DEF Lifecycle!Next, Lifecycle!Finish
  <2>7. CASE status[u] \in {"Pending"} \cup Active /\ status'[u] = "Cancelled"
    <3>1. StageOf(u) \in {"queued", "holding"} /\ StageOf(u)' = "cancelled"
      BY <2>7 DEF StageOf, Active
    <3>2. QED
      BY <1>5, <3>1 DEF Lifecycle!Next, Lifecycle!Cancel
  <2>8. CASE status[u] \in {"Pending"} \cup Settled /\ status'[u] = "Absent"
    <3>1. StageOf(u) \in {"queued", "cancelled", "failed", "done"}
      BY <2>8 DEF StageOf, Active, Settled
    <3>2. StageOf(u)' = "deleted"
      BY <1>2, <1>3, <1>7, <2>8 DEF StageOf, Active, Settled, TaskInv, NotInsertedYet
    <3>3. QED
      BY <1>5, <3>1, <3>2 DEF Lifecycle!Next, Lifecycle!Delete
  <2>9. QED
    BY <1>1, <1>7, <2>1, <2>2, <2>3, <2>4, <2>5, <2>6, <2>7, <2>8 DEF Moves
<1>8. QED
  BY <1>1, <1>6, <1>7 DEF Moves

\* Every step of the queue is a step of the lifecycle or leaves the stages alone.
LEMMA StageStep ==
    ASSUME TypeOK, HandlersInv, [Next]_vars
    PROVE  Lifecycle!Next \/ StageMap' = StageMap
<1>1. CASE AllocateSequence
  <2>1. /\ nextSequence' = nextSequence + 1 /\ allocated' = allocated \cup {nextSequence + 1}
        /\ status' = status /\ nextSequence \in Nat
    BY <1>1 DEF AllocateSequence, taskVars, TypeOK
  <2>2. ASSUME NEW t \in Ids PROVE NotInsertedYet(t)' <=> NotInsertedYet(t)
    BY <2>1, QueueAssumption DEF NotInsertedYet
  <2>3. ASSUME NEW t \in Ids PROVE StageOf(t)' = StageOf(t)
    BY <2>1, <2>2 DEF StageOf
  <2>4. QED
    BY <2>3 DEF StageMap
<1>2. ASSUME NEW c \in Conns, CancelByConnection(c) PROVE Lifecycle!Next
  <2>1. UNCHANGED <<nextSequence, allocated>>
    BY <1>2 DEF CancelByConnection
  <2>2. ASSUME NEW t \in Ids
        PROVE  StageOf(t)' = IF Owner[t] = c /\ StageOf(t) \in {"queued", "holding"}
                             THEN "cancelled" ELSE StageOf(t)
    <3>1. status'[t] = IF Owner[t] = c /\ status[t] \in {"Pending"} \cup Active
                       THEN "Cancelled" ELSE status[t]
      BY <1>2 DEF CancelByConnection, CancelOwned, Owned
    <3>2. (StageOf(t) \in {"queued", "holding"}) <=> (status[t] \in {"Pending"} \cup Active)
      BY DEF StageOf, Active, TypeOK, TasksTypeOK, Status, Settled
    <3>3. QED
      <4>1. (NotInsertedYet(t) <=> NotInsertedYet(t)') /\ Active = Active'
        BY <2>1 DEF NotInsertedYet, Active
      <4>2. CASE Owner[t] = c /\ status[t] \in {"Pending"} \cup Active
        BY <3>1, <3>2, <4>2 DEF StageOf, Active
      <4>3. CASE ~(Owner[t] = c /\ status[t] \in {"Pending"} \cup Active)
        <5>1. status'[t] = status[t]
          BY <3>1, <4>3
        <5>2. StageOf(t)' = StageOf(t)
          BY <4>1, <5>1 DEF StageOf
        <5>3. QED
          BY <3>2, <4>3, <5>2
      <4>4. QED
        BY <4>2, <4>3
  <2>3. Lifecycle!CancelAll(c)
    BY <2>2 DEF Lifecycle!CancelAll
  <2>4. QED
    BY <2>3 DEF Lifecycle!Next
<1>3. CASE UNCHANGED <<status, nextSequence, allocated>>
  BY <1>3 DEF StageMap, StageOf, NotInsertedYet
<1>4. QED
  BY <1>1, <1>2, <1>3, StageOfMove, OtherSteps

\* The transfer queue, with its two-step start calls, worker threads and closing
\* connections, implements the lifecycle a user is promised.
THEOREM Refinement == Spec => ImplementsLifecycle
<1>1. Init => Lifecycle!Init
  BY QueueAssumption
     DEF Init, TasksInit, Lifecycle!Init, StageOf, NotInsertedYet, Active, Settled
<1>2. TypeOK /\ HandlersInv /\ [Next]_vars => [Lifecycle!Next]_StageMap
  BY StageStep
<1>3. QED
  BY <1>1, <1>2, TypeCorrect, HandlersSafe, PTL
     DEF Spec, ImplementsLifecycle, Lifecycle!Spec, StageMap
=============================================================================
