-------------------------- MODULE TransferLifecycle --------------------------
(***************************************************************************)
(* What the transfer queue promises its user, whatever start calls, worker *)
(* threads and locks it is made of: a task is submitted once, holds one of *)
(* Limit slots while it is worked on, ends in one of three ways, and only  *)
(* a failed task is ever submitted again.                                  *)
(***************************************************************************)
EXTENDS Naturals, FiniteSets

CONSTANTS Ids, Conns, Owner, Limit

VARIABLE stage          \* stage[t]: what the user has been told of t

Stage == {"new", "queued", "holding", "cancelled", "failed", "done", "deleted"}

Holding(c) == {t \in Ids : Owner[t] = c /\ stage[t] = "holding"}

Init == stage = [t \in Ids |-> "new"]

Move(t, from, to) ==
    /\ stage[t] \in from
    /\ stage' = [stage EXCEPT ![t] = to]

Submit(t) == Move(t, {"new", "failed"}, "queued")
Grant(t)  == Cardinality(Holding(Owner[t])) < Limit /\ Move(t, {"queued"}, "holding")
Finish(t) == Move(t, {"holding"}, "done")
Fail(t)   == Move(t, {"holding"}, "failed")
Cancel(t) == Move(t, {"queued", "holding"}, "cancelled")
Delete(t) == Move(t, {"queued", "cancelled", "failed", "done"}, "deleted")

\* Closing a connection cancels everything it has not finished, at once.
CancelAll(c) ==
    stage' = [t \in Ids |-> IF Owner[t] = c /\ stage[t] \in {"queued", "holding"}
                            THEN "cancelled" ELSE stage[t]]

Next ==
    \/ \E t \in Ids : Submit(t) \/ Grant(t) \/ Finish(t) \/ Fail(t) \/ Cancel(t) \/ Delete(t)
    \/ \E c \in Conns : CancelAll(c)

Spec == Init /\ [][Next]_stage
=============================================================================
