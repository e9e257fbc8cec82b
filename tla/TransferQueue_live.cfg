\* Three transfers for the two slots of a channel that stays up, under fair workers and
\* start calls: does the queue move?
CONSTANTS
    c1 = c1
    Ids = {1, 2, 3}
    Conns = {c1}
    Stable = {c1}
    Owner <- OneOwner
    Limit = 2
    Choices = {"Skip"}
    MaxRetries = 0
SPECIFICATION FairSpec
INVARIANTS SlotLimit WakeUpsConserved
PROPERTIES QueueLives
CHECK_DEADLOCK FALSE
