\* One transfer is enough to strand a running task.
CONSTANTS
    c1 = c1
    Ids = {1}
    Conns = {c1}
    Stable = {c1}
    Owner <- OneOwner
    Limit = 1
    Choices = {"OverwriteAll"}
    MaxRetries = 0
SPECIFICATION Spec
INVARIANT RunningIsServed
CHECK_DEADLOCK FALSE
