\* Two transfers of one SFTP connection that may lose its channel or close; one slot.
CONSTANTS
    c1 = c1
    Ids = {1, 2}
    Conns = {c1}
    Stable = {}
    Owner <- OneOwner
    Limit = 1
    Choices = {"Skip", "OverwriteAll"}
    MaxRetries = 1
SPECIFICATION Spec
INVARIANT HandlersInv
PROPERTIES SettledStays ImplementsLifecycle
CHECK_DEADLOCK FALSE
