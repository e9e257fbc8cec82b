\* The HTTP page while its request panel is in a window of its own.
CONSTANTS
    Pages = {"http"}
    Distributions = {d1}
    SessionIds = {t1}
    MaxSessions = 1
    MaxTabTurns = 3
SPECIFICATION AppSpec
INVARIANT OneHttpConsole
CHECK_DEADLOCK FALSE
