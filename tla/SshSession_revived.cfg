\* A login under way while its connection is closed.
CONSTANTS
    Conns = {c1}
    Logins = {l1}
    Terms = {}
    Files = {}
    ConnOf <- OneConnection
SPECIFICATION Spec
INVARIANT NoSessionAfterClose
CHECK_DEADLOCK FALSE
