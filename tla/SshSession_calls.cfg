\* Two logins, a terminal and two file sessions of one connection that is closed or lost.
CONSTANTS
    Conns = {c1}
    Logins = {l1, l2}
    Terms = {t1}
    Files = {f1, f2}
    ConnOf <- OneConnection
SPECIFICATION FairSpec
INVARIANT SessionInv
PROPERTIES GoneStaysGone DisconnectShows
CHECK_DEADLOCK FALSE
