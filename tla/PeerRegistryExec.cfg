SPECIFICATION FairSpec
CONSTANTS
    Peers = {p1}
    MaxLinks = 2
    MaxTotal = 2
    MaxFd = 2
    MaxInbox = 1
    MaxExecs = 1
    Free = Free
CHECK_DEADLOCK FALSE
INVARIANTS TypeOK
PROPERTIES ExecReturns
