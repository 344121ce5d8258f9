SPECIFICATION Spec
CONSTANTS
    Peers = {p1, p2}
    MaxLinks = 2
    MaxTotal = 3
    MaxFd = 3
    MaxInbox = 1
    MaxExecs = 1
    Free = Free
CHECK_DEADLOCK FALSE
INVARIANTS ExecutedOnTarget
