SPECIFICATION FairSpec
CONSTANTS
    Peers = {p1, p2}
    MaxLinks = 2
    MaxTotal = 3
    MaxFd = 3
    MaxInbox = 1
    MaxExecs = 0
    Free = Free
CHECK_DEADLOCK FALSE
INVARIANTS IdentityKept
PROPERTIES ConnectedIsListed GoneIsUnlisted
