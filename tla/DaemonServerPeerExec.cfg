SPECIFICATION Spec
CONSTANTS
    Locals = {l1}
    Remotes = {r1}
    LocalKinds = {"plain"}
    RemoteKinds = {"plain", "slow"}
    MaxSends = 2
    MaxCommands = 4
    MaxFd = 3
    Free = Free
CHECK_DEADLOCK FALSE
INVARIANTS PeerConnectionsStayOpen
