SPECIFICATION FairSpec
CONSTANTS
    Locals = {l1, l2}
    Remotes = {r1}
    LocalKinds = {"plain", "ask", "keep", "slow", "invalid"}
    RemoteKinds = {"plain"}
    MaxSends = 2
    MaxCommands = 2
    MaxFd = 3
    Free = Free
CHECK_DEADLOCK FALSE
INVARIANTS TypeOK OneHolder OwnAnswersOnly
PROPERTIES NoSilentClose LocalsAreAnswered SlowConnectionsClose
