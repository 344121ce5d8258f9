SPECIFICATION FairSpec
CONSTANTS
    Slows = {s1}
    MaxSock = 2
    MaxCalls = 2
    MaxCommands = 1
    MaxOutages = 1
INVARIANTS TypeOK PairedUnlessGivenUp
PROPERTIES QueriesReturn
