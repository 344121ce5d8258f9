SPECIFICATION FairSpec
CONSTANTS
    Slows = {}
    MaxSock = 3
    MaxCalls = 1
    MaxCommands = 0
    MaxOutages = 1
PROPERTIES Reconnects
