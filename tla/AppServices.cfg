SPECIFICATION Spec
CONSTANTS
    Apps = {"cad", "dash", "x", "y", "w"}
    Extra = {"x", "y", "w"}
    HasServer = {"dash", "x"}
    Shared = {"dash"}
    Buildable = {"cad", "x"}
    DevOnly = {"w"}
    Ignored = {"cad"}
    HandPort <- MCHandPort
    FirstServerPort = 5
    MaxPort = 6
    MaxCommit = 2
    Budgets <- MCBudgets
INVARIANTS TypeOK StoppedStaysStopped 
PROPERTIES KillsOnlyUnnamed CommandEnds StatusReachesLeader
\* Users, systemd and the programs may have nothing left to do
CHECK_DEADLOCK FALSE
