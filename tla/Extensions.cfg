SPECIFICATION Spec
CONSTANTS
    MaxConn = 3
    Windows = {"browser", "editor"}
    Browser = "browser"
    Budgets <- MCBudgets
INVARIANTS TypeOK PasteAfterFocus ContextFollowsFocus
PROPERTIES TabsInOrder HostIsRegistered LoopComesBack
\* Every program may have nothing left to do
CHECK_DEADLOCK FALSE
