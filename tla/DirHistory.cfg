SPECIFICATION Spec
CONSTANTS
    TTYs = {t1, t2}
    Dirs = {home, a, b}
    DefaultDir = home
    Volatile = {a}
    Root = Root
    MaxSize = 2
    MaxIndex = 2
    Edits <- MCEdits
SYMMETRY Symmetry
INVARIANTS TypeOK NoHoles PointersInHistory ShellInStep
PROPERTY ImplementsList
