SPECIFICATION Spec
CONSTANTS
    Keys <- MCKeys
    Sessions <- MCSessions
    MaxPastes = 1
    MaxUpdates = 2
INVARIANTS TypeOK WithheldByCombo StuckOnlyIfAbandoned TrackedKeysAreHeld
PROPERTIES MonitoringDoublesNothing
