SPECIFICATION Spec
CONSTANTS
  Leader = l
  Daemons = {l, w}
  h = h
  Apps = {a, b, h}
  Hardcoded = {h}
  ClientFirst = 0
  ServerFirst = 4
  PortEnd = 5
  HandKeys <- MCHandKeys
  HandPorts = {1}
  PeerApps = {a}
  MaxCommands = 3
  MaxFaults = 1
  MaxJobs = 2
INVARIANTS TypeOK DistinctPorts PortsMatchRows
PROPERTY LoopsReturn
CHECK_DEADLOCK FALSE
