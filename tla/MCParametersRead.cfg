SPECIFICATION ParametersSpec
CONSTANTS
  Threads = {1, 2}
  QueueDepth = 1
  MaxChanges = 2
  MaxResets = 1
  MaxFaults = 0
  Nodes = {1, 2}
  PoolSize = 3
  BatchMax = 2
  PageMax = 1
  MaxRestarts = 1
  MaxSets = 1
  Streams = {"journal"}
  Depth = 2
  Severities = {0, 1}
  Counts = {2}
  MaxMessages = 0
  MaxEvents = 3
  Nonces = {1, 2}
  Services = {"log"}
INVARIANT
  ZeroIsEveryRecord
CHECK_DEADLOCK FALSE
