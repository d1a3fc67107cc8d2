SPECIFICATION ParametersSpec
CONSTANTS
  Threads = {1, 2}
  QueueDepth = 1
  MaxChanges = 2
  MaxResets = 1
  MaxFaults = 1
  Nodes = {1, 2}
  PoolSize = 3
  BatchMax = 2
  PageMax = 1
  MaxRestarts = 1
  MaxSets = 1
  Streams = {"log", "journal"}
  Depth = 2
  Severities = {0, 1}
  Counts = {2}
  MaxMessages = 3
  MaxEvents = 1
  Nonces = {1, 2}
  Services = {"table", "save", "remote", "log"}
INVARIANTS
  BatchIsWhole
  SaveSurvives
  CompleteIsWhole
  ValuesAreNamed
  SetIsTruthful
  SeenIsTrue
