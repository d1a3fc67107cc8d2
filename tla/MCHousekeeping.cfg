SPECIFICATION HousekeepingSpec
CONSTANTS
  Threads = {1, 2}
  SampleBytes = 2
  MaxResets = 1
  MaxFaults = 1
  NReports = 2
  Classes = {0, 1}
  Callers = {"shell"}
  MaxTime = 3
  MaxChanges = 3
  MaxCollected = 4
  MaxRequests = 1
  Width = 16
  Starts = {0, 13}
  Capacities = {3, 4}
  History = 2
  StoreHistory = 2
  Batches = {1, 2}
  MaxStored = 5
  Handles = {1, 2}
  Names = {"a", "b"}
  Deadlines = {1, 2}
  Intervals = {0, 1, 2, 3}
  FeedInterval = 2
  Timeout = 3
  Services = {"settings", "schedule", "ring", "store", "health"}
INVARIANTS
  CleanIsSaved
  RingIsOfOneDefinition
  DueIsNear
  ServedWithoutGap
  ReadIsTheLatest
  SilenceEndsInReset
  FedUnlessFault
CHECK_DEADLOCK FALSE
