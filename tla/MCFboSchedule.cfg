SPECIFICATION FairSpec
CONSTANTS
  Entries = 2
  Burst = 2
  Latency = 1
  Contents <- MCContents
  Offsets = {0, 2}
  NotSet = NotSet
  MaxUptime = 4
  MaxUploads = 2
INVARIANTS
  RunsAtMostOnce
  RunsWhenAsked
  IdempotentUpload
PROPERTIES
  EntrySettles
