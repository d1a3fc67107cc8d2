SPECIFICATION CommandsSpec
CONSTANTS
  Calls = {"c1", "c2"}
  NodeOf <- MCNodeOf
  Results = {"OK", "BUSY", "UNAVAILABLE"}
  Refusals = {"BUSY", "UNAVAILABLE", "INVALID_ARGUMENT"}
  Slots = {1}
  Attempts = 2
  MaxTickets = 3
  Threads = {fbo, t1}
  Fbo = fbo
  MaxCount = 2
  LinesMax = 3
  Listing = 3
  OutputMax = 2
  Backlog = 1
  MaxRequests = 3
  Services = {"retry", "fbo", "remexec"}
INVARIANTS
  ExclusiveLeaksAtMostOne
  IdleIsClean
  AnswerIsOfItsRun
PROPERTIES
  KeepsPromise
  StopEndsRun
