SPECIFICATION SupervisionSpec
CONSTANTS
  Callers = {c1}
  MinTimeout = 1
  MaxTimeout = 2
  MaxStops = 2
  StreakMax = 2
  Images = {1, 2}
  MaxChanges = 1
  Services = {"gndwdt", "limits", "scrub"}
INVARIANTS
  OncePerCrossing
PROPERTIES
  SilentNodeResets
  SweepFollowsInterval
  DecayIsFound
