SPECIFICATION FairSpec
CONSTANTS
  Callers = {c1}
  MinTimeout = 1
  MaxTimeout = 2
  MaxStops = 2
PROPERTIES
  GroundSilenceResets
