SPECIFICATION Spec
CONSTANTS
  Files <- MCFiles
  Receivers = {"server", "client"}
  SourceChanges = FALSE
INVARIANTS
  TargetIsWhole
