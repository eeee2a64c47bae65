SPECIFICATION Spec
CONSTANTS
  Test = TRUE
  MaxSalt = 4
  Attempts = 2
  MaxTrouble = 2
  MaxStarts = 1
INVARIANTS
  CleanRunPasses
  KeyNeverAdministers
  GenesisFits
PROPERTIES
  OutputIsWired
  EventuallyDeployed
CHECK_DEADLOCK FALSE
