SPECIFICATION Spec
CONSTANTS
  Procs = {p1, p2}
  Plans <- MCPlans
  InitialTypes <- MCTypes
  MaxRollups = 2
  MaxStarts = 2
  MaxCrashes = 1
INVARIANT GasTokenIsOnMainnet
CHECK_DEADLOCK FALSE
