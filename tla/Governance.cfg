SPECIFICATION Spec
CONSTANTS
  Roles <- MCRoles
  Accounts = {"key", "next", "timelock", "multisig"}
  NoAccount = "none"
  Procs = {p1, p2}
  Jobs <- MCJobs
  Selectors = {"sel"}
  Rollups = {"r1", "r2"}
  Kinds <- MCKinds
  FirstReleases <- MCReleases
  Grants <- MCGrants
  FirstDelay <- NoDelay
  MaxJobs = 2
  MaxTurns = 2
PROPERTIES
  OperationsWait
  BatchesAreWhole
  UpgradesAgree
  HandedOverByHolder
CHECK_DEADLOCK FALSE
