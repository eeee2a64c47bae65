CONSTANTS
    MaxRollups = 1
    MaxTypes = 3
    MaxBatch = 2
    MaxTime = 2
    MaxPOL = 0
    InitialTypes <- UpgradeTypes
    ChainIDs = {c1}
    AccInputHashes = {a1}
    StateRoots = {s1}
    LocalExitRoots = {ZeroHash, EmptyTreeRoot, ler1}
    PessimisticRoots = {p1}
    BatchFees = {1}
    HaltAggregationTimeout = 1
    EmptyTreeRoot = EmptyTreeRoot
    ZeroHash = ZeroHash
    ExitLeaves = {d1}
    RollupExitRoots <- ReportedRoots
    MaxDeposits = 1
    MaxL1InfoLeaves = 2
SPECIFICATION FairSpec
INVARIANT MigrationIsClean
PROPERTIES
    NoWayBackToBatches
    MigrationKeepsExits
    EmergencyStopsInflow
    EveryBatchSettles
