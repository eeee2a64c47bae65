CONSTANTS
    MaxRollups = 1
    MaxTypes = 1
    MaxBatch = 3
    MaxTime = 2
    MaxPOL = 8
    InitialTypes <- OneProgram
    ChainIDs = {c1}
    AccInputHashes <- BatchHashes
    StateRoots <- ExecutedRoots
    LocalExitRoots <- OnlyZero
    PessimisticRoots = {p1}
    BatchFees = {1, 2}
    HaltAggregationTimeout = 1
    EmptyTreeRoot = EmptyTreeRoot
    ZeroHash <- EmptyList
    ExitLeaves = {d1}
    RollupExitRoots <- ReportedRoots
    MaxDeposits = 0
    MaxL1InfoLeaves = 8
    t1 = t1
    t2 = t2
    Txs = {t1}
    InitTx = InitTx
    Genesis = Genesis
    Forced = Forced
    NoForcedBatch = NoForcedBatch
    ForceBatchTimeout = 1
    ForceBatchTimeouts = {0}
    ForcedFeeFactor = 2
    MaxForced = 2
    MaxSequence = 2
SPECIFICATION SystemSpec
INVARIANT LastForcedIsInSequence
