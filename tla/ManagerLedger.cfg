CONSTANTS
    MaxRollups = 2
    MaxTypes = 1
    MaxBatch = 3
    MaxTime = 1
    MaxPOL = 2
    InitialTypes <- BatchTypes
    ChainIDs = {c1, c2}
    AccInputHashes = {a1}
    StateRoots = {s1}
    LocalExitRoots = {ZeroHash}
    PessimisticRoots = {p1}
    BatchFees = {1}
    HaltAggregationTimeout = 1
    EmptyTreeRoot = EmptyTreeRoot
    ZeroHash = ZeroHash
    ExitLeaves = {}
    RollupExitRoots <- ReportedRoots
    MaxDeposits = 0
    MaxL1InfoLeaves = 8
SYMMETRY Symmetry
SPECIFICATION Spec
INVARIANTS
    TotalsMatch
    LedgerIsSound
    AggregatorNeverStuck
PROPERTY VerifiedIsFinal
