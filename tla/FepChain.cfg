SPECIFICATION FEPSpec
CONSTRAINT OutputsOrKeys
CONSTANTS
    AGGCHAIN_TYPE <- FEP
    Selectors <- FEPAndOther
    AggchainVKeys = {k1}
    NoKey = NoKey
    PPSelectors = {pp1, pp2}
    pp1 = pp1
    pp2 = pp2
    PessimisticVKeys = {pk1, pk2}
    pk1 = pk1
    pk2 = pk2
    ConfigHashes = {c1}
    AggregationVKeys = {a1}
    RangeVKeys = {r1}
    Sequencers = {s1}
    ZeroHash = ZeroHash
    OutputRoots = {o0, o1, ZeroHash}
    o0 = o0
    ExitRoots = {e1}
    Intervals = {0, 1, 2}
    L2BlockTime = 1
    StartingOutputRoot = o0
    StartingBlockNumber = 5
    StartingTimestamp = 10
    MaxBlockNumber = 7
    MaxTime = 13
    MaxOutputs = 3
    MaxProofs = 1
INVARIANTS
    OutputsAreHistory
    NoProofReplayed
    RoutesAccountForOutputs
PROPERTY NoStaleProof
