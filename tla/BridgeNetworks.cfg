CONSTANTS
    Ether = Ether
    Coin = Coin
    Erc20 = Erc20
    Rollups <- TwoRollups
    Tokens = {Ether, Coin, Erc20}
    OriginNetwork <- OriginOf
    GasToken <- CoinOf
    TransferFee <- Erc20KeepsOne
    Amounts = {0, 1, 2}
    InitialHeld <- TwoAtHome
    Prefund = 2
    MaxExits = 3
    MaxCalls = 2
    ExitLeaves <- Leaves
    RollupExitRoots <- RootsOfRollups
    MaxDeposits = 2
    MaxL1InfoLeaves = 4
    ZeroHash <- EmptyList
SPECIFICATION SystemSpec
CONSTRAINT PartExplored
INVARIANTS
    ExitsPaidExactly
    CoveredExitPayable
    CustodyBacksSupply
PROPERTY ImplementsTokenFlow
