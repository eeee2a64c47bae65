\* Three deposits from two leaves and two rollup roots, so that a rollup root
\* can come back and a pair is reported twice; a tree of eight leaves with up
\* to five rollups, so that odd levels of every kind occur.
SPECIFICATION FairExitsSpec
CONSTANTS
    ExitLeaves = {d1, d2}
    RollupExitRoots = {r1, r2}
    MaxDeposits = 3
    MaxL1InfoLeaves = 12
    ZeroHash = ZeroHash
    Depth = 3
    Leaves = {d1, d2}
    ExitRoots = {EmptyLeaf, r1}
    MaxTreeRollups = 5
    EmptyLeaf = EmptyLeaf
INVARIANTS
    TreesMatchReference
    ExitRootsConsistent
PROPERTY DepositEventuallyPublished
