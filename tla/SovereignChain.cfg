CONSTANTS
    Ether = Ether
    Token = Token
    pEther = pEther
    pToken = pToken
    s1 = s1
    s2 = s2
    Foreign = {Ether, Token}
    GasTokens = {Ether, Token}
    ProxyOf <- Proxies
    SovereignTokens = {s1, s2}
    WETHTokens = {pEther, s1}
    InitialWETH = s1
    NotMintable = {s2}
    InitialHeld <- SomeHeld
    Sources <- TwoSources
    GlobalExitRoots <- AllRoots
    Amounts = {1}
    MaxExits = 2
    MaxInserted = 3
    MaxClaims = 3
    MaxLeafs = 2
    NoAddress = NoAddress
    NoToken = NoToken
SPECIFICATION SovereignSpec
CONSTRAINT ClaimsOrContracts
INVARIANTS
    HashChainsAccount
    BalanceTreeIsNet
    HoldingsCovered
