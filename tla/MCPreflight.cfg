\* A claim with a settlement the source account may not cover.
CONSTANTS
    A = A
    B = B
    dist = dist
    rec = rec
    new1 = new1
    new2 = new2
    ann = ann
    bob = bob
    p1 = p1
    p2 = p2
    ZeroCommitment = ZeroCommitment
    Default = Default
    Missing = Missing
    AirdropIds <- MC_AirdropIds
    Addresses <- MC_Addresses
    Salts <- MC_Salts
    Wallets <- MC_Wallets
    Signatures <- MC_Signatures
    InitArgs <- MC_InitArgs
    InitialWallet <- MC_InitialWallet
    LocalArgs <- MC_LocalArgs
    Processes <- MC_OneProcess
    LocalDistributor = dist
    Amounts = {1, 2}
    CallerTimes = {0}
    FundAmounts = {1}
    TokenFunds = 0
    HasTokenSource = TRUE
    ClosesOnChain = FALSE
    MaxCommands = 5
    U64Max = 4
    MillisPerSecond = 1
    MaxClock = 1
SPECIFICATION LocalSpec
PROPERTIES
    SettlementPreflighted
CHECK_DEADLOCK FALSE
