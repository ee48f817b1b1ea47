\* Two airdrops share rows, salts, accounts and 3 units of money.
CONSTANTS
    A = A
    B = B
    dist = dist
    rec = rec
    new1 = new1
    ann = ann
    bob = bob
    ZeroCommitment = ZeroCommitment
    Default = Default
    AirdropIds <- MC_AirdropIds
    Addresses <- MC_Addresses
    Salts <- MC_Salts
    Wallets <- MC_Wallets
    Signatures <- MC_Signatures
    InitArgs <- MC_InitArgs
    InitialWallet <- MC_InitialWallet
    Amounts = {1}
    CallerTimes = {0}
    U64Max = 4
    MillisPerSecond = 1
    MaxClock = 1
SPECIFICATION Spec
PROPERTIES
    KeepsPromise
CHECK_DEADLOCK FALSE
