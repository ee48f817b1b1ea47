\* One airdrop.  Money: 4 units; totals and milliseconds capped by U64Max = 3.
\* Time: 2 "milliseconds" per "second", clock up to 3.
CONSTANTS
    A = A
    dist = dist
    rec = rec
    new1 = new1
    ann = ann
    bob = bob
    ZeroCommitment = ZeroCommitment
    Default = Default
    AirdropIds <- MC_AirdropIds
    Addresses <- MC_Addresses
    Salts <- MC_Salts
    Wallets <- MC_Wallets
    Signatures <- MC_Signatures
    InitArgs <- MC_InitArgs
    InitialWallet <- MC_InitialWallet
    Amounts = {1, 2, 3}
    CallerTimes = {0, 1}
    U64Max = 3
    MillisPerSecond = 2
    MaxClock = 3
SPECIFICATION Spec
INVARIANTS
    TypeOK
    Solvent
    ClaimedIsPaidOut
    MoneyConserved
    EligibleRowIsClaimable
PROPERTIES
    SpentForever
    NoPayoutAfterExpiry
    ClosedIsFinal
    VaultOutflow
    RecoveryStaysOpen
CHECK_DEADLOCK FALSE
