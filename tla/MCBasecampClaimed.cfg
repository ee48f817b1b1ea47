\* Another distribution is selected while a claim runs.
CONSTANTS
    A = A
    B = B
    a = a
    b = b
    w1 = w1
    w2 = w2
    Nothing = Nothing
    Airdrops = {A, B}
    Names = {a, b}
    DefaultName = a
    Listed <- MC_TwoListed
    Wallets = {w1}
    Imported = w1
    KeyChanges = {}
    ActionKinds = {"fund"}
    MaxActions = 2
    BridgeFailures = 0
    MaxJobs = 4
SPECIFICATION UiSpec
INVARIANTS
    AlreadyClaimedIsTrue
CHECK_DEADLOCK FALSE
