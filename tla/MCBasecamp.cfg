\* One name and two distributions, two keys, five jobs, one call that fails.
CONSTANTS
    A = A
    B = B
    a = a
    b = b
    w1 = w1
    w2 = w2
    Nothing = Nothing
    Airdrops = {A, B}
    Names = {a}
    DefaultName = a
    Listed <- MC_OneListed
    Wallets = {w1, w2}
    Imported = w1
    KeyChanges <- MC_KeyChanges
    ActionKinds = {"initDistribution", "fund"}
    MaxActions = 2
    BridgeFailures = 1
    MaxJobs = 5
SPECIFICATION FairUiSpec
INVARIANTS
    UiTypeOK
    NoJobForgotten
    NoWaitStuck
PROPERTIES
    ResultsAreFinal
    CompletionIsEarned
    UiBecomesIdle
CHECK_DEADLOCK FALSE
