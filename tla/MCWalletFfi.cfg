\* Two calls by two threads.
CONSTANTS
    t1 = t1
    t2 = t2
    h1 = h1
    h2 = h2
    a1 = a1
    a2 = a2
    Nothing = Nothing
    Threads = {t1, t2}
    Homes = {h1, h2}
    Accounts = {a1, a2}
    signing_keys <- MC_signing_keys
    MaxCalls = 1
SPECIFICATION FairFfiSpec
INVARIANTS
    OwnWallet
    SignedFromOwnDirectory
    NoCallStuck
PROPERTIES
    EveryCallReturns
CHECK_DEADLOCK FALSE
