\* A list that can be distributed, padded.
CONSTANTS
    P = P
    Q = Q
    N = N
    D1 = D1
    D2 = D2
    D3 = D3
    dest = dest
    Addresses <- MC_Addresses
    x25519 <- MC_x25519
    Wallets = {P, Q}
    Decoys <- MC_Decoys
    Lines <- MC_Lines
    Floors = {2}
    Funds = {2}
    Destinations = {dest}
    TREE_DEPTH = 2
    MaxBuckets = 2
    MaxPopulation = 4
    MaxTyped = 2
    MaxBuilds = 1
    MaxFunded = 4
SPECIFICATION EligibilitySpec
INVARIANTS
    PaddedIsBuildable
CHECK_DEADLOCK FALSE
