SPECIFICATION OfflineSpec
CONSTANTS
    Chains <- MCChains
    NoChain <- MCNoChain
INVARIANT RestoreSettles
