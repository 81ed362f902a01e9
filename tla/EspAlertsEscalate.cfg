SPECIFICATION OfflineSpec
CONSTANTS
    Chains <- MCChains
    NoChain <- MCNoChain
PROPERTY NoEscalation
