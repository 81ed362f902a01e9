SPECIFICATION OfflineSpec
CONSTANTS
    Chains <- MCChains
    NoChain <- MCNoChain
INVARIANTS
    HandleAlive
PROPERTIES
    OutageReported
    QuietWhenOnline
