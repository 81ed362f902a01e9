SPECIFICATION Spec
CONSTANTS
    Cards <- MCCards
    NoCard = "none"
    Unlock = 2
    Debounce = 2
    Wrap = 10
    MaxPass = 2
    MaxHeld = 2
INVARIANTS
    TypeOK
    OpenBounded
    BypassFollows
