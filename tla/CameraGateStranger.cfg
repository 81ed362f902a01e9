SPECIFICATION Spec
CONSTANTS
    People = {alice, bob}
    NoOne = NoOne
    Stranger = Stranger
    ConfirmFrames <- MCConfirm
    HandStreak <- MCHand
    FakeStreak <- MCFake
    NoFaceReset = 2
    ErrorAlertAfter = 2
INVARIANT StrangerHeard
