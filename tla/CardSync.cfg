SPECIFICATION Spec
CONSTANTS
    Lists = {l1, l2}
    Empty = Empty
    Again <- MCAgain
    MaxEdits = 1
INVARIANTS
    KeepsOpening
PROPERTY TableFollows
