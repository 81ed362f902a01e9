SPECIFICATION Spec
CONSTANTS
    Lists = {l1}
    Empty = Empty
    Again <- MCAgain
    MaxEdits = 1
PROPERTY EmptyListFollows
