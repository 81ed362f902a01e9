SPECIFICATION Spec
CONSTANTS
    People = {alice, bob}
    MaxEdits = 2
    MaxRestarts = 1
INVARIANT RemovedIsForgotten
