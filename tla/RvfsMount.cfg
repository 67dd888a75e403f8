SPECIFICATION MountSpec
CONSTANTS
    MaxNumber = 5
INVARIANTS
    NumbersAhead
