SPECIFICATION Spec
CONSTANTS
    h1 = h1
    h2 = h2
    Handles = {h1, h2}
    LastName = 4
    Dots <- MCDots
    Chunk = 3
    Rooms = {2, 4}
    MaxPos = 6
INVARIANTS
    PlainListingExact
    PanicHasCause
    TableReleased
PROPERTIES
    LoopAdvances
    ListingReturns
