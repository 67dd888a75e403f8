SPECIFICATION Spec
CONSTANTS
    Callers <- MCCallers
    Requests <- MCRequests
    FirstModes <- MCFirstModes
    MaxSize = 1
    Times = {1, 2}
    LastKey = 4
    Namespace <- MCNamespace
    Length <- MCLength
    None = None
INVARIANTS
    ReplyIsStored
    ListsWhatFits
PROPERTIES
    SetIdOnlyLost
    ChangesAuthorised
