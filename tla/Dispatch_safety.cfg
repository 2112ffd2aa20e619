SPECIFICATION Spec
CONSTANTS
    d1 = d1
    d2 = d2
    h1 = h1
    h2 = h2
    Total = 3
    MaxMessages = 2
    MaxChannels = 2
    Dispatchers <- TwoDispatchers
    Requests <- OneRequest
    MaxWakeups = 1
    MaxFaults = 1
SYMMETRY Symmetry
INVARIANTS
    TypeOK
    NoRecipientSkipped
    CompletedCoversAll
    UnexpiredClaimsDisjoint
    DuplicateNeedsExpiry
PROPERTIES
    CursorNeverBack
    ImplementsOrderedFanout
