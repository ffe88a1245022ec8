CONSTANTS
    first = first
    again = again
    late = late
    other = other
    key1 = key1
    harvest = harvest
    transfer = transfer
    nobody = nobody
    Requests = {first, again, late, other}
    Key <- OneKey
    Body <- BodyOf
    NoBody = nobody
    FaultKinds <- AllFaults
    MaxFaults = 2
SPECIFICATION Spec
CHECK_DEADLOCK FALSE
INVARIANTS
    TypeOK
    OneOwner
    RepliesAreEffects
    DuplicateNeedsLostAnswer
PROPERTIES
    CreatedIsReplayable
