CONSTANTS
    harvest1 = harvest1
    transfer1 = transfer1
    recover2 = recover2
    harvest3 = harvest3
    LastDay = 2
    Events = {harvest1, transfer1}
    Day <- TwoDays
    Kind <- Arrival
    Batch <- Lot
    Ticks = {"tick1"}
    Requests = {}
    FaultKinds = {"batchDb", "send"}
    MaxFaults = 0
    MaxAttempts = 1
SPECIFICATION Spec
INVARIANT
    VerifiedHashesAreAnchored
CHECK_DEADLOCK FALSE
