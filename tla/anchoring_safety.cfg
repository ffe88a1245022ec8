CONSTANTS
    harvest1 = harvest1
    transfer1 = transfer1
    recover2 = recover2
    harvest3 = harvest3
    LastDay = 1
    Events = {harvest1, transfer1, recover2}
    Day <- OneDay
    Kind <- Arrival
    Batch <- Lot
    Ticks = {"tick1"}
    Requests = {"req1"}
    FaultKinds <- AllFaults
    MaxFaults = 2
    MaxAttempts = 2
SPECIFICATION Spec
CHECK_DEADLOCK FALSE
INVARIANTS
    TypeOK
    ConfirmedIsOnChain
    AnchoredHarvestsAreStored
    QuietRecordsAgree
PROPERTIES
    LostIsFinal
    
    LedgerSpec
