CONSTANTS
    harvest = harvest
    resend = resend
    lookup = lookup
    collect1 = collect1
    collect2 = collect2
    pack = pack
    ship = ship
    noone = noone
    boot = boot
    Requests = {harvest, resend, lookup, collect1, pack}
    Stage <- StageOf
    Lookups <- PublicLookups
    Score <- ScoreOf
    NoOne = noone
    Boot = boot
    MaxInFlight = 3
    FaultKinds = {"tx", "answer", "crash"}
    MaxFaults = 1
SPECIFICATION Spec
CHECK_DEADLOCK FALSE
INVARIANTS
    LotInv
    AnsweredIsStored
PROPERTIES
    ChainSpec
    RowNeverGoesBack
