CONSTANTS
    harvest = harvest
    resend = resend
    lookup = lookup
    collect1 = collect1
    collect2 = collect2
    pack = pack
    ship = ship
    noone = noone
    boot = boot
    Requests = {harvest, collect1, collect2, pack, ship}
    Stage <- StageOf
    Lookups <- PublicLookups
    Score <- ScoreOf
    NoOne = noone
    Boot = boot
    MaxInFlight = 1
    FaultKinds = {"tx", "crash"}
    MaxFaults = 3
SPECIFICATION Spec
INVARIANTS
    QuietMemoryMatchesDb
    RefusedLeavesNoTrace
CHECK_DEADLOCK FALSE
