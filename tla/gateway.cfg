SPECIFICATION Spec
CONSTANTS
    Keys = {"own", "shared"}
    RateMax = 2
    Window = 2
    SweepAbove = 1
    MaxTime = 2
    Bounds <- TheBounds
    Actors = {"f", "h", "c"}
    RoleOf <- TheRoles
    Lots <- TheLots
    Asks = {16, 26}
    KeyOf <- TheKeys
    Slots = {1}
    MaxCalls = 4
    MaxFaults = 1
CHECK_DEADLOCK FALSE
INVARIANTS
    GatewayInv
    MarketInv
PROPERTIES
    AnsweredOnce
