SPECIFICATION PlotsSpec
CHECK_DEADLOCK FALSE
CONSTANTS
    SeedIds = {1}
    AdminIds = {2}
    RandomIds = {3}
    Codes = {"P1", "P2"}
    Shapes <- MCShapes
    Seed <- MCSeed
    Choices = {"active", "pending"}
    Ops = {o1, o2}
    NoPlot = NoPlot
    NoOp = NoOp
    MaxRequests = 3
    MaxFaults = 1
    o1 = o1
    o2 = o2
SYMMETRY Symmetry
INVARIANTS
    PlotsInv
PROPERTIES
    EditsKeepTheRest
