SPECIFICATION Spec
CONSTANTS
    Plots = {1, 2}
    MaxYield <- Yields
    Weights = {1}
    Photos = {1, 2}
    Demo <- TheDemo
    DemoMoves <- TheMoves
    o1 = o1
    o2 = o2
    Ops = {o1, o2}
    NoLot = NoLot
    NoOp = NoOp
    MaxLots = 3
    MaxMoves = 1
    MaxFaults = 3
SYMMETRY RequestSymmetry
CHECK_DEADLOCK FALSE
INVARIANTS
    EvidenceInv
    IntakeInv
PROPERTIES
    StoredLotsStay
