SPECIFICATION Spec
CONSTANTS
    Forms <- ThreeForms
    Transfers = {2}
    Photos = {1, 3}
    Stock = {1, 3}
    Invalid = {}
    s1 = s1
    s2 = s2
    l1 = l1
    l2 = l2
    Syncs = {s1, s2}
    NoOne = NoOne
    Worlds <- Scenarios
    MaxItems = 2
    Loads = {l1, l2}
CHECK_DEADLOCK FALSE
INVARIANTS
    QueueInv
    NothingForgotten
    KeyInv
PROPERTIES
    DeliveredStaysDelivered
