SPECIFICATION Spec
CONSTANTS
    PageSize = 2
    s1 = s1
    s2 = s2
    Slots = {s1, s2}
    NoRequest = NoRequest
    NoAnswer = NoAnswer
    MaxRows = 3
    MaxAsked = 3
    Words = {"x", "y"}
    Lots = {1, 2}
    Participants = {"p1", "P1", "p2", "p3"}
    Upper <- TheUpper
    Answers <- TheAnswers
    Torn = Torn
    MaxSubmitted = 4
    Leaves <- TheLeaves
    MaxLeaves = 5
    Side = 2
    MaxCorners = 4
    Payloads <- ThePayloads
SYMMETRY SlotSymmetry
CHECK_DEADLOCK FALSE
INVARIANTS
    ListingInv
    
    MerkleInv
    GeometryInv
    RulesInv
    DocumentsInv
