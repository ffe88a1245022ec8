SPECIFICATION RegistrySpec
CONSTANTS
    farmer = farmer
    collector = collector
    People = {farmer, collector}
    RoleOf <- PeopleRoles
    PhoneOf <- PeoplePhones
    ZaloOf <- PeopleZalo
    OtherPhones = {92}
    Ids <- ClockIds
    UuidIds = {4}
    o1 = o1
    o2 = o2
    Writers = {o1, o2}
    NoPhone = NoPhone
    NoZalo = NoZalo
    Blank = Blank
    NoActor = NoActor
    NoWrite = NoWrite
    NoAccount = NoAccount
    Local = Local
    MaxPosts = 3
    MaxFailures = 1
SYMMETRY RequestSymmetry
CHECK_DEADLOCK FALSE
INVARIANTS
    
    ActiveContactsUnique
PROPERTIES
    ClosedStaysClosed
