\* Registration of owners; how a person gets in; the people and stores of a tenant; its products.
SPECIFICATION AccountsSpec
\* Trials are started, letters are answered and nobody has to call anything.
CHECK_DEADLOCK FALSE
CONSTANTS
    Owners = {o1, o2}
    Requests = {r1, r2}
    phone = phone
    Device <- OneDevice
    Name <- OneName
    EmailLimit = 1
    DeviceLimit = 1
    OtpMax = 1
    MaxCredentials = 2
    MaxInvited = 1
    MaxWindows = 1
    p0 = p0
    p1 = p1
    p2 = p2
    People = {p0, p1, p2}
    Owner = p0
    Shops = {o1, o2}
    NoShop = NoShop
    Desks = {r1, r2}
    MaxStores = 1
    Days <- SomeDays
    Aside = {"invite", "accept", "createStore"}
    MaxLetters = 2
    Products = {q1, q2}
    ProductNames = {n1, n2}
    Pictures = {a1, a2, a3}
    VariantKeys = {k1, k2}
    MaxVariants = 1
    NoPicture = NoPicture
    Clerks = {r1, r2}
    MaxProducts = 1
    MaxPictures = 1
    MaxStorage = 2
    MaxEdits = 3
    Clients = {r1, r2}
    Channels = {"email", "whatsapp"}
    Cooldown = 0
    Lifetime <- Lifetimes
    MaxTries = 1
    MaxCodes = 2
    MaxTime = 2
    MaxCalls = 3
SYMMETRY AccountsSymmetry
INVARIANTS
    AccountsTypeOK
    LimitsHold
    OneUserGetsIn
    
PROPERTIES
    CodesHold
    MembersByTheBook
