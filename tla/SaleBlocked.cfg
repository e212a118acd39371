\* A violation: the first voucher of a second store.
SPECIFICATION FiscalSpec
\* Everything is declared in the end and nobody has to call anything.
CHECK_DEADLOCK FALSE
CONSTANTS
    b1 = b1
    b2 = b2
    b3 = b3
    f1 = f1
    here = here
    there = there
    Sales = {b1, b2, b3, f1}
    Notes = {n1}
    Type <- TypeOf
    Store <- TwoStores
    Base <- OfThird
    Trades = {{b1, b2}}
    Tasks = {t1, t2}
    MaxSlot = 1
    MaxNotices = 2
    MaxTurns = 1
    OneNotice = TRUE
    Jobs = {b1, b2}
    Workers = {t1, t2, t3}
    MaxAttempts = 2
    MaxAlive = 2
    Mortal = {t1, t2}
    Nobody = Nobody
    Scripts = {t1, t2}
    Scopes <- SomeStories
    BaseRows = 2
    MaxRow = 3
    Polls = 1
    OneEach = TRUE
    m1 = m1
    m2 = m2
    m3 = m3
    m4 = m4
    line1 = line1
    line2 = line2
    s1 = s1
    s2 = s2
    Shops = {s1, s2}
    Numbers = {line1, line2}
    Legacy <- InEnvironment
    NoShop = NoShop
    Messages = {m1, m2, m3, m4}
    Addressee <- AddresseeOf
    Spoiled = {m4}
    Batches = {{m1, m3}, {m2, m4}}
    Talks = {b1, b2}
    Replies = {r1}
    Posts = {t1, t2}
    Clerks = {k1}
    MaxDeeds = 2
    Chosen = {"RESOLVED", "ATTENDING"}
    AtFirst <- FirstConnected
PROPERTIES
    SaleIsNotBlocked
