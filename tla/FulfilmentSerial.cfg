\* One request at a time, everything but the transport between stores.
SPECIFICATION Spec
\* Nobody has to call anything, and the bounds stop the rest.
CHECK_DEADLOCK FALSE
CONSTANTS
    Null = Null
    Stores = {a, b}
    Variants = {v}
    Orders = {1}
    Lines = {1}
    LineOrder <- OneOrder
    LineVariant <- OneVariant
    InitialStock <- StockOf2
    Slots = {s}
    Endpoints = {"place", "checkout", "status", "reserve", "release",
                 "shortage", "return", "startPicking", "pick", "pickAll",
                 "completePicking"}
    MaxQty = 2
    MaxStock = 2
    MaxReservations = 3
    MaxTransfers = 1
    MaxItems = 1
INVARIANTS
    LinesAgree
    ClosedHoldsNothing
PROPERTIES
    ClosedIsFinal
    DeliveryIsPaid
