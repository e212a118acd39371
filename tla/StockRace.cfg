\* Two requests at a time on two orders that compete for one inventory.
SPECIFICATION Spec
\* Nobody has to call anything, and the bounds stop the rest.
CHECK_DEADLOCK FALSE
CONSTANTS
    Null = Null
    Stores = {a}
    Variants = {v}
    Orders = {1, 2}
    Lines = {1, 2}
    LineOrder <- OwnOrders
    LineVariant <- OneVariant
    InitialStock <- StockOf2
    Slots = {s1, s2}
    Endpoints = {"checkout", "reserve", "status"}
    MaxQty = 2
    MaxStock = 2
    MaxReservations = 2
    MaxTransfers = 1
    MaxItems = 1
SYMMETRY SlotSymmetry
INVARIANTS
    NothingOversold
