\* A violation: a transfer that was refused for lack of stock is called off, and its units appear at the origin.
SPECIFICATION RequestSpec
\* Nobody has to call anything, and the bounds stop the rest.
CHECK_DEADLOCK FALSE
CONSTANTS
    Null = Null
    Stores = {a, b}
    Variants = {v}
    Orders = {1}
    Lines = {1}
    LineOrder <- OneOrder
    LineVariant <- OneVariant
    InitialStock <- StockOf1
    Slots = {s}
    Endpoints = {"transfer", "dispatch", "cancelTransfer"}
    MaxQty = 2
    MaxStock = 2
    MaxReservations = 1
    MaxTransfers = 1
    MaxItems = 1
INVARIANTS
    UnitsAccounted
