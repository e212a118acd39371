\* inventory.service.ts on its own, two transfers.
SPECIFICATION Spec
\* Nobody has to call anything, and the bounds stop the rest.
CHECK_DEADLOCK FALSE
CONSTANTS
    Null = Null
    Stores = {a, b}
    Variants = {v}
    Orders = {1}
    Lines = {1}
    LineOrder <- OneOrder
    LineVariant <- OneVariant
    InitialStock <- StockOf2
    Slots = {s}
    Endpoints = {"movement", "reservation", "reconcile", "transfer",
                 "dispatch", "receive", "cancelTransfer"}
    MaxQty = 2
    MaxStock = 2
    MaxReservations = 1
    MaxTransfers = 2
    MaxItems = 1
INVARIANTS
    TypeOK
    TransferBalanced
