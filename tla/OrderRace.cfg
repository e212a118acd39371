\* Two requests at a time on an order with a transfer that is picked, delivered and cancelled.
SPECIFICATION Spec
\* Nobody has to call anything, and the bounds stop the rest.
CHECK_DEADLOCK FALSE
CONSTANTS
    Null = Null
    Stores = {a, b}
    Variants = {v}
    Orders = {1}
    Lines = {1}
    LineOrder <- OneOrder
    LineVariant <- OneVariant
    InitialStock <- StockOf2
    Slots = {s1, s2}
    Endpoints = {"place", "status", "startPicking", "pick", "pickAll",
                 "completePicking", "task", "dispatch", "receive",
                 "cancelTransfer"}
    MaxQty = 2
    MaxStock = 2
    MaxReservations = 3
    MaxTransfers = 1
    MaxItems = 1
SYMMETRY SlotSymmetry
INVARIANTS
    LedgerBalanced
PROPERTIES
    ClosedIsLeftAlone
    PickedGoodsComeBack
    TransfersKeepContract
