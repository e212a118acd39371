\* Picking by several people and the tasks of an order.
SPECIFICATION TeamSpec
\* Orders are closed, tasks finish and nobody has to call anything.
CHECK_DEADLOCK FALSE
CONSTANTS
    Pickers = {p1, p2}
    Nobody = Nobody
    Slots = {r1, r2}
    Quantity = 2
    PerPicker = 1
    Overlap <- Together
    MaxPending = 1
    Staff = {p1, p2}
    Vacant = Vacant
    Calls = {r1, r2}
    Hands <- GivenByHand
    Items = {1, 2, 3}
    Depots = {p1, p2}
    Editors = {r1, r2}
    Ordered = 2
    Stock = 2
    ReleasesRun = 1
    MaxWork = 3
SYMMETRY TeamSymmetry
INVARIANTS
    TeamTypeOK
    UnitsCredited
    LinesAndDesk
    BoardFollowsOrder
PROPERTIES
    HandedOver
    MovedByHolder
