------------------------------ MODULE ErpState ------------------------------
(* The tables of one tenant that order.service.ts and inventory.service.ts    *)
(* share, and the requests in flight.                                         *)
(*                                                                            *)
(* A table is a function from ids to rows.  A request is one HTTP call inside *)
(* one of the Slots: what it read before its transaction is kept in req, and  *)
(* may be stale when it writes (PostgreSQL READ COMMITTED).  Columns that no  *)
(* handler reads back (codes, notes, prices, actors, the movement log, the    *)
(* cosmetic OrderItem.status) are left out.  A missing Inventory row and a    *)
(* row 0/0 are the same here: getOrCreateInventory creates the second.        *)
EXTENDS Integers, FiniteSets

CONSTANTS
    Stores, Variants,
    Orders,             \* ids of the orders that may be placed
    Lines,              \* ids of OrderItem rows, compared by the code's sorts
    LineOrder,          \* the order a line belongs to
    LineVariant,        \* and the variant it asks for
    Null,
    InitialStock,       \* physical stock of every inventory at the start
    Slots,              \* requests that may be in flight together
    Endpoints,          \* the operations that clients call
    MaxQty,             \* bound on every quantity of a request
    MaxStock,           \* bound on the stock of one inventory
    MaxReservations,    \* bound on the rows of table Reservation
    MaxTransfers,       \* bound on the rows of table StockTransfer
    MaxItems            \* bound on the items of a transfer between stores

Inventories == Stores \X Variants
ResIds == 1..MaxReservations
XferIds == 1..MaxTransfers
ItemKeys == 1..(MaxReservations + MaxItems)

ASSUME ErpAssumption ==
    /\ IsFiniteSet(Stores) /\ IsFiniteSet(Variants) /\ IsFiniteSet(Slots)
    /\ Lines \subseteq Nat
    /\ IsFiniteSet(Lines)
    /\ LineOrder \in [Lines -> Orders]
    /\ LineVariant \in [Lines -> Variants]
    /\ InitialStock \in [Inventories -> 0..MaxStock]
    /\ MaxQty \in Nat /\ MaxStock \in Nat
    /\ MaxReservations \in Nat /\ MaxTransfers \in Nat /\ MaxItems \in Nat
    /\ Null \notin Stores \union Orders \union Lines

VARIABLES
    inv,    \* table Inventory: stock and reservedStock
    ord,    \* table Order, with its PickingSession
    line,   \* table OrderItem
    res,    \* table Reservation
    xfer,   \* table StockTransfer, with its items
    task,   \* the OperationalTask rows of an order
    req     \* the requests in flight

tables == <<inv, ord, line, res, xfer, task>>
vars == <<inv, ord, line, res, xfer, task, req>>

-----------------------------------------------------------------------------
(* Rows.                                                                     *)

OrderStatus == {"PENDING", "CONFIRMED", "WAITING_STOCK", "WAITING_TRANSFER",
                "PREPARING", "READY", "DELIVERED", "RETURN_PENDING", "CANCELLED"}
Closed == {"DELIVERED", "CANCELLED"}

NoOrder == [status |-> "ABSENT", channel |-> "POS", source |-> Null,
            fulfil |-> Null, session |-> "NONE"]
NoLine == [qty |-> 0, reserved |-> 0, picked |-> 0, shortage |-> 0,
           returned |-> 0, store |-> Null]
NoReservation == [status |-> "ABSENT", ord |-> Null, line |-> Null,
                  inv |-> Null, qty |-> 0]
\* An active status of operational-task.service.ts is "OPEN".
NoTasks == [review |-> "NONE", picking |-> [s \in Stores |-> "NONE"],
            packing |-> "NONE", delivery |-> "NONE"]

Idle == [op |-> "none"]

\* An item of a transfer: what was asked, sent, received, and found missing.
\* The items of an order's transfer are keyed by the reservation that they move
\* (StockTransferItem.reservationId is unique), those of another one by number.
Item(l, v, q) == [line |-> l, variant |-> v, qty |-> q, disp |-> 0, rec |-> 0, disc |-> 0]
NoItem == Item(Null, Null, 0)
NoTransfer == [status |-> "ABSENT", from |-> Null, to |-> Null, ord |-> Null,
               items |-> [k \in ItemKeys |-> NoItem]]

Init ==
    /\ inv = [i \in Inventories |-> [stock |-> InitialStock[i], reserved |-> 0]]
    /\ ord = [o \in Orders |-> NoOrder]
    /\ line = [l \in Lines |-> NoLine]
    /\ res = [r \in ResIds |-> NoReservation]
    /\ xfer = [t \in XferIds |-> NoTransfer]
    /\ task = [o \in Orders |-> NoTasks]
    /\ req = [s \in Slots |-> Idle]

-----------------------------------------------------------------------------
(* Queries.                                                                  *)

Least(a, b) == IF a <= b THEN a ELSE b
Greatest(a, b) == IF a >= b THEN a ELSE b

\* SELECT SUM: the sum of f over the finite set S, as the size of a disjoint
\* union, which theorems about finite sets can reason about.
Total(S, f) == Cardinality(UNION {{x} \X (1..f[x]) : x \in S})

Placed(o) == ord[o].status # "ABSENT"
LinesOf(o) == {l \in Lines : LineOrder[l] = o /\ line[l].qty > 0}

Active(o) == {r \in ResIds : res[r].status = "ACTIVE" /\ res[r].ord = o}
Quantities == [r \in ResIds |-> res[r].qty]
ActiveOn(i) == {r \in ResIds : res[r].status = "ACTIVE" /\ res[r].inv = i}

\* What is still owed of a line: the units that were not declared short.
Demand(l) == Greatest(0, line[l].qty - line[l].shortage)

Available(i) == inv[i].stock - inv[i].reserved

\* Rows are allocated in order, so that ids are also creation dates.
UsedRes == Cardinality({r \in ResIds : res[r].status # "ABSENT"})
UsedXfer == Cardinality({t \in XferIds : xfer[t].status # "ABSENT"})

Reservation(o, l, i, q) ==
    [status |-> "ACTIVE", ord |-> o, line |-> l, inv |-> i, qty |-> q]

\* The ids of new reservations, one for each member of S and in its order: none
\* when the table is full.
NewReservations(S) ==
    {f \in [UsedRes + 1 .. UsedRes + Cardinality(S) -> S] :
        /\ DOMAIN f \subseteq ResIds
        /\ \A m, n \in DOMAIN f : m < n => f[m] < f[n]}

\* INSERT INTO "Reservation".
Inserted(rows) == [r \in ResIds |-> IF r \in DOMAIN rows THEN rows[r] ELSE res[r]]

\* The CHECK constraints on Inventory: a transaction that breaks one aborts.
Sound(table) == \A i \in Inventories : 0 <= table[i].reserved /\ table[i].reserved <= table[i].stock

-----------------------------------------------------------------------------
(* Requests.                                                                 *)

Starts(s, endpoint) == endpoint \in Endpoints /\ req[s] = Idle
At(s, op, phase) == req[s].op = op /\ req[s].phase = phase
Continue(s, request) == req' = [req EXCEPT ![s] = request]
Finish(s) == Continue(s, Idle)

\* Nobody else holds the row of order o FOR UPDATE.  An UPDATE of the row, and
\* the key-share lock of an INSERT that references it, wait for that lock.
Unlocked(o, s) ==
    \A z \in Slots \ {s} : req[z].op = "status" /\ req[z].phase = "commit" => req[z].ord # o

\* A handler stops before its next transaction, or the transaction aborts: an
\* error, a CHECK constraint, a deadlock, a lost connection, a crash.
Abort(s) ==
    /\ req[s] # Idle
    /\ Finish(s)
    /\ UNCHANGED tables
=============================================================================
