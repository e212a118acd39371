--------------------------- MODULE FulfilmentTypes ---------------------------
(* Machine-checked: every variable of Fulfilment keeps its type, for any      *)
(* number of stores, variants, orders, lines, requests and rows; and the      *)
(* transfers are balanced and keep the contract of TransferContract, whatever *)
(* orders, requests and crashes there are around them.                        *)
EXTENDS Fulfilment, FiniteSetTheorems, TLAPS

-----------------------------------------------------------------------------
(* Sums.                                                                     *)

\* The sum of integers over a finite set is a natural number: negative summands
\* count for nothing.
LEMMA TotalIsNat ==
    ASSUME NEW S, IsFiniteSet(S), NEW f, \A x \in S : f[x] \in Int
    PROVE  Total(S, f) \in Nat
<1> DEFINE column(x) == {x} \X (1..f[x])
           columns == {column(x) : x \in S}
           g == [x \in S |-> column(x)]
<1>1. g \in Surjection(S, columns)
  BY DEF Surjection
<1>2. IsFiniteSet(columns)
  BY <1>1, FS_Surjection, Zenon
<1>3. \A c \in columns : IsFiniteSet(c)
  <2>1. ASSUME NEW x \in S
        PROVE  IsFiniteSet(column(x))
    <3>1. IsFiniteSet({x})
      BY FS_Singleton
    <3>2. IsFiniteSet(1..f[x])
      BY FS_Interval
    <3>3. QED
      BY <3>1, <3>2, FS_Product
  <2>2. QED
    BY <2>1
<1>4. IsFiniteSet(UNION columns)
  BY <1>2, <1>3, FS_UNION
<1>5. QED
  BY <1>4, FS_CardinalityType DEF Total

LEMMA LinesAreFinite ==
    ASSUME NEW L, L \subseteq Lines
    PROVE  IsFiniteSet(L)
  BY FS_Subset, ErpAssumption

LEMMA ReservationsAreFinite ==
    ASSUME NEW R, R \subseteq ResIds
    PROVE  IsFiniteSet(R)
<1>1. IsFiniteSet(ResIds)
  BY FS_Interval, ErpAssumption DEF ResIds
<1>2. QED
  BY <1>1, FS_Subset

LEMMA ItemsAreFinite ==
    ASSUME NEW K, K \subseteq ItemKeys
    PROVE  IsFiniteSet(K)
<1>1. MaxReservations + MaxItems \in Int
  BY ErpAssumption
<1>2. IsFiniteSet(ItemKeys)
  BY <1>1, FS_Interval DEF ItemKeys
<1>3. QED
  BY <1>2, FS_Subset

-----------------------------------------------------------------------------
(* The invariant.                                                            *)

\* An ACTIVE reservation is one of an inventory.
ReservationsPlaced ==
    \A r \in ResIds : res[r].status = "ACTIVE" => res[r].inv \in Inventories

\* A transfer that has items goes from a store to a store.
TransfersPlaced ==
    \A t \in XferIds : \A k \in Items(t) :
        /\ xfer[t].from \in Stores /\ xfer[t].to \in Stores
        /\ xfer[t].items[k].variant \in Variants

\* An order that was placed has a store of origin.
OrdersSourced == \A o \in Orders : Placed(o) => ord[o].source \in Stores

\* What a request remembers has the type of what it read, and the order of a
\* request that will move its status was placed.
Amounts(f, S) == DOMAIN f \subseteq S /\ \A x \in DOMAIN f : f[x] \in Int
RequestOK(r, table) ==
    /\ r.op \in {"checkout", "status", "start", "pick", "sync", "complete", "task"} =>
          r.ord \in Orders
    /\ r.op \in {"status", "start", "pick", "sync"} => table[r.ord].status # "ABSENT"
    /\ r.op \in {"reserve", "release", "shortage"} => r.line \in Lines
    /\ r.op = "status" => r.target \in OrderStatus
    /\ r.op = "status" /\ r.phase = "commit" => Amounts(r.held, ResIds)
    /\ r.op = "reserve" => r.store \in Stores /\ r.qty \in Nat
    /\ r.op = "release" =>
          /\ Amounts(r.take, ResIds)
          /\ \A k \in DOMAIN r.take : r.left[k] \in Nat
    /\ r.op = "shortage" => r.qty \in Nat /\ r.seen \in OrderStatus \union {"ABSENT"}
    /\ r.op = "shortage" /\ r.seen # "ABSENT" => table[LineOrder[r.line]].status # "ABSENT"
    /\ r.op = "pick" => Amounts(r.limit, Lines) /\ \A l \in DOMAIN r.limit : r.delta[l] \in Int
    /\ r.op = "task" /\ r.phase = "write" => r.store \in Stores
RequestsOK == \A s \in Slots : RequestOK(req[s], ord)

Typed == TypeOK /\ ReservationsPlaced /\ TransfersPlaced /\ OrdersSourced /\ RequestsOK

PlacedStays == \A o \in Orders : Placed(o) => Placed(o)'

-----------------------------------------------------------------------------
(* What a step leaves alone keeps its type.                                  *)

LEMMA SameReservations ==
    ASSUME ReservationsPlaced, UNCHANGED res PROVE ReservationsPlaced'
  BY DEF ReservationsPlaced

LEMMA SameTransfers ==
    ASSUME TransfersPlaced, UNCHANGED xfer PROVE TransfersPlaced'
  BY DEF TransfersPlaced, Items

LEMMA SameOrders ==
    ASSUME OrdersSourced, UNCHANGED ord PROVE OrdersSourced' /\ PlacedStays
  BY DEF OrdersSourced, Placed, PlacedStays

LEMMA RequestStays ==
    ASSUME PlacedStays, NEW r, RequestOK(r, ord) PROVE RequestOK(r, ord')
  BY ErpAssumption DEF PlacedStays, Placed, RequestOK

LEMMA SameRequests ==
    ASSUME RequestsOK, UNCHANGED req, PlacedStays PROVE RequestsOK'
  BY RequestStays DEF RequestsOK

LEMMA NewRequest ==
    ASSUME RequestsOK, DOMAIN req = Slots, PlacedStays,
           NEW s \in Slots, NEW r, Continue(s, r), RequestOK(r, ord)
    PROVE  RequestsOK' /\ DOMAIN req' = Slots
<1>1. DOMAIN req' = Slots
  BY DEF Continue
<1>2. ASSUME NEW z \in Slots
      PROVE  RequestOK(req'[z], ord')
  <2>1. req'[z] = r \/ req'[z] = req[z]
    BY DEF Continue
  <2>2. RequestOK(req[z], ord)
    BY DEF RequestsOK
  <2>3. RequestOK(req[z], ord') /\ RequestOK(r, ord')
    BY <2>2, RequestStays
  <2>4. QED
    BY <2>1, <2>3
<1>3. QED
  BY <1>1, <1>2 DEF RequestsOK

LEMMA EndOfRequest ==
    ASSUME RequestsOK, DOMAIN req = Slots, PlacedStays, NEW s \in Slots, Finish(s)
    PROVE  RequestsOK' /\ DOMAIN req' = Slots
<1>1. RequestOK(Idle, ord)
  BY DEF RequestOK, Idle
<1>2. QED
  BY <1>1, NewRequest DEF Finish

-----------------------------------------------------------------------------
(* Rows: what an UPDATE of a column leaves of a row.                         *)

LEMMA InventoryRows ==
    ASSUME NEW row \in InventoryRow, NEW n \in Nat
    PROVE  /\ [row EXCEPT !.stock = n] \in InventoryRow
           /\ [row EXCEPT !.reserved = n] \in InventoryRow
  BY DEF InventoryRow

LEMMA OrderRows ==
    ASSUME NEW row \in OrderRow
    PROVE  /\ \A x \in OrderStatus : [row EXCEPT !.status = x] \in OrderRow
           /\ \A x : [row EXCEPT !.status = x].source = row.source
           /\ \A x : [row EXCEPT !.status = x].status = x
           /\ \A z \in Stores : [row EXCEPT !.fulfil = z] \in OrderRow
           /\ \A z : [row EXCEPT !.fulfil = z].source = row.source
           /\ \A z : [row EXCEPT !.fulfil = z].status = row.status
           /\ \A x \in {"IN_PROGRESS", "COMPLETED", "CANCELLED"} :
                [row EXCEPT !.session = x] \in OrderRow
           /\ \A x : [row EXCEPT !.session = x].source = row.source
           /\ \A x : [row EXCEPT !.session = x].status = row.status
  BY DEF OrderRow

LEMMA LineRows ==
    ASSUME NEW row \in LineRow
    PROVE  /\ \A n \in Int : [row EXCEPT !.reserved = n] \in LineRow
           /\ \A n \in Nat : [row EXCEPT !.picked = n] \in LineRow
           /\ \A n \in Nat : [row EXCEPT !.shortage = n] \in LineRow
           /\ \A n \in Nat : [row EXCEPT !.returned = n] \in LineRow
           /\ \A z \in Stores \union {Null} : [row EXCEPT !.store = z] \in LineRow
           /\ row.qty \in Nat /\ row.reserved \in Int /\ row.picked \in Nat
           /\ row.shortage \in Nat /\ row.returned \in Nat
           /\ row.store \in Stores \union {Null}
  BY DEF LineRow

LEMMA ReservationRows ==
    ASSUME NEW row \in ReservationRow
    PROVE  /\ \A x \in {"COMPLETED", "RELEASED"} : /\ [row EXCEPT !.status = x] \in ReservationRow
                                                   /\ [row EXCEPT !.status = x].status = x
           /\ \A n \in Nat : [row EXCEPT !.qty = n] \in ReservationRow
           /\ \A n : /\ [row EXCEPT !.qty = n].status = row.status
                     /\ [row EXCEPT !.qty = n].inv = row.inv
  BY DEF ReservationRow

LEMMA NewReservationRow ==
    ASSUME NEW o \in Orders \union {Null}, NEW l \in Lines \union {Null},
           NEW i \in Inventories, NEW q \in Nat
    PROVE  /\ Reservation(o, l, i, q) \in ReservationRow
           /\ Reservation(o, l, i, q).inv = i
  BY DEF Reservation, ReservationRow

LEMMA OrderReservationRow ==
    ASSUME NEW o \in Orders, NEW i \in Inventories, NEW q \in Nat
    PROVE  /\ Reservation(o, Null, i, q) \in ReservationRow
           /\ Reservation(o, Null, i, q).inv = i
  BY NewReservationRow

LEMMA TransferRows ==
    ASSUME NEW row \in TransferRow
    PROVE  /\ \A x \in {"IN_TRANSIT", "PARTIALLY_RECEIVED", "RECEIVED", "CANCELLED"} :
                [row EXCEPT !.status = x] \in TransferRow
           /\ \A f \in [ItemKeys -> ItemRow] : [row EXCEPT !.items = f] \in TransferRow
           /\ \A x : /\ [row EXCEPT !.status = x].from = row.from
                     /\ [row EXCEPT !.status = x].to = row.to
                     /\ [row EXCEPT !.status = x].ord = row.ord
                     /\ [row EXCEPT !.status = x].items = row.items
           /\ \A f : /\ [row EXCEPT !.items = f].from = row.from
                     /\ [row EXCEPT !.items = f].to = row.to
                     /\ [row EXCEPT !.items = f].ord = row.ord
                     /\ [row EXCEPT !.items = f].status = row.status
                     /\ [row EXCEPT !.items = f].items = f
  BY DEF TransferRow

LEMMA ItemRows ==
    ASSUME NEW row \in ItemRow, NEW n \in Nat
    PROVE  /\ [row EXCEPT !.disp = n] \in ItemRow
           /\ [row EXCEPT !.rec = n] \in ItemRow
           /\ [row EXCEPT !.disc = n] \in ItemRow
           /\ [row EXCEPT !.disp = n].qty = row.qty /\ [row EXCEPT !.disp = n].variant = row.variant
  BY DEF ItemRow

LEMMA NewItem ==
    ASSUME NEW l \in Lines \union {Null}, NEW v \in Variants \union {Null}, NEW q \in Nat
    PROVE  Item(l, v, q) \in ItemRow
  BY DEF Item, ItemRow

LEMMA TaskRows ==
    ASSUME NEW row \in TaskRow
    PROVE  /\ \A x \in TaskStatus : /\ [row EXCEPT !.review = x] \in TaskRow
                                    /\ [row EXCEPT !.packing = x] \in TaskRow
                                    /\ [row EXCEPT !.delivery = x] \in TaskRow
           /\ \A f \in [Stores -> TaskStatus] : [row EXCEPT !.picking = f] \in TaskRow
           /\ row.review \in TaskStatus /\ row.packing \in TaskStatus
           /\ row.delivery \in TaskStatus /\ row.picking \in [Stores -> TaskStatus]
  BY DEF TaskRow

-----------------------------------------------------------------------------
(* New reservations.                                                         *)

\* What NewReservations allocates is reservations of S.
LEMMA NewReservationsType ==
    ASSUME NEW S, NEW new \in NewReservations(S)
    PROVE  DOMAIN new \subseteq ResIds /\ \A r \in DOMAIN new : new[r] \in S
  BY DEF NewReservations

\* Inserting reservations keeps the table a table.
LEMMA InsertedType ==
    ASSUME Typed, NEW rows,
           \A r \in DOMAIN rows : rows[r] \in ReservationRow /\ rows[r].inv \in Inventories
    PROVE  /\ Inserted(rows) \in [ResIds -> ReservationRow]
           /\ res' = Inserted(rows) => ReservationsPlaced'
  BY DEF Inserted, Typed, TypeOK, ReservationsPlaced

\* An UPDATE of inventories by integers leaves integers.
LEMMA BookedType ==
    ASSUME Typed, NEW f \in [Inventories -> Int], NEW g \in [Inventories -> Int],
           \A i \in Inventories : inv[i].stock + f[i] >= 0 /\ inv[i].reserved + g[i] >= 0
    PROVE  Booked(f, g) \in [Inventories -> InventoryRow]
<1>1. \A i \in Inventories : inv[i].stock \in Nat /\ inv[i].reserved \in Nat
  BY DEF Typed, TypeOK, InventoryRow
<1>2. QED
  BY <1>1 DEF Booked, InventoryRow

\* The CHECK constraints keep what a transaction commits natural.
LEMMA BookedSound ==
    ASSUME Typed, NEW f \in [Inventories -> Int], NEW g \in [Inventories -> Int],
           Sound(Booked(f, g))
    PROVE  Booked(f, g) \in [Inventories -> InventoryRow]
<1>1. \A i \in Inventories : inv[i].stock \in Nat /\ inv[i].reserved \in Nat
  BY DEF Typed, TypeOK, InventoryRow
<1>2. \A i \in Inventories : /\ Booked(f, g)[i].stock = inv[i].stock + f[i]
                             /\ Booked(f, g)[i].reserved = inv[i].reserved + g[i]
  BY DEF Booked
<1>3. \A i \in Inventories : inv[i].stock + f[i] >= 0 /\ inv[i].reserved + g[i] >= 0
  BY <1>1, <1>2 DEF Sound
<1>4. QED
  BY <1>3, BookedType

LEMMA NothingType == Nothing \in [Inventories -> Int] /\ \A i \in Inventories : Nothing[i] = 0
  BY DEF Nothing

LEMMA MinusType ==
    ASSUME NEW f \in [Inventories -> Nat]
    PROVE  Minus(f) \in [Inventories -> Int]
  BY DEF Minus

-----------------------------------------------------------------------------
(* inventory.service.ts.                                                     *)

LEMMA MovementTyped ==
    ASSUME Typed, NEW s \in Slots, NEW i \in Inventories, CreateMovement(s, i)
    PROVE  Typed'
<1>1. PICK delta \in (-MaxQty..MaxQty) \ {0} :
          /\ MovementFits(i, delta)
          /\ inv' = [inv EXCEPT ![i].stock = inv[i].stock + delta]
  BY DEF CreateMovement
<1>2. inv[i] \in InventoryRow /\ inv[i].stock \in Nat /\ inv[i].reserved \in Nat
  BY DEF Typed, TypeOK, InventoryRow
<1>3. inv[i].stock + delta \in Nat
  BY <1>1, <1>2, ErpAssumption DEF MovementFits
<1>4. inv' \in [Inventories -> InventoryRow]
  BY <1>1, <1>2, <1>3, InventoryRows DEF Typed, TypeOK
<1>5. UNCHANGED <<ord, line, res, xfer, task, req>>
  BY DEF CreateMovement
<1>6. QED
  BY <1>4, <1>5, SameReservations, SameTransfers, SameOrders, SameRequests DEF Typed, TypeOK

LEMMA CreateReservationTyped ==
    ASSUME Typed, NEW s \in Slots, NEW i \in Inventories, CreateReservation(s, i)
    PROVE  Typed'
<1>1. PICK q \in 1..MaxQty, o \in Orders \union {Null}, new \in NewReservations({1}) :
          /\ inv' = [inv EXCEPT ![i].reserved = inv[i].reserved + q]
          /\ res' = Inserted([r \in DOMAIN new |-> Reservation(o, Null, i, q)])
  BY DEF CreateReservation
<1>2. inv[i] \in InventoryRow /\ inv[i].reserved + q \in Nat /\ q \in Nat
  BY ErpAssumption DEF Typed, TypeOK, InventoryRow
<1>3. inv' \in [Inventories -> InventoryRow]
  BY <1>1, <1>2, InventoryRows DEF Typed, TypeOK
<1>4. res' \in [ResIds -> ReservationRow] /\ ReservationsPlaced'
  <2> DEFINE rows == [r \in DOMAIN new |-> Reservation(o, Null, i, q)]
  <2>1. \A r \in DOMAIN rows : rows[r] \in ReservationRow /\ rows[r].inv \in Inventories
    BY <1>2, NewReservationRow
  <2>2. res' = Inserted(rows)
    BY <1>1
  <2> HIDE DEF rows
  <2>3. QED
    BY <2>1, <2>2, InsertedType
<1>5. UNCHANGED <<ord, line, xfer, task, req>>
  BY DEF CreateReservation
<1>6. QED
  BY <1>3, <1>4, <1>5, SameTransfers, SameOrders, SameRequests DEF Typed, TypeOK

LEMMA ReconcileTyped ==
    ASSUME Typed, NEW s \in Slots, ReconcileReservedStock(s)
    PROVE  Typed'
<1>1. PICK S : inv' = [i \in Inventories |->
                         IF i \in S THEN [inv[i] EXCEPT !.reserved = Total(ActiveOn(i), Quantities)]
                         ELSE inv[i]]
  BY DEF ReconcileReservedStock
<1>2. ASSUME NEW i \in Inventories
      PROVE  Total(ActiveOn(i), Quantities) \in Nat
  <2>1. IsFiniteSet(ActiveOn(i))
    BY ReservationsAreFinite DEF ActiveOn
  <2>2. \A r \in ActiveOn(i) : Quantities[r] \in Int
    BY DEF ActiveOn, Quantities, Typed, TypeOK, ReservationRow
  <2>3. QED
    BY <2>1, <2>2, TotalIsNat
<1>3. inv' \in [Inventories -> InventoryRow]
  BY <1>1, <1>2, InventoryRows DEF Typed, TypeOK
<1>4. UNCHANGED <<ord, line, res, xfer, task, req>>
  BY DEF ReconcileReservedStock
<1>5. QED
  BY <1>3, <1>4, SameReservations, SameTransfers, SameOrders, SameRequests DEF Typed, TypeOK

\* A row of StockTransfer, by its columns.
LEMMA NewTransferRow ==
    ASSUME NEW from \in Stores, NEW to \in Stores, NEW o \in Orders \union {Null},
           NEW f \in [ItemKeys -> ItemRow]
    PROVE  [status |-> "PENDING", from |-> from, to |-> to, ord |-> o, items |-> f] \in TransferRow
  BY DEF TransferRow

LEMMA CreateTransferTyped ==
    ASSUME Typed, NEW s \in Slots, CreateStockTransfer(s)
    PROVE  Typed'
<1>1. PICK from \in Stores, to \in Stores, n \in 1..MaxItems :
        /\ from # to
        /\ \E v \in [1..n -> Variants], q \in [1..n -> 1..MaxQty] :
             xfer' = [xfer EXCEPT ![UsedXfer + 1] =
                        [status |-> "PENDING", from |-> from, to |-> to, ord |-> Null,
                         items |-> [k \in ItemKeys |-> IF k \in 1..n THEN Item(Null, v[k], q[k])
                                                      ELSE NoItem]]]
  BY ZenonT(60) DEF CreateStockTransfer
<1>2. PICK v \in [1..n -> Variants], q \in [1..n -> 1..MaxQty] :
          xfer' = [xfer EXCEPT ![UsedXfer + 1] =
                     [status |-> "PENDING", from |-> from, to |-> to, ord |-> Null,
                      items |-> [k \in ItemKeys |-> IF k \in 1..n THEN Item(Null, v[k], q[k])
                                                   ELSE NoItem]]]
  BY <1>1
<1> DEFINE items == [k \in ItemKeys |-> IF k \in 1..n THEN Item(Null, v[k], q[k]) ELSE NoItem]
           row == [status |-> "PENDING", from |-> from, to |-> to, ord |-> Null, items |-> items]
<1>3. items \in [ItemKeys -> ItemRow]
  <2>1. \A k \in 1..n : v[k] \in Variants /\ q[k] \in Nat
    BY ErpAssumption
  <2>2. NoItem \in ItemRow
    BY DEF NoItem, Item, ItemRow
  <2>3. QED
    BY <2>1, <2>2, NewItem
<1>4. row \in TransferRow
  BY <1>3, NewTransferRow
<1>5. xfer' = [xfer EXCEPT ![UsedXfer + 1] = row]
  BY <1>2
<1>6. xfer' \in [XferIds -> TransferRow]
  BY <1>4, <1>5 DEF Typed, TypeOK
<1>7. TransfersPlaced'
  <2>1. ASSUME NEW k \in ItemKeys, items[k].qty > 0
        PROVE  items[k].variant \in Variants
    BY <2>1 DEF NoItem, Item
  <2>2. ASSUME NEW t \in XferIds, NEW k \in ItemKeys, xfer'[t].items[k].qty > 0
        PROVE  /\ xfer'[t].from \in Stores /\ xfer'[t].to \in Stores
               /\ xfer'[t].items[k].variant \in Variants
    <3>1. CASE xfer'[t] = row
      BY <3>1, <2>1, <2>2
    <3>2. CASE xfer'[t] = xfer[t]
      BY <3>2, <2>2 DEF Typed, TransfersPlaced, Items
    <3>3. QED
      BY <1>5, <3>1, <3>2 DEF Typed, TypeOK
  <2>3. QED
    BY <2>2 DEF TransfersPlaced, Items
<1>8. UNCHANGED <<inv, ord, line, res, task, req>>
  BY DEF CreateStockTransfer
<1>9. QED
  BY <1>6, <1>7, <1>8, SameReservations, SameOrders, SameRequests DEF Typed, TypeOK

-----------------------------------------------------------------------------
(* Transfers on their way.                                                   *)

\* Updating one transfer by a row that goes between the same stores and has the
\* items it had, of the same variants.
LEMMA OneTransfer ==
    ASSUME Typed, NEW t \in XferIds, NEW row \in TransferRow,
           xfer' = [xfer EXCEPT ![t] = row],
           row.from = xfer[t].from, row.to = xfer[t].to,
           \A k \in ItemKeys : row.items[k].qty > 0 =>
               /\ xfer[t].items[k].qty > 0
               /\ row.items[k].variant = xfer[t].items[k].variant
    PROVE  xfer' \in [XferIds -> TransferRow] /\ TransfersPlaced'
<1>1. xfer' \in [XferIds -> TransferRow]
  BY DEF Typed, TypeOK
<1>2. ASSUME NEW u \in XferIds, NEW k \in ItemKeys, xfer'[u].items[k].qty > 0
      PROVE  /\ xfer'[u].from \in Stores /\ xfer'[u].to \in Stores
             /\ xfer'[u].items[k].variant \in Variants
  <2>1. xfer'[t] = row /\ (u # t => xfer'[u] = xfer[u])
    BY DEF Typed, TypeOK
  <2>2. xfer[u].items[k].qty > 0
    BY <1>2, <2>1
  <2>3. /\ xfer[u].from \in Stores /\ xfer[u].to \in Stores
        /\ xfer[u].items[k].variant \in Variants
    BY <2>2 DEF Typed, TransfersPlaced, Items
  <2>4. QED
    BY <2>1, <2>3, <1>2
<1>3. QED
  BY <1>1, <1>2 DEF TransfersPlaced, Items

LEMMA PerInventoryType ==
    ASSUME NEW t, NEW place, NEW f, \A k \in Items(t) : f[k] \in Int
    PROVE  PerInventory(t, place, f) \in [Inventories -> Nat]
<1>1. ASSUME NEW i \in Inventories
      PROVE  Total({k \in Items(t) : place[k] = i}, f) \in Nat
  <2>1. IsFiniteSet({k \in Items(t) : place[k] = i})
    BY ItemsAreFinite DEF Items
  <2>2. QED
    BY <2>1, TotalIsNat
<1>2. QED
  BY <1>1 DEF PerInventory

LEMMA TransferType ==
    ASSUME Typed, NEW t \in XferIds
    PROVE  /\ xfer[t] \in TransferRow
           /\ xfer[t].ord \in Orders \union {Null}
           /\ \A k \in ItemKeys : /\ xfer[t].items[k] \in ItemRow
                                  /\ xfer[t].items[k].line \in Lines \union {Null}
                                  /\ xfer[t].items[k].qty \in Nat
                                  /\ xfer[t].items[k].disp \in Nat
                                  /\ xfer[t].items[k].rec \in Nat
                                  /\ xfer[t].items[k].disc \in Nat
           /\ \A k \in Items(t) : /\ k \in ItemKeys
                                  /\ Origin(t)[k] \in Inventories
                                  /\ Destination(t)[k] \in Inventories
                                  /\ Asked(t)[k] \in Nat
<1>1. xfer[t] \in TransferRow
  BY DEF Typed, TypeOK
<1>2. xfer[t].ord \in Orders \union {Null} /\ xfer[t].items \in [ItemKeys -> ItemRow]
  BY <1>1 DEF TransferRow
<1>3. ASSUME NEW k \in ItemKeys
      PROVE  /\ xfer[t].items[k] \in ItemRow
             /\ xfer[t].items[k].line \in Lines \union {Null}
             /\ xfer[t].items[k].qty \in Nat /\ xfer[t].items[k].disp \in Nat
             /\ xfer[t].items[k].rec \in Nat /\ xfer[t].items[k].disc \in Nat
  BY <1>2 DEF ItemRow
<1>4. ASSUME NEW k \in Items(t)
      PROVE  /\ k \in ItemKeys
             /\ Origin(t)[k] \in Inventories /\ Destination(t)[k] \in Inventories
             /\ Asked(t)[k] \in Nat
  <2>1. k \in ItemKeys
    BY DEF Items
  <2>2. /\ xfer[t].from \in Stores /\ xfer[t].to \in Stores
        /\ xfer[t].items[k].variant \in Variants
    BY DEF Typed, TransfersPlaced
  <2>3. QED
    BY <1>3, <2>1, <2>2 DEF Origin, Destination, Asked, Inventories
<1>5. QED
  BY <1>1, <1>2, <1>3, <1>4

LEMMA DispatchTyped ==
    ASSUME Typed, NEW s \in Slots, NEW t \in XferIds, DispatchStockTransfer(s, t)
    PROVE  Typed'
<1> DEFINE out == Minus(PerInventory(t, Origin(t), Asked(t)))
           reserved == IF ForOrder(t) THEN out ELSE Nothing
           items == [k \in ItemKeys |-> [xfer[t].items[k] EXCEPT !.disp = xfer[t].items[k].qty]]
           moved == [xfer[t] EXCEPT !.status = "IN_TRANSIT"]
           row == [moved EXCEPT !.items = items]
<1>1. inv' = Booked(out, reserved) /\ Sound(inv')
  BY DEF DispatchStockTransfer
<1>2. out \in [Inventories -> Int] /\ reserved \in [Inventories -> Int]
  BY TransferType, PerInventoryType, MinusType, NothingType
<1>3. inv' \in [Inventories -> InventoryRow]
  <2> HIDE DEF out, reserved
  <2>1. QED
    BY <1>1, <1>2, BookedSound
<1>4. res' \in [ResIds -> ReservationRow] /\ ReservationsPlaced'
  <2>1. res' = [r \in ResIds |-> IF ForOrder(t) /\ r \in Items(t)
                                 THEN [res[r] EXCEPT !.status = "COMPLETED"] ELSE res[r]]
    BY DEF DispatchStockTransfer
  <2>2. QED
    BY <2>1, ReservationRows DEF Typed, TypeOK, ReservationsPlaced
<1>5. xfer' = [xfer EXCEPT ![t] = row]
  BY DEF DispatchStockTransfer, Typed, TypeOK
<1>6. items \in [ItemKeys -> ItemRow]
  BY TransferType, ItemRows
<1>7. \A k \in ItemKeys : /\ items[k].qty = xfer[t].items[k].qty
                          /\ items[k].variant = xfer[t].items[k].variant
  BY TransferType, ItemRows
<1>8. row \in TransferRow /\ row.from = xfer[t].from /\ row.to = xfer[t].to /\ row.items = items
  <2> HIDE DEF items
  <2>1. moved \in TransferRow /\ moved.from = xfer[t].from /\ moved.to = xfer[t].to
    BY TransferType, TransferRows
  <2> HIDE DEF moved
  <2>2. QED
    BY <1>6, <2>1, TransferRows
<1>9. xfer' \in [XferIds -> TransferRow] /\ TransfersPlaced'
  <2> HIDE DEF row, items
  <2>1. QED
    BY <1>5, <1>7, <1>8, OneTransfer
<1>10. UNCHANGED <<ord, line, task, req>>
  BY DEF DispatchStockTransfer
<1>11. QED
  BY <1>3, <1>4, <1>9, <1>10, SameOrders, SameRequests DEF Typed, TypeOK

\* An order that was placed and moves is still an order that was placed.
LEMMA OneOrderRow ==
    ASSUME Typed, NEW o \in Orders, NEW row \in OrderRow, ord' = [ord EXCEPT ![o] = row],
           row.status # "ABSENT", row.source \in Stores
    PROVE  ord' \in [Orders -> OrderRow] /\ OrdersSourced' /\ PlacedStays
<1>1. ord' \in [Orders -> OrderRow]
  BY DEF Typed, TypeOK
<1>2. ASSUME NEW p \in Orders
      PROVE  /\ Placed(p)' => ord'[p].source \in Stores
             /\ Placed(p) => Placed(p)'
  <2>1. ord'[o] = row /\ (p # o => ord'[p] = ord[p])
    BY DEF Typed, TypeOK
  <2>2. QED
    BY <2>1 DEF Typed, OrdersSourced, Placed
<1>3. QED
  BY <1>1, <1>2 DEF OrdersSourced, PlacedStays

LEMMA OrderMoves ==
    ASSUME Typed, NEW o \in Orders, Placed(o), NEW x \in OrderStatus,
           ord' = [ord EXCEPT ![o].status = x]
    PROVE  ord' \in [Orders -> OrderRow] /\ OrdersSourced' /\ PlacedStays
<1> DEFINE row == [ord[o] EXCEPT !.status = x]
<1>1. ord[o] \in OrderRow /\ ord[o].source \in Stores
  BY DEF Typed, TypeOK, OrdersSourced
<1>2. row \in OrderRow /\ row.source \in Stores /\ row.status = x
  BY <1>1, OrderRows
<1>3. x # "ABSENT"
  BY DEF OrderStatus
<1>4. ord' = [ord EXCEPT ![o] = row]
  OBVIOUS
<1> HIDE DEF row
<1>5. QED
  BY <1>2, <1>3, <1>4, OneOrderRow

LEMMA ShortRow ==
    ASSUME NEW row \in LineRow, NEW a \in Nat, NEW b \in Int
    PROVE  [row EXCEPT !.shortage = a, !.reserved = b] \in LineRow
  BY DEF LineRow

LEMMA AnchoredType ==
    ASSUME Typed, NEW t \in XferIds, NEW f, NEW place,
           \A k \in Items(t) : f[k] \in Nat /\ place[k] \in Inventories,
           NEW new \in NewReservations(Reserving(t, f)), res' = Inserted(Anchored(t, place, f, new))
    PROVE  res' \in [ResIds -> ReservationRow] /\ ReservationsPlaced'
<1> DEFINE rows == Anchored(t, place, f, new)
<1>1. ASSUME NEW r \in DOMAIN rows
      PROVE  rows[r] \in ReservationRow /\ rows[r].inv \in Inventories
  <2>1. r \in DOMAIN new /\ new[r] \in Reserving(t, f)
    BY NewReservationsType DEF Anchored
  <2>2. new[r] \in Items(t) /\ new[r] \in ItemKeys
    BY <2>1 DEF Reserving, Items
  <2>3. rows[r] = Reservation(xfer[t].ord, xfer[t].items[new[r]].line, place[new[r]], f[new[r]])
    BY <2>1 DEF Anchored
  <2>4. /\ xfer[t].ord \in Orders \union {Null}
        /\ xfer[t].items[new[r]].line \in Lines \union {Null}
    BY <2>2, TransferType
  <2>5. f[new[r]] \in Nat /\ place[new[r]] \in Inventories
    BY <2>2
  <2>6. LET q == f[new[r]]
            i == place[new[r]]
            new_row == Reservation(xfer[t].ord, xfer[t].items[new[r]].line, i, q)
        IN  new_row \in ReservationRow /\ new_row.inv = i
    BY <2>4, <2>5, NewReservationRow, Zenon
  <2> HIDE DEF rows
  <2>7. QED
    BY <2>3, <2>5, <2>6
<1> HIDE DEF rows
<1>2. res' = Inserted(rows)
  BY DEF rows
<1>3. QED
  BY <1>1, <1>2, InsertedType

LEMMA ReceiveTyped ==
    ASSUME Typed, NEW s \in Slots, NEW t \in XferIds, ReceiveStockTransfer(s, t)
    PROVE  Typed'
<1>1. PICK rec \in [Items(t) -> 0..MaxQty], disc \in [Items(t) -> 0..MaxQty] :
         LET o == xfer[t].ord
             items == [k \in ItemKeys |->
                         IF k \in Items(t)
                         THEN [xfer[t].items[k] EXCEPT !.rec = xfer[t].items[k].rec + rec[k],
                                                       !.disc = xfer[t].items[k].disc + disc[k]]
                         ELSE NoItem]
             complete == \A k \in Items(t) : Left(items[k]) = 0
             arrived == PerInventory(t, Destination(t), rec)
         IN  /\ inv' = Booked(arrived, IF ForOrder(t) THEN arrived ELSE Nothing)
             /\ \E new \in NewReservations(Reserving(t, rec)) :
                  res' = Inserted(Anchored(t, Destination(t), rec, new))
             /\ line' = WithShortages(t, disc)
             /\ xfer' = [xfer EXCEPT
                           ![t].status = IF complete THEN "RECEIVED" ELSE "PARTIALLY_RECEIVED",
                           ![t].items = items]
             /\ ord' = IF /\ ForOrder(t) /\ complete /\ Outstanding(o, t) = {}
                          /\ ord[o].status = "WAITING_TRANSFER"
                       THEN [ord EXCEPT ![o].status = "PREPARING"]
                       ELSE ord
  BY DEF ReceiveStockTransfer
<1> DEFINE items == [k \in ItemKeys |->
                       IF k \in Items(t)
                       THEN [xfer[t].items[k] EXCEPT !.rec = xfer[t].items[k].rec + rec[k],
                                                     !.disc = xfer[t].items[k].disc + disc[k]]
                       ELSE NoItem]
           complete == \A k \in Items(t) : Left(items[k]) = 0
           arrived == PerInventory(t, Destination(t), rec)
           reserved == IF ForOrder(t) THEN arrived ELSE Nothing
           status == IF complete THEN "RECEIVED" ELSE "PARTIALLY_RECEIVED"
           moved == [xfer[t] EXCEPT !.status = status]
           row == [moved EXCEPT !.items = items]
<1>2. \A k \in Items(t) : rec[k] \in Nat /\ disc[k] \in Nat
  BY ErpAssumption
<1>3. arrived \in [Inventories -> Nat]
  BY <1>2, PerInventoryType
<1>4. inv' \in [Inventories -> InventoryRow]
  <2>1. inv' = Booked(arrived, reserved)
    BY <1>1
  <2>2. reserved \in [Inventories -> Nat]
    <3> HIDE DEF arrived
    <3>1. QED
      BY <1>3, NothingType
  <2>3. \A i \in Inventories : inv[i].stock \in Nat /\ inv[i].reserved \in Nat
    BY DEF Typed, TypeOK, InventoryRow
  <2> HIDE DEF arrived, reserved
  <2>4. \A i \in Inventories : inv[i].stock + arrived[i] >= 0 /\ inv[i].reserved + reserved[i] >= 0
    BY <1>3, <2>2, <2>3
  <2>5. QED
    BY <1>3, <2>1, <2>2, <2>4, BookedType
<1>5. res' \in [ResIds -> ReservationRow] /\ ReservationsPlaced'
  <2>1. \A k \in Items(t) : rec[k] \in Nat /\ Destination(t)[k] \in Inventories
    BY <1>2, TransferType
  <2>2. PICK new \in NewReservations(Reserving(t, rec)) :
            res' = Inserted(Anchored(t, Destination(t), rec, new))
    BY <1>1
  <2>3. QED
    BY <2>1, <2>2, AnchoredType
<1>6. line' \in [Lines -> LineRow]
  <2> DEFINE lost(l) == Total({k \in Items(t) : ForOrder(t) /\ xfer[t].items[k].line = l}, disc)
  <2>1. ASSUME NEW l \in Lines
        PROVE  lost(l) \in Nat
    <3>1. IsFiniteSet({k \in Items(t) : ForOrder(t) /\ xfer[t].items[k].line = l})
      BY ItemsAreFinite DEF Items
    <3>2. QED
      BY <1>2, <3>1, TotalIsNat
  <2>2. line' = [l \in Lines |-> [line[l] EXCEPT !.shortage = line[l].shortage + lost(l),
                                               !.reserved = line[l].reserved - lost(l)]]
    BY <1>1 DEF WithShortages
  <2> HIDE DEF lost
  <2>3. ASSUME NEW l \in Lines
        PROVE  [line[l] EXCEPT !.shortage = line[l].shortage + lost(l),
                               !.reserved = line[l].reserved - lost(l)] \in LineRow
    <3>1. line[l] \in LineRow
      BY DEF Typed, TypeOK
    <3>2. line[l].shortage + lost(l) \in Nat /\ line[l].reserved - lost(l) \in Int
      BY <2>1, <3>1, LineRows
    <3>3. QED
      BY <3>1, <3>2, ShortRow
  <2>4. QED
    BY <2>2, <2>3
<1>7. \A k \in ItemKeys : /\ items[k] \in ItemRow
                          /\ items[k].qty > 0 => /\ xfer[t].items[k].qty > 0
                                                 /\ items[k].variant = xfer[t].items[k].variant
  <2>1. NoItem \in ItemRow /\ NoItem.qty = 0
    BY DEF NoItem, Item, ItemRow
  <2>2. ASSUME NEW k \in Items(t)
        PROVE  /\ items[k] \in ItemRow
               /\ items[k].qty > 0 => /\ xfer[t].items[k].qty > 0
                                      /\ items[k].variant = xfer[t].items[k].variant
    <3>1. k \in ItemKeys /\ xfer[t].items[k] \in ItemRow
      BY TransferType
    <3>2. xfer[t].items[k].rec + rec[k] \in Nat /\ xfer[t].items[k].disc + disc[k] \in Nat
      BY <1>2, <3>1, TransferType
    <3>3. items[k] = [xfer[t].items[k] EXCEPT !.rec = xfer[t].items[k].rec + rec[k],
                                              !.disc = xfer[t].items[k].disc + disc[k]]
      BY <3>1
    <3> HIDE DEF items
    <3>4. /\ items[k] \in ItemRow
          /\ items[k].qty = xfer[t].items[k].qty
          /\ items[k].variant = xfer[t].items[k].variant
      BY <3>1, <3>2, <3>3 DEF ItemRow
    <3>5. QED
      BY <3>4
  <2>3. ASSUME NEW k \in ItemKeys \ Items(t)
        PROVE  items[k] = NoItem
    OBVIOUS
  <2> HIDE DEF items
  <2>4. QED
    BY <2>1, <2>2, <2>3
<1>8. row \in TransferRow /\ row.from = xfer[t].from /\ row.to = xfer[t].to /\ row.items = items
  <2>1. items \in [ItemKeys -> ItemRow]
    BY <1>7
  <2>2. status \in {"RECEIVED", "PARTIALLY_RECEIVED"}
    OBVIOUS
  <2> HIDE DEF items, status
  <2>3. moved \in TransferRow /\ moved.from = xfer[t].from /\ moved.to = xfer[t].to
    BY <2>2, TransferType, TransferRows
  <2> HIDE DEF moved
  <2>4. QED
    BY <2>1, <2>3, TransferRows
<1>9. xfer' = [xfer EXCEPT ![t] = row]
  <2>1. xfer' = [xfer EXCEPT ![t].status = status, ![t].items = items]
    BY <1>1
  <2> HIDE DEF items, status
  <2>2. QED
    BY <2>1 DEF Typed, TypeOK
<1>10. xfer' \in [XferIds -> TransferRow] /\ TransfersPlaced'
  <2> HIDE DEF row, items
  <2>1. QED
    BY <1>7, <1>8, <1>9, OneTransfer
<1>11. ord' \in [Orders -> OrderRow] /\ OrdersSourced' /\ PlacedStays
  <2> DEFINE o == xfer[t].ord
  <2>1. CASE ord' = ord
    BY <2>1, SameOrders DEF Typed, TypeOK
  <2>2. CASE /\ ForOrder(t) /\ ord[o].status = "WAITING_TRANSFER"
             /\ ord' = [ord EXCEPT ![o].status = "PREPARING"]
    <3>1. o \in Orders /\ Placed(o)
      BY <2>2, TransferType DEF ForOrder, Placed
    <3>2. QED
      BY <2>2, <3>1, OrderMoves DEF OrderStatus
  <2>3. QED
    BY <1>1, <2>1, <2>2
<1>12. UNCHANGED <<task, req>>
  BY DEF ReceiveStockTransfer
<1>13. QED
  <2> HIDE DEF items, status, arrived, reserved, moved, row
  <2>1. QED
    BY <1>4, <1>5, <1>6, <1>10, <1>11, <1>12, SameRequests DEF Typed, TypeOK

LEMMA CancelTransferTyped ==
    ASSUME Typed, NEW s \in Slots, NEW t \in XferIds, CancelStockTransfer(s, t)
    PROVE  Typed'
<1> DEFINE back == PerInventory(t, Origin(t), Asked(t))
           reserved == IF ForOrder(t) THEN back ELSE Nothing
           row == [xfer[t] EXCEPT !.status = "CANCELLED"]
<1>1. /\ inv' \in [Inventories -> InventoryRow]
      /\ res' \in [ResIds -> ReservationRow] /\ ReservationsPlaced'
  <2>1. CASE UNCHANGED <<inv, res>>
    BY <2>1, SameReservations DEF Typed, TypeOK
  <2>2. CASE /\ inv' = Booked(back, reserved)
             /\ \E new \in NewReservations(Reserving(t, Asked(t))) :
                  res' = Inserted(Anchored(t, Origin(t), Asked(t), new))
    <3>1. \A k \in Items(t) : Asked(t)[k] \in Nat /\ Origin(t)[k] \in Inventories
      BY TransferType
    <3>2. back \in [Inventories -> Nat]
      BY <3>1, PerInventoryType
    <3>3. reserved \in [Inventories -> Nat]
      <4> HIDE DEF back
      <4>1. QED
        BY <3>2, NothingType
    <3>4. \A i \in Inventories : inv[i].stock \in Nat /\ inv[i].reserved \in Nat
      BY DEF Typed, TypeOK, InventoryRow
    <3>5. inv' \in [Inventories -> InventoryRow]
      <4> HIDE DEF back, reserved
      <4>1. \A i \in Inventories : inv[i].stock + back[i] >= 0 /\ inv[i].reserved + reserved[i] >= 0
        BY <3>2, <3>3, <3>4
      <4>2. QED
        BY <2>2, <3>2, <3>3, <4>1, BookedType
    <3>6. res' \in [ResIds -> ReservationRow] /\ ReservationsPlaced'
      <4>1. PICK new \in NewReservations(Reserving(t, Asked(t))) :
                res' = Inserted(Anchored(t, Origin(t), Asked(t), new))
        BY <2>2
      <4>2. QED
        BY <3>1, <4>1, AnchoredType
    <3>7. QED
      BY <3>5, <3>6
  <2>3. QED
    BY <2>1, <2>2 DEF CancelStockTransfer
<1>2. xfer' = [xfer EXCEPT ![t] = row]
  BY DEF CancelStockTransfer
<1>3. row \in TransferRow /\ row.from = xfer[t].from /\ row.to = xfer[t].to
      /\ row.items = xfer[t].items
  BY TransferType, TransferRows
<1>4. xfer' \in [XferIds -> TransferRow] /\ TransfersPlaced'
  <2> HIDE DEF row
  <2>1. QED
    BY <1>2, <1>3, OneTransfer
<1>5. UNCHANGED <<ord, line, task, req>>
  BY DEF CancelStockTransfer
<1>6. QED
  BY <1>1, <1>4, <1>5, SameOrders, SameRequests DEF Typed, TypeOK

-----------------------------------------------------------------------------
(* order.service.ts: new orders.                                             *)

LEMMA NewOrderRow ==
    ASSUME NEW status \in OrderStatus, NEW channel \in {"POS", "INTERNAL", "ECOMMERCE"},
           NEW source \in Stores, NEW fulfil \in Stores \union {Null},
           NEW row, row = [NoOrder EXCEPT !.status = status, !.channel = channel,
                                          !.source = source, !.fulfil = fulfil]
    PROVE  row \in OrderRow /\ row.status # "ABSENT" /\ row.source \in Stores
  BY DEF OrderRow, NoOrder, OrderStatus

LEMMA NewLineRow ==
    ASSUME NEW q \in Nat, NEW n \in Int, NEW p \in Nat, NEW z \in Stores
    PROVE  /\ [NoLine EXCEPT !.qty = q, !.reserved = n, !.store = z, !.picked = p] \in LineRow
           /\ [NoLine EXCEPT !.qty = q, !.reserved = n] \in LineRow
  BY DEF LineRow, NoLine

LEMMA PerLineType ==
    ASSUME NEW L \in SUBSET Lines, NEW at, NEW f, \A l \in L : f[l] \in Int
    PROVE  PerLine(L, at, f) \in [Inventories -> Nat]
<1>1. ASSUME NEW i \in Inventories
      PROVE  Total({l \in L : at[l] = i}, f) \in Nat
  <2>1. IsFiniteSet({l \in L : at[l] = i})
    BY LinesAreFinite
  <2>2. QED
    BY <2>1, TotalIsNat
<1>2. QED
  BY <1>1 DEF PerLine

LEMMA PickingTasksType ==
    ASSUME NEW row \in TaskRow, NEW stores
    PROVE  WithPickingTasks(row, stores) \in TaskRow
<1> DEFINE f == [s \in Stores |-> IF s \in stores /\ row.picking[s] = "NONE"
                                  THEN "OPEN" ELSE row.picking[s]]
           r == IF row.review = "OPEN" THEN "COMPLETED" ELSE row.review
<1>1. f \in [Stores -> TaskStatus] /\ r \in TaskStatus
  BY TaskRows DEF TaskStatus
<1>2. WithPickingTasks(row, stores) = [row EXCEPT !.picking = f, !.review = r]
  BY DEF WithPickingTasks
<1> HIDE DEF f, r
<1>3. QED
  BY <1>1, <1>2 DEF TaskRow

\* The transfers that an order opens are transfers of reserved units.
LEMMA RemoteTransfersType ==
    ASSUME Typed, NEW table \in [ResIds -> ReservationRow],
           \A r \in ResIds : table[r].status = "ACTIVE" => table[r].inv \in Inventories,
           NEW o \in Orders, NEW source \in Stores, EnsureRemoteTransfers(table, o, source)
    PROVE  xfer' \in [XferIds -> TransferRow] /\ TransfersPlaced'
<1> DEFINE from == RemoteStores(table, o, source)
           held(store) == RemoteReservations(table, o, store)
           items(store) == [r \in ItemKeys |->
                              IF r \in held(store)
                              THEN Item(table[r].line, table[r].inv[2], table[r].qty)
                              ELSE NoItem]
           row(store) == [status |-> "PENDING", from |-> store, to |-> source, ord |-> o,
                          items |-> items(store)]
<1>1. PICK new \in [UsedXfer + 1 .. UsedXfer + Cardinality(from) -> from] :
         xfer' = [t \in XferIds |-> IF t \in DOMAIN new THEN row(new[t]) ELSE xfer[t]]
  BY DEF EnsureRemoteTransfers
<1>2. ASSUME NEW store \in Stores, NEW r \in held(store)
      PROVE  /\ table[r].line \in Lines \union {Null} /\ table[r].inv[2] \in Variants
             /\ table[r].qty \in Nat
  <2>1. r \in ResIds /\ table[r].status = "ACTIVE"
    BY DEF RemoteReservations
  <2>2. table[r] \in ReservationRow /\ table[r].inv \in Inventories
    BY <2>1
  <2>3. QED
    BY <2>2 DEF ReservationRow, Inventories
<1>3. ASSUME NEW store \in Stores
      PROVE  /\ items(store) \in [ItemKeys -> ItemRow]
             /\ \A k \in ItemKeys : items(store)[k].qty > 0 => items(store)[k].variant \in Variants
  <2>1. NoItem \in ItemRow /\ NoItem.qty = 0
    BY DEF NoItem, Item, ItemRow
  <2>2. ASSUME NEW k \in held(store)
        PROVE  LET item == Item(table[k].line, table[k].inv[2], table[k].qty)
               IN  item \in ItemRow /\ item.variant \in Variants
    <3>1. /\ table[k].line \in Lines \union {Null} /\ table[k].inv[2] \in Variants
          /\ table[k].qty \in Nat
      BY <1>2
    <3>2. Item(table[k].line, table[k].inv[2], table[k].qty) \in ItemRow
      BY <3>1, NewItem
    <3>3. QED
      BY <3>1, <3>2 DEF Item
  <2> HIDE DEF held
  <2>3. QED
    BY <2>1, <2>2
<1>4. ASSUME NEW store \in Stores
      PROVE  row(store) \in TransferRow /\ row(store).items = items(store)
             /\ row(store).from \in Stores /\ row(store).to \in Stores
  <2>1. items(store) \in [ItemKeys -> ItemRow]
    BY <1>3
  <2> HIDE DEF items
  <2>2. QED
    BY <2>1, NewTransferRow
<1>5. \A t \in DOMAIN new : new[t] \in Stores
  BY DEF RemoteStores
<1> HIDE DEF row, items
<1>6. xfer' \in [XferIds -> TransferRow]
  BY <1>1, <1>4, <1>5 DEF Typed, TypeOK
<1>7. ASSUME NEW t \in XferIds, NEW k \in ItemKeys, xfer'[t].items[k].qty > 0
      PROVE  /\ xfer'[t].from \in Stores /\ xfer'[t].to \in Stores
             /\ xfer'[t].items[k].variant \in Variants
  <2>1. CASE t \in DOMAIN new
    <3>1. xfer'[t] = row(new[t]) /\ new[t] \in Stores
      BY <1>1, <1>5, <2>1
    <3>2. QED
      BY <1>3, <1>4, <1>7, <3>1
  <2>2. CASE t \notin DOMAIN new
    <3>1. xfer'[t] = xfer[t]
      BY <1>1, <2>2
    <3>2. QED
      BY <1>7, <3>1 DEF Typed, TransfersPlaced, Items
  <2>3. QED
    BY <2>1, <2>2
<1>8. QED
  BY <1>6, <1>7 DEF TransfersPlaced, Items

LEMMA CreateOrderTyped ==
    ASSUME Typed, NEW s \in Slots, NEW o \in Orders, CreateOrder(s, o)
    PROVE  Typed'
<1>1. PICK channel \in {"POS", "INTERNAL"}, source \in Stores,
           L \in (SUBSET {l \in Lines : LineOrder[l] = o}) \ {{}} :
        \E q \in [L -> 1..MaxQty], store \in [L -> Stores], chosen \in Stores \union {Null} :
          PlaceOrder(o, channel, source, L, q, store, chosen)
  BY DEF CreateOrder
<1>2. PICK q \in [L -> 1..MaxQty], store \in [L -> Stores], chosen \in Stores \union {Null} :
          PlaceOrder(o, channel, source, L, q, store, chosen)
  BY <1>1
<1> DEFINE stores == {store[l] : l \in L}
           remote == stores # {source}
           direct == channel = "POS" /\ ~remote
           fulfil == IF Cardinality(stores) = 1 THEN CHOOSE f \in stores : TRUE ELSE chosen
           at == [l \in L |-> <<store[l], LineVariant[l]>>]
           asked == PerLine(L, at, q)
           status == IF direct THEN "DELIVERED" ELSE IF remote THEN "WAITING_TRANSFER" ELSE "PENDING"
<1>3. /\ L \subseteq Lines /\ L # {}
      /\ \A l \in L : q[l] \in Nat /\ q[l] \in Int /\ store[l] \in Stores /\ at[l] \in Inventories
  <2>1. L \subseteq Lines /\ L # {}
    OBVIOUS
  <2>2. \A l \in L : q[l] \in Nat /\ store[l] \in Stores
    BY ErpAssumption
  <2>3. \A l \in L : LineVariant[l] \in Variants
    BY <2>1, ErpAssumption
  <2>4. QED
    BY <2>1, <2>2, <2>3 DEF Inventories
<1>4. asked \in [Inventories -> Nat]
  BY <1>3, PerLineType
<1>5. inv' \in [Inventories -> InventoryRow]
  <2>1. \A i \in Inventories : inv[i].stock \in Nat /\ inv[i].reserved \in Nat
    BY DEF Typed, TypeOK, InventoryRow
  <2>2. \A i \in Inventories : asked[i] > 0 => inv[i].stock - inv[i].reserved >= asked[i]
    BY <1>2 DEF PlaceOrder, Available
  <2>3. inv' = Booked(Minus(asked), Nothing) \/ inv' = Booked(Nothing, asked)
    BY <1>2 DEF PlaceOrder
  <2> HIDE DEF asked
  <2>4. CASE inv' = Booked(Minus(asked), Nothing)
    <3>1. \A i \in Inventories : /\ inv[i].stock + Minus(asked)[i] >= 0
                                 /\ inv[i].reserved + Nothing[i] >= 0
      BY <1>4, <2>1, <2>2 DEF Minus, Nothing
    <3>2. QED
      BY <1>4, <2>4, <3>1, BookedType, MinusType, NothingType
  <2>5. CASE inv' = Booked(Nothing, asked)
    <3>1. \A i \in Inventories : /\ inv[i].stock + Nothing[i] >= 0
                                 /\ inv[i].reserved + asked[i] >= 0
      BY <1>4, <2>1 DEF Nothing
    <3>2. QED
      BY <1>4, <2>5, <3>1, BookedType, NothingType
  <2>6. QED
    BY <2>3, <2>4, <2>5
<1>6. /\ res' \in [ResIds -> ReservationRow] /\ ReservationsPlaced'
  <2>1. PICK new \in NewReservations(IF direct THEN {} ELSE L) :
            res' = Inserted([r \in DOMAIN new |-> Reservation(o, new[r], at[new[r]], q[new[r]])])
    BY <1>2 DEF PlaceOrder
  <2> DEFINE rows == [r \in DOMAIN new |-> Reservation(o, new[r], at[new[r]], q[new[r]])]
  <2>2. ASSUME NEW r \in DOMAIN rows
        PROVE  rows[r] \in ReservationRow /\ rows[r].inv \in Inventories
    <3>1. new[r] \in L
      BY NewReservationsType
    <3>2. new[r] \in Lines /\ at[new[r]] \in Inventories /\ q[new[r]] \in Nat
      BY <1>3, <3>1
    <3> HIDE DEF at
    <3>3. QED
      BY <3>2, NewReservationRow
  <2> HIDE DEF rows
  <2>3. res' = Inserted(rows)
    BY <2>1 DEF rows
  <2>4. QED
    BY <2>2, <2>3, InsertedType
<1>7. line' \in [Lines -> LineRow]
  <2>1. ASSUME NEW l \in L
        PROVE  [NoLine EXCEPT !.qty = q[l], !.reserved = q[l], !.store = store[l],
                              !.picked = IF direct THEN q[l] ELSE 0] \in LineRow
    <3>1. (IF direct THEN q[l] ELSE 0) \in Nat
      BY <1>3
    <3> HIDE DEF direct
    <3>2. QED
      BY <1>3, <3>1, NewLineRow
  <2>2. line' = [l \in Lines |->
                   IF l \in L
                   THEN [NoLine EXCEPT !.qty = q[l], !.reserved = q[l], !.store = store[l],
                                       !.picked = IF direct THEN q[l] ELSE 0]
                   ELSE line[l]]
    BY <1>2 DEF PlaceOrder
  <2>3. QED
    BY <2>1, <2>2 DEF Typed, TypeOK
<1>8. ord' \in [Orders -> OrderRow] /\ OrdersSourced' /\ PlacedStays
  <2>1. fulfil \in Stores \union {Null}
    BY <1>3
  <2>2. status \in OrderStatus
    BY DEF OrderStatus
  <2>3. ord' = [ord EXCEPT ![o] = [NoOrder EXCEPT !.status = status, !.channel = channel,
                                                  !.source = source, !.fulfil = fulfil]]
    BY <1>2 DEF PlaceOrder
  <2> HIDE DEF fulfil, status
  <2> DEFINE row == [NoOrder EXCEPT !.status = status, !.channel = channel, !.source = source,
                                    !.fulfil = fulfil]
  <2>4. row \in OrderRow /\ row.status # "ABSENT" /\ row.source \in Stores
    BY <2>1, <2>2, NewOrderRow
  <2> HIDE DEF row
  <2>5. ord' = [ord EXCEPT ![o] = row]
    BY <2>3 DEF row
  <2>6. QED
    BY <2>4, <2>5, OneOrderRow
<1>9. /\ xfer' \in [XferIds -> TransferRow] /\ TransfersPlaced'
      /\ task' \in [Orders -> TaskRow]
  <2>1. CASE UNCHANGED <<xfer, task>>
    BY <2>1, SameTransfers DEF Typed, TypeOK
  <2>2. CASE /\ EnsureRemoteTransfers(res', o, source)
             /\ task' = [task EXCEPT ![o] = WithPickingTasks(task[o], stores)]
    <3>1. \A r \in ResIds : res'[r].status = "ACTIVE" => res'[r].inv \in Inventories
      BY <1>6 DEF ReservationsPlaced
    <3>2. xfer' \in [XferIds -> TransferRow] /\ TransfersPlaced'
      BY <1>6, <2>2, <3>1, RemoteTransfersType
    <3>3. task[o] \in TaskRow
      BY DEF Typed, TypeOK
    <3> HIDE DEF stores
    <3>4. task' \in [Orders -> TaskRow]
      BY <2>2, <3>3, PickingTasksType DEF Typed, TypeOK
    <3>5. QED
      BY <3>2, <3>4
  <2>3. QED
    BY <1>2, <2>1, <2>2 DEF PlaceOrder
<1>10. UNCHANGED req
  BY DEF CreateOrder
<1>11. QED
  BY <1>5, <1>6, <1>7, <1>8, <1>9, <1>10, SameRequests DEF Typed, TypeOK

LEMMA CreateMarketplaceOrderTyped ==
    ASSUME Typed, NEW s \in Slots, NEW o \in Orders, CreateMarketplaceOrder(s, o)
    PROVE  Typed'
<1>1. PICK source \in Stores, L \in (SUBSET {l \in Lines : LineOrder[l] = o}) \ {{}},
           autoReserveStock \in BOOLEAN :
        \E q \in [L -> 1..MaxQty] : PlaceMarketplaceOrder(o, source, L, q, autoReserveStock)
  BY DEF CreateMarketplaceOrder
<1>2. PICK q \in [L -> 1..MaxQty] : PlaceMarketplaceOrder(o, source, L, q, autoReserveStock)
  BY <1>1
<1> DEFINE at == [l \in L |-> <<source, LineVariant[l]>>]
           before(l) == Total({m \in L : m < l /\ LineVariant[m] = LineVariant[l]}, q)
           got == [l \in L |-> IF autoReserveStock
                               THEN Least(q[l], Greatest(0, Available(at[l]) - before(l)))
                               ELSE 0]
           asked == PerLine(L, at, got)
<1>3. /\ L \subseteq Lines
      /\ \A l \in L : q[l] \in Nat /\ q[l] \in Int /\ at[l] \in Inventories
  <2>1. L \subseteq Lines
    OBVIOUS
  <2>2. \A l \in L : LineVariant[l] \in Variants
    BY <2>1, ErpAssumption
  <2>3. QED
    BY <2>1, <2>2, ErpAssumption DEF Inventories
<1>4. \A l \in L : got[l] \in Nat
  <2>1. ASSUME NEW l \in L
        PROVE  before(l) \in Nat
    <3>1. IsFiniteSet({m \in L : m < l /\ LineVariant[m] = LineVariant[l]})
      BY <1>3, LinesAreFinite
    <3>2. QED
      BY <1>3, <3>1, TotalIsNat
  <2>2. ASSUME NEW l \in L
        PROVE  Available(at[l]) \in Int
    <3>1. at[l] \in Inventories
      BY <1>3
    <3> HIDE DEF at
    <3>2. QED
      BY <3>1 DEF Available, Typed, TypeOK, InventoryRow
  <2> HIDE DEF at, before
  <2>3. QED
    BY <1>3, <2>1, <2>2 DEF Least, Greatest
<1>5. asked \in [Inventories -> Nat]
  <2>1. \A l \in L : got[l] \in Int
    BY <1>4
  <2> HIDE DEF at, got
  <2>2. QED
    BY <1>3, <2>1, PerLineType
<1> HIDE DEF before, got
<1>6. inv' \in [Inventories -> InventoryRow]
  <2>1. inv' = Booked(Nothing, asked) /\ Sound(inv')
    BY <1>2 DEF PlaceMarketplaceOrder, got, before
  <2> HIDE DEF asked
  <2>2. QED
    BY <1>5, <2>1, BookedSound, NothingType
<1>7. res' \in [ResIds -> ReservationRow] /\ ReservationsPlaced'
  <2>1. PICK new \in NewReservations({l \in L : got[l] > 0}) :
            res' = Inserted([r \in DOMAIN new |-> Reservation(o, Null, at[new[r]], got[new[r]])])
    BY <1>2 DEF PlaceMarketplaceOrder, got, before
  <2> DEFINE rows == [r \in DOMAIN new |-> Reservation(o, Null, at[new[r]], got[new[r]])]
  <2>2. ASSUME NEW r \in DOMAIN rows
        PROVE  rows[r] \in ReservationRow /\ rows[r].inv \in Inventories
    <3>1. new[r] \in L
      BY NewReservationsType
    <3>2. at[new[r]] \in Inventories /\ got[new[r]] \in Nat
      BY <1>3, <1>4, <3>1
    <3>3. rows[r] = Reservation(o, Null, at[new[r]], got[new[r]])
      OBVIOUS
    <3> HIDE DEF at, rows
    <3>4. ASSUME NEW i \in Inventories, NEW n \in Nat
          PROVE  /\ Reservation(o, Null, i, n) \in ReservationRow
                 /\ Reservation(o, Null, i, n).inv = i
      BY OrderReservationRow
    <3>5. QED
      BY <3>2, <3>3, <3>4
  <2> HIDE DEF rows
  <2>3. res' = Inserted(rows)
    BY <2>1 DEF rows
  <2>4. QED
    BY <2>2, <2>3, InsertedType
<1>8. line' \in [Lines -> LineRow]
  <2>1. line' = [l \in Lines |->
                   IF l \in L THEN [NoLine EXCEPT !.qty = q[l], !.reserved = got[l]] ELSE line[l]]
    BY <1>2 DEF PlaceMarketplaceOrder, got, before
  <2>2. ASSUME NEW l \in L
        PROVE  [NoLine EXCEPT !.qty = q[l], !.reserved = got[l]] \in LineRow
    <3>1. q[l] \in Nat /\ got[l] \in Int
      BY <1>3, <1>4
    <3>2. QED
      BY <3>1, NewLineRow
  <2>3. QED
    BY <2>1, <2>2 DEF Typed, TypeOK
<1>9. ord' \in [Orders -> OrderRow] /\ OrdersSourced' /\ PlacedStays
  <2> DEFINE row == [NoOrder EXCEPT !.status = "PENDING", !.channel = "ECOMMERCE",
                                    !.source = source, !.fulfil = source]
  <2>1. row \in OrderRow /\ row.status # "ABSENT" /\ row.source \in Stores
    BY DEF OrderRow, NoOrder, OrderStatus
  <2>2. ord' = [ord EXCEPT ![o] = row]
    BY <1>2 DEF PlaceMarketplaceOrder
  <2> HIDE DEF row
  <2>3. QED
    BY <2>1, <2>2, OneOrderRow
<1>10. RequestsOK' /\ DOMAIN req' = Slots
  <2> DEFINE r == [op |-> "checkout", phase |-> "review", ord |-> o]
  <2>1. RequestOK(r, ord)
    BY DEF RequestOK
  <2>2. Continue(s, r)
    BY DEF CreateMarketplaceOrder
  <2> HIDE DEF r
  <2>3. QED
    BY <1>9, <2>1, <2>2, NewRequest DEF Typed, TypeOK
<1>11. UNCHANGED <<xfer, task>>
  BY DEF CreateMarketplaceOrder
<1>12. QED
  BY <1>6, <1>7, <1>8, <1>9, <1>10, <1>11, SameTransfers DEF Typed, TypeOK

LEMMA CreateOrderReviewTyped ==
    ASSUME Typed, NEW s \in Slots, CreateOrderReview(s)
    PROVE  Typed'
<1> DEFINE o == req[s].ord
<1>1. o \in Orders
  BY DEF CreateOrderReview, At, Typed, RequestsOK, RequestOK
<1>2. task[o] \in TaskRow
  BY <1>1 DEF Typed, TypeOK
<1>3. task' \in [Orders -> TaskRow]
  <2>1. (IF task[o].review = "NONE" THEN "OPEN" ELSE task[o].review) \in TaskStatus
    BY <1>2, TaskRows DEF TaskStatus
  <2>2. task' = [task EXCEPT ![o].review = IF task[o].review = "NONE" THEN "OPEN"
                                           ELSE task[o].review]
    BY DEF CreateOrderReview
  <2>3. QED
    BY <1>2, <2>1, <2>2, TaskRows DEF Typed, TypeOK
<1>4. UNCHANGED <<inv, ord, line, res, xfer>> /\ Finish(s)
  BY DEF CreateOrderReview
<1>5. QED
  BY <1>3, <1>4, EndOfRequest, SameReservations, SameTransfers, SameOrders DEF Typed, TypeOK

-----------------------------------------------------------------------------
(* updateOrderStatus().                                                      *)

\* A request that only reads: it keeps what RequestOK asks of it.
LEMMA ReadTyped ==
    ASSUME Typed, NEW s \in Slots, NEW r, Continue(s, r), RequestOK(r, ord), UNCHANGED tables
    PROVE  Typed'
<1>1. PlacedStays
  BY DEF PlacedStays, Placed, tables
<1>2. RequestsOK' /\ DOMAIN req' = Slots
  BY <1>1, NewRequest DEF Typed, TypeOK
<1>3. QED
  BY <1>2, SameReservations, SameTransfers, SameOrders DEF Typed, TypeOK, tables

LEMMA UpdateStatusReadTyped ==
    ASSUME Typed, NEW s \in Slots, NEW o \in Orders, NEW target \in OrderStatus,
           UpdateStatusRead(s, o, target)
    PROVE  Typed'
<1> DEFINE r == [op |-> "status", phase |-> "lock", ord |-> o, target |-> target,
                 seen |-> ord[o].status, stores |-> LineStores(o)]
<1>1. RequestOK(r, ord)
  BY DEF RequestOK, UpdateStatusRead, Placed
<1>2. Continue(s, r) /\ UNCHANGED tables
  BY DEF UpdateStatusRead
<1> HIDE DEF r
<1>3. QED
  BY <1>1, <1>2, ReadTyped

LEMMA UpdateStatusLockTyped ==
    ASSUME Typed, NEW s \in Slots, UpdateStatusLock(s)
    PROVE  Typed'
<1> DEFINE held == [r \in Active(req[s].ord) |-> res[r].qty]
           new == [op |-> "status", phase |-> "commit", ord |-> req[s].ord,
                   target |-> req[s].target, seen |-> req[s].seen, stores |-> req[s].stores,
                   held |-> held, picked |-> HasPicked(req[s].ord)]
<1>1. Amounts(held, ResIds)
  BY DEF Amounts, Active, Typed, TypeOK, ReservationRow
<1>2. RequestOK(req[s], ord) /\ req[s].op = "status"
  BY DEF UpdateStatusLock, At, Typed, RequestsOK
<1> HIDE DEF held
<1>3. RequestOK(new, ord)
  BY <1>1, <1>2 DEF RequestOK
<1>4. Continue(s, new) /\ UNCHANGED tables
  BY DEF UpdateStatusLock, held
<1> HIDE DEF new
<1>5. QED
  BY <1>3, <1>4, ReadTyped

\* The order of a request for a status exists.
LEMMA StatusRequest ==
    ASSUME Typed, NEW s \in Slots, At(s, "status", "commit")
    PROVE  /\ req[s].ord \in Orders /\ Placed(req[s].ord)
           /\ req[s].target \in OrderStatus
           /\ ord[req[s].ord] \in OrderRow /\ ord[req[s].ord].source \in Stores
           /\ task[req[s].ord] \in TaskRow
           /\ DOMAIN req[s].held \subseteq ResIds
           /\ \A r \in DOMAIN req[s].held : req[s].held[r] \in Int
<1>1. RequestOK(req[s], ord)
  BY DEF Typed, RequestsOK
<1>2. /\ req[s].ord \in Orders /\ Placed(req[s].ord) /\ req[s].target \in OrderStatus
      /\ Amounts(req[s].held, ResIds)
  BY <1>1 DEF At, RequestOK, Placed
<1>3. QED
  BY <1>2 DEF Amounts, Typed, TypeOK, OrdersSourced

LEMMA HeldType ==
    ASSUME Typed, NEW s \in Slots, At(s, "status", "commit")
    PROVE  StillOn(s) \in [Inventories -> Nat]
<1>1. ASSUME NEW i \in Inventories
      PROVE  Total({r \in Held(s) : res[r].inv = i}, req[s].held) \in Nat
  <2>1. IsFiniteSet({r \in Held(s) : res[r].inv = i})
    BY StatusRequest, ReservationsAreFinite DEF Held
  <2>2. \A r \in Held(s) : req[s].held[r] \in Int
    BY StatusRequest DEF Held
  <2>3. QED
    BY <2>1, <2>2, TotalIsNat
<1>2. QED
  BY <1>1 DEF StillOn

LEMMA SettledType ==
    ASSUME Typed, NEW s \in Slots, NEW status \in {"COMPLETED", "RELEASED"},
           res' = Settled(s, status)
    PROVE  res' \in [ResIds -> ReservationRow] /\ ReservationsPlaced'
  BY ReservationRows DEF Settled, Typed, TypeOK, ReservationsPlaced

LEMMA ReleaseHeldType ==
    ASSUME Typed, NEW s \in Slots, At(s, "status", "commit"), ReleaseHeld(s)
    PROVE  /\ inv' \in [Inventories -> InventoryRow]
           /\ res' \in [ResIds -> ReservationRow] /\ ReservationsPlaced'
<1>1. inv' = Booked(Nothing, Minus(StillOn(s))) /\ Sound(inv') /\ res' = Settled(s, "RELEASED")
  BY DEF ReleaseHeld
<1>2. Minus(StillOn(s)) \in [Inventories -> Int]
  BY HeldType, MinusType
<1>3. inv' \in [Inventories -> InventoryRow]
  BY <1>1, <1>2, BookedSound, NothingType
<1>4. QED
  BY <1>1, <1>3, SettledType

LEMMA SessionCancelledType ==
    ASSUME NEW row \in OrderRow
    PROVE  /\ WithSessionCancelled(row) \in OrderRow
           /\ WithSessionCancelled(row).source = row.source
  BY DEF WithSessionCancelled, OrderRow

LEMMA DeliveryTasksType ==
    ASSUME NEW row \in TaskRow, NEW outcome \in {"COMPLETED", "CANCELLED"}
    PROVE  WithoutDeliveryTasks(row, outcome) \in TaskRow
  BY DEF WithoutDeliveryTasks, TaskRow, TaskStatus

\* An order whose session ends and whose status moves.
LEMMA OrderEnds ==
    ASSUME Typed, NEW o \in Orders, Placed(o), NEW x \in OrderStatus,
           ord' = [ord EXCEPT ![o] = [WithSessionCancelled(ord[o]) EXCEPT !.status = x]]
    PROVE  ord' \in [Orders -> OrderRow] /\ OrdersSourced' /\ PlacedStays
<1> DEFINE old == WithSessionCancelled(ord[o])
           row == [old EXCEPT !.status = x]
<1>1. old \in OrderRow /\ old.source \in Stores
  BY SessionCancelledType DEF Typed, TypeOK, OrdersSourced
<1> HIDE DEF old
<1>2. row \in OrderRow /\ row.source \in Stores /\ row.status = x /\ x # "ABSENT"
  BY <1>1, OrderRows DEF OrderStatus
<1>3. ord' = [ord EXCEPT ![o] = row]
  BY DEF old
<1> HIDE DEF row
<1>4. QED
  BY <1>2, <1>3, OneOrderRow

LEMMA ConfirmOrderTyped ==
    ASSUME Typed, NEW s \in Slots, ConfirmOrder(s)
    PROVE  Typed'
<1> DEFINE o == req[s].ord
           status == IF RemoteStores(res, o, ord[o].source) # {} THEN "WAITING_TRANSFER" ELSE "CONFIRMED"
<1>1. /\ At(s, "status", "commit")
      /\ EnsureRemoteTransfers(res, o, ord[o].source)
      /\ ord' = [ord EXCEPT ![o].status = status]
      /\ task' = [task EXCEPT ![o] = WithPickingTasks(task[o], req[s].stores)]
      /\ Finish(s) /\ UNCHANGED <<inv, line, res>>
  BY DEF ConfirmOrder
<1>2. o \in Orders /\ Placed(o) /\ ord[o].source \in Stores /\ task[o] \in TaskRow
  BY <1>1, StatusRequest
<1>3. xfer' \in [XferIds -> TransferRow] /\ TransfersPlaced'
  BY <1>1, <1>2, RemoteTransfersType DEF Typed, TypeOK, ReservationsPlaced
<1>4. ord' \in [Orders -> OrderRow] /\ OrdersSourced' /\ PlacedStays
  <2>1. status \in OrderStatus
    BY DEF OrderStatus
  <2> HIDE DEF o, status
  <2>2. QED
    BY <1>1, <1>2, <2>1, OrderMoves
<1>5. task' \in [Orders -> TaskRow]
  BY <1>1, <1>2, PickingTasksType DEF Typed, TypeOK
<1>6. QED
  BY <1>1, <1>3, <1>4, <1>5, EndOfRequest, SameReservations DEF Typed, TypeOK

LEMMA CancelOrderTyped ==
    ASSUME Typed, NEW s \in Slots, CancelOrder(s)
    PROVE  Typed'
<1> DEFINE o == req[s].ord
<1>1. At(s, "status", "commit") /\ Finish(s) /\ UNCHANGED <<line, xfer>>
  BY DEF CancelOrder
<1>2. o \in Orders /\ Placed(o) /\ task[o] \in TaskRow
  BY <1>1, StatusRequest
<1>3. CASE /\ ord' = [ord EXCEPT ![o] = [WithSessionCancelled(ord[o]) EXCEPT !.status = "RETURN_PENDING"]]
           /\ UNCHANGED <<inv, res, task>>
  <2>1. ord' \in [Orders -> OrderRow] /\ OrdersSourced' /\ PlacedStays
    <3> HIDE DEF o
    <3>1. QED
      BY <1>2, <1>3, OrderEnds DEF OrderStatus
  <2>2. QED
    BY <1>1, <1>3, <2>1, EndOfRequest, SameReservations, SameTransfers DEF Typed, TypeOK
<1>4. CASE /\ ReleaseHeld(s)
           /\ ord' = [ord EXCEPT ![o] = [WithSessionCancelled(ord[o]) EXCEPT !.status = "CANCELLED"]]
           /\ task' = [task EXCEPT ![o] = WithoutDeliveryTasks(task[o], "CANCELLED")]
  <2>1. ord' \in [Orders -> OrderRow] /\ OrdersSourced' /\ PlacedStays
    <3> HIDE DEF o
    <3>1. QED
      BY <1>2, <1>4, OrderEnds DEF OrderStatus
  <2>2. task' \in [Orders -> TaskRow]
    BY <1>2, <1>4, DeliveryTasksType DEF Typed, TypeOK
  <2>3. QED
    BY <1>1, <1>4, <2>1, <2>2, ReleaseHeldType, EndOfRequest, SameTransfers DEF Typed, TypeOK
<1>5. QED
  BY <1>3, <1>4 DEF CancelOrder

LEMMA CompleteReturnTyped ==
    ASSUME Typed, NEW s \in Slots, CompleteReturn(s)
    PROVE  Typed'
<1> DEFINE o == req[s].ord
<1>1. /\ At(s, "status", "commit") /\ ReleaseHeld(s)
      /\ ord' = [ord EXCEPT ![o] = [WithSessionCancelled(ord[o]) EXCEPT !.status = "CANCELLED"]]
      /\ task' = [task EXCEPT ![o] = WithoutDeliveryTasks(task[o], "CANCELLED")]
      /\ Finish(s) /\ UNCHANGED <<line, xfer>>
  BY DEF CompleteReturn
<1>2. o \in Orders /\ Placed(o) /\ task[o] \in TaskRow
  BY <1>1, StatusRequest
<1>3. ord' \in [Orders -> OrderRow] /\ OrdersSourced' /\ PlacedStays
  <2> HIDE DEF o
  <2>1. QED
    BY <1>1, <1>2, OrderEnds DEF OrderStatus
<1>4. task' \in [Orders -> TaskRow]
  BY <1>1, <1>2, DeliveryTasksType DEF Typed, TypeOK
<1>5. QED
  BY <1>1, <1>3, <1>4, ReleaseHeldType, EndOfRequest, SameTransfers DEF Typed, TypeOK

LEMMA DeliverOrderTyped ==
    ASSUME Typed, NEW s \in Slots, DeliverOrder(s)
    PROVE  Typed'
<1> DEFINE o == req[s].ord
<1>1. /\ At(s, "status", "commit")
      /\ inv' = Booked(Minus(StillOn(s)), Minus(StillOn(s))) /\ Sound(inv')
      /\ res' = Settled(s, "COMPLETED")
      /\ ord' = [ord EXCEPT ![o].status = "DELIVERED"]
      /\ task' = [task EXCEPT ![o] = WithoutDeliveryTasks(task[o], "COMPLETED")]
      /\ Finish(s) /\ UNCHANGED <<line, xfer>>
  BY DEF DeliverOrder
<1>2. o \in Orders /\ Placed(o) /\ task[o] \in TaskRow
  BY <1>1, StatusRequest
<1>3. inv' \in [Inventories -> InventoryRow]
  <2>1. Minus(StillOn(s)) \in [Inventories -> Int]
    BY <1>1, HeldType, MinusType
  <2>2. QED
    BY <1>1, <2>1, BookedSound
<1>4. ord' \in [Orders -> OrderRow] /\ OrdersSourced' /\ PlacedStays
  <2> HIDE DEF o
  <2>1. QED
    BY <1>1, <1>2, OrderMoves DEF OrderStatus
<1>5. task' \in [Orders -> TaskRow]
  BY <1>1, <1>2, DeliveryTasksType DEF Typed, TypeOK
<1>6. QED
  BY <1>1, <1>3, <1>4, <1>5, SettledType, EndOfRequest, SameTransfers DEF Typed, TypeOK

LEMMA MoveOrderTyped ==
    ASSUME Typed, NEW s \in Slots, MoveOrder(s)
    PROVE  Typed'
<1> DEFINE o == req[s].ord
<1>1. /\ At(s, "status", "commit") /\ ord' = [ord EXCEPT ![o].status = req[s].target]
      /\ Finish(s) /\ UNCHANGED <<inv, line, res, xfer, task>>
  BY DEF MoveOrder
<1>2. o \in Orders /\ Placed(o) /\ req[s].target \in OrderStatus
  BY <1>1, StatusRequest
<1>3. ord' \in [Orders -> OrderRow] /\ OrdersSourced' /\ PlacedStays
  <2> HIDE DEF o
  <2>1. QED
    BY <1>1, <1>2, OrderMoves
<1>4. QED
  BY <1>1, <1>3, EndOfRequest, SameReservations, SameTransfers DEF Typed, TypeOK

-----------------------------------------------------------------------------
(* The lines of an order.                                                    *)

LEMMA LineType ==
    ASSUME Typed, NEW l \in Lines
    PROVE  /\ line[l] \in LineRow /\ line[l].qty \in Nat /\ line[l].reserved \in Int
           /\ line[l].picked \in Nat /\ line[l].shortage \in Nat /\ line[l].returned \in Nat
           /\ LineOrder[l] \in Orders /\ LineVariant[l] \in Variants
           /\ \A z \in Stores : <<z, LineVariant[l]>> \in Inventories
<1>1. line[l] \in LineRow
  BY DEF Typed, TypeOK
<1>2. LineOrder[l] \in Orders /\ LineVariant[l] \in Variants
  BY ErpAssumption
<1>3. QED
  BY <1>1, <1>2, LineRows DEF Inventories

LEMMA InventoryType ==
    ASSUME Typed, NEW i \in Inventories
    PROVE  inv[i] \in InventoryRow /\ inv[i].stock \in Nat /\ inv[i].reserved \in Nat
           /\ Available(i) \in Int
  BY DEF Typed, TypeOK, InventoryRow, Available

\* What a request remembers, by its operation.
LEMMA RequestType ==
    ASSUME Typed, NEW s \in Slots
    PROVE  RequestOK(req[s], ord)
  BY DEF Typed, RequestsOK

\* An update of an order that leaves its status and its store of origin.
LEMMA OrderKeeps ==
    ASSUME Typed, NEW o \in Orders, NEW row \in OrderRow, ord' = [ord EXCEPT ![o] = row],
           row.status = ord[o].status, row.source = ord[o].source
    PROVE  ord' \in [Orders -> OrderRow] /\ OrdersSourced' /\ PlacedStays
<1>1. ord' \in [Orders -> OrderRow]
  BY DEF Typed, TypeOK
<1>2. ASSUME NEW p \in Orders
      PROVE  ord'[p].status = ord[p].status /\ ord'[p].source = ord[p].source
  BY DEF Typed, TypeOK
<1>3. QED
  BY <1>1, <1>2 DEF Typed, OrdersSourced, PlacedStays, Placed

LEMMA ReserveReadTyped ==
    ASSUME Typed, NEW s \in Slots, NEW l \in Lines, NEW store \in Stores, ReserveRead(s, l, store)
    PROVE  Typed'
<1> DEFINE pending == line[l].qty - line[l].reserved
           r(q, p) == [op |-> "reserve", phase |-> "write", line |-> l, store |-> store, qty |-> q,
                       partial |-> p, fulfil |-> ord[LineOrder[l]].fulfil]
<1>1. PICK q \in 1..pending, p \in BOOLEAN : Continue(s, r(q, p))
  BY DEF ReserveRead
<1>2. q \in Nat
  BY LineType
<1>3. RequestOK(r(q, p), ord)
  BY <1>2 DEF RequestOK
<1>4. UNCHANGED tables
  BY DEF ReserveRead
<1> HIDE DEF r
<1>5. QED
  BY <1>1, <1>3, <1>4, ReadTyped

LEMMA ReserveWriteTyped ==
    ASSUME Typed, NEW s \in Slots, ReserveWrite(s)
    PROVE  Typed'
<1> DEFINE l == req[s].line
           o == LineOrder[l]
           i == <<req[s].store, LineVariant[l]>>
           take == IF req[s].partial THEN Least(req[s].qty, Available(i)) ELSE req[s].qty
           store == IF line[l].store = Null THEN req[s].store ELSE line[l].store
<1>1. l \in Lines /\ req[s].store \in Stores /\ req[s].qty \in Nat
  BY RequestType DEF ReserveWrite, At, RequestOK
<1>2. o \in Orders /\ i \in Inventories /\ line[l] \in LineRow
  BY <1>1, LineType
<1>3. take \in Nat
  <2>1. Available(i) \in Int
    BY <1>2, InventoryType
  <2>2. take > 0
    BY DEF ReserveWrite
  <2> HIDE DEF i
  <2>3. QED
    BY <1>1, <2>1, <2>2 DEF Least
<1>4. /\ inv' = [inv EXCEPT ![i].reserved = inv[i].reserved + take]
      /\ line' = [line EXCEPT ![l].reserved = line[l].reserved + take, ![l].store = store]
      /\ \E new \in NewReservations({l}) :
           res' = Inserted([r \in DOMAIN new |-> Reservation(o, l, i, take)])
      /\ ord' = IF req[s].fulfil \in {Null, ord[o].source}
                THEN [ord EXCEPT ![o].fulfil = req[s].store] ELSE ord
      /\ Finish(s) /\ UNCHANGED <<xfer, task>>
  BY DEF ReserveWrite
<1> HIDE DEF o, i, take
<1>5. inv' \in [Inventories -> InventoryRow]
  <2>1. inv[i] \in InventoryRow /\ inv[i].reserved + take \in Nat
    BY <1>2, <1>3, InventoryType
  <2>2. QED
    BY <1>4, <2>1, InventoryRows DEF Typed, TypeOK
<1>6. line' \in [Lines -> LineRow]
  <2>1. line[l].reserved + take \in Int
    BY <1>1, <1>3, LineType
  <2>2. store \in Stores \union {Null}
    BY <1>1, <1>2, LineRows
  <2> HIDE DEF store
  <2>3. [line[l] EXCEPT !.reserved = line[l].reserved + take, !.store = store] \in LineRow
    BY <1>2, <2>1, <2>2 DEF LineRow
  <2>4. QED
    BY <1>4, <2>3 DEF Typed, TypeOK
<1>7. res' \in [ResIds -> ReservationRow] /\ ReservationsPlaced'
  <2>1. PICK new \in NewReservations({l}) :
            res' = Inserted([r \in DOMAIN new |-> Reservation(o, l, i, take)])
    BY <1>4
  <2> DEFINE rows == [r \in DOMAIN new |-> Reservation(o, l, i, take)]
  <2>2. Reservation(o, l, i, take) \in ReservationRow /\ Reservation(o, l, i, take).inv \in Inventories
    BY <1>1, <1>2, <1>3, NewReservationRow
  <2>3. \A r \in DOMAIN rows : rows[r] \in ReservationRow /\ rows[r].inv \in Inventories
    BY <2>2
  <2>4. res' = Inserted(rows)
    BY <2>1
  <2> HIDE DEF rows
  <2>5. QED
    BY <2>3, <2>4, InsertedType
<1>8. ord' \in [Orders -> OrderRow] /\ OrdersSourced' /\ PlacedStays
  <2>1. CASE ord' = ord
    BY <2>1, SameOrders DEF Typed, TypeOK
  <2>2. CASE ord' = [ord EXCEPT ![o].fulfil = req[s].store]
    <3> DEFINE row == [ord[o] EXCEPT !.fulfil = req[s].store]
    <3>1. ord[o] \in OrderRow
      BY <1>2 DEF Typed, TypeOK
    <3>2. row \in OrderRow /\ row.status = ord[o].status /\ row.source = ord[o].source
      BY <1>1, <3>1, OrderRows
    <3>3. ord' = [ord EXCEPT ![o] = row]
      BY <2>2
    <3> HIDE DEF row
    <3>4. QED
      BY <1>2, <3>2, <3>3, OrderKeeps
  <2>3. QED
    BY <1>4, <2>1, <2>2
<1>9. QED
  BY <1>4, <1>5, <1>6, <1>7, <1>8, EndOfRequest, SameTransfers DEF Typed, TypeOK

LEMMA ReleaseReadTyped ==
    ASSUME Typed, NEW s \in Slots, NEW l \in Lines, NEW store \in Stores \union {Null},
           ReleaseRead(s, l, store)
    PROVE  Typed'
<1> DEFINE R == Releasable(l, store)
           before(r) == Total({p \in R : Sooner(l, p, r)}, Quantities)
           take(n) == [r \in R |-> Least(res[r].qty, Greatest(0, n - before(r)))]
           new(n) == [op |-> "release", phase |-> "write", line |-> l,
                      take |-> [r \in {p \in R : take(n)[p] > 0} |-> take(n)[r]],
                      left |-> [r \in {p \in R : take(n)[p] > 0} |-> res[r].qty - take(n)[r]]]
<1>1. PICK n \in 1..line[l].reserved : Continue(s, new(n))
  BY DEF ReleaseRead
<1>2. n \in Nat
  BY LineType
<1>3. R \subseteq ResIds /\ \A r \in R : res[r].qty \in Nat /\ Quantities[r] \in Int
  BY DEF Releasable, Active, Quantities, Typed, TypeOK, ReservationRow
<1>4. ASSUME NEW r \in R
      PROVE  before(r) \in Nat
  <2>1. IsFiniteSet({p \in R : Sooner(l, p, r)})
    BY <1>3, ReservationsAreFinite
  <2> HIDE DEF R
  <2>2. QED
    BY <1>3, <2>1, TotalIsNat
<1> HIDE DEF R, before
<1>5. \A r \in R : take(n)[r] \in Nat /\ take(n)[r] <= res[r].qty
  BY <1>2, <1>3, <1>4 DEF Least, Greatest
<1> HIDE DEF take
<1>6. RequestOK(new(n), ord)
  <2> DEFINE taken == [r \in {p \in R : take(n)[p] > 0} |-> take(n)[r]]
             left == [r \in {p \in R : take(n)[p] > 0} |-> res[r].qty - take(n)[r]]
  <2>1. Amounts(taken, ResIds) /\ \A k \in DOMAIN taken : left[k] \in Nat
    BY <1>3, <1>5 DEF Amounts
  <2> HIDE DEF taken, left
  <2>2. new(n) = [op |-> "release", phase |-> "write", line |-> l, take |-> taken, left |-> left]
    BY DEF taken, left
  <2> HIDE DEF new
  <2>3. QED
    BY <2>1, <2>2 DEF RequestOK
<1>7. UNCHANGED tables
  BY DEF ReleaseRead
<1> HIDE DEF new
<1>8. QED
  BY <1>1, <1>6, <1>7, ReadTyped

LEMMA ReleaseWriteTyped ==
    ASSUME Typed, NEW s \in Slots, ReleaseWrite(s)
    PROVE  Typed'
<1> DEFINE l == req[s].line
           take == req[s].take
           released(i) == Total({r \in DOMAIN take : res[r].inv = i}, take)
           left == LeftOfLine(l, take)
<1>1. /\ l \in Lines /\ DOMAIN take \subseteq ResIds
      /\ \A r \in DOMAIN take : take[r] \in Int /\ req[s].left[r] \in Nat
  BY RequestType DEF ReleaseWrite, At, RequestOK, Amounts
<1>2. /\ inv' = [i \in Inventories |->
                   [inv[i] EXCEPT !.reserved = Greatest(0, inv[i].reserved - released(i))]]
      /\ res' = [r \in ResIds |->
                   IF r \notin DOMAIN take THEN res[r]
                   ELSE IF req[s].left[r] = 0 THEN [res[r] EXCEPT !.status = "RELEASED"]
                   ELSE [res[r] EXCEPT !.qty = req[s].left[r]]]
      /\ line' = [line EXCEPT ![l].reserved = left, ![l].picked = PickedClamped(l, left)]
      /\ Finish(s) /\ UNCHANGED <<ord, xfer, task>>
  BY DEF ReleaseWrite
<1> HIDE DEF take
<1>3. inv' \in [Inventories -> InventoryRow]
  <2>1. ASSUME NEW i \in Inventories
        PROVE  [inv[i] EXCEPT !.reserved = Greatest(0, inv[i].reserved - released(i))] \in InventoryRow
    <3>1. IsFiniteSet({r \in DOMAIN take : res[r].inv = i})
      BY <1>1, ReservationsAreFinite
    <3>2. released(i) \in Nat
      BY <1>1, <3>1, TotalIsNat
    <3> HIDE DEF released
    <3>3. Greatest(0, inv[i].reserved - released(i)) \in Nat
      BY <3>2, InventoryType DEF Greatest
    <3>4. QED
      BY <3>3, InventoryType, InventoryRows
  <2> HIDE DEF released
  <2>2. QED
    BY <1>2, <2>1
<1>4. res' \in [ResIds -> ReservationRow] /\ ReservationsPlaced'
  <2>1. ASSUME NEW r \in ResIds
        PROVE  /\ res'[r] \in ReservationRow
               /\ res'[r].status = "ACTIVE" => res'[r].inv \in Inventories
    <3>1. res[r] \in ReservationRow /\ (res[r].status = "ACTIVE" => res[r].inv \in Inventories)
      BY DEF Typed, TypeOK, ReservationsPlaced
    <3>2. CASE r \notin DOMAIN take
      BY <1>2, <3>1, <3>2
    <3>3. CASE r \in DOMAIN take /\ req[s].left[r] = 0
      <4> DEFINE row == [res[r] EXCEPT !.status = "RELEASED"]
      <4>1. res'[r] = row
        BY <1>2, <3>3
      <4>2. row \in ReservationRow /\ row.status = "RELEASED"
        BY <3>1, ReservationRows
      <4> HIDE DEF row
      <4>3. QED
        BY <4>1, <4>2
    <3>4. CASE r \in DOMAIN take /\ req[s].left[r] # 0
      <4> DEFINE rest == req[s].left[r]
                 row == [res[r] EXCEPT !.qty = rest]
      <4>1. res'[r] = row /\ rest \in Nat
        BY <1>1, <1>2, <3>4
      <4> HIDE DEF rest
      <4>2. row \in ReservationRow /\ row.status = res[r].status /\ row.inv = res[r].inv
        BY <3>1, <4>1, ReservationRows
      <4> HIDE DEF row
      <4>3. QED
        BY <3>1, <4>1, <4>2
    <3>5. QED
      BY <3>2, <3>3, <3>4
  <2>2. res' = [r \in ResIds |-> res'[r]]
    BY <1>2
  <2>3. QED
    BY <2>1, <2>2 DEF ReservationsPlaced
<1>5. line' \in [Lines -> LineRow]
  <2>1. Total(DOMAIN take, take) \in Nat
    BY <1>1, ReservationsAreFinite, TotalIsNat
  <2>2. left \in Nat
    BY <1>1, <2>1, LineType DEF LeftOfLine, Greatest
  <2>3. PickedClamped(l, left) \in Nat
    BY <1>1, <2>2, LineType DEF PickedClamped, Least
  <2> DEFINE picked == PickedClamped(l, left)
             row == [line[l] EXCEPT !.reserved = left, !.picked = picked]
  <2>4. line[l] \in LineRow /\ left \in Int /\ picked \in Nat
    BY <1>1, <2>2, <2>3, LineType
  <2>5. line' = [line EXCEPT ![l] = row]
    BY <1>2
  <2> HIDE DEF left, picked
  <2>6. row \in LineRow
    BY <2>4 DEF LineRow
  <2> HIDE DEF row
  <2>7. QED
    BY <2>5, <2>6 DEF Typed, TypeOK
<1>6. QED
  BY <1>2, <1>3, <1>4, <1>5, EndOfRequest, SameTransfers, SameOrders DEF Typed, TypeOK

\* One line that changes, and nothing else of the tables.
LEMMA OneLineRow ==
    ASSUME Typed, NEW l \in Lines, NEW row \in LineRow, line' = [line EXCEPT ![l] = row]
    PROVE  line' \in [Lines -> LineRow]
  BY DEF Typed, TypeOK

LEMMA ShortageReadTyped ==
    ASSUME Typed, NEW s \in Slots, NEW l \in Lines, ShortageRead(s, l)
    PROVE  Typed'
<1> DEFINE o == LineOrder[l]
           others == \E m \in LinesOf(o) \ {l} : line[m].shortage > 0
           r(q) == [op |-> "shortage", phase |-> "write", line |-> l, qty |-> q,
                    seen |-> ord[o].status, others |-> others]
<1>1. PICK q \in 0..MaxQty : Continue(s, r(q))
  BY DEF ShortageRead
<1>2. q \in Nat
  BY ErpAssumption
<1>3. ord[o].status \in OrderStatus \union {"ABSENT"}
  BY LineType DEF Typed, TypeOK, OrderRow
<1> HIDE DEF others
<1>4. RequestOK(r(q), ord)
  BY <1>2, <1>3 DEF RequestOK
<1>5. UNCHANGED tables
  BY DEF ShortageRead
<1> HIDE DEF r
<1>6. QED
  BY <1>1, <1>4, <1>5, ReadTyped

LEMMA ShortageWriteTyped ==
    ASSUME Typed, NEW s \in Slots, ShortageWrite(s)
    PROVE  Typed'
<1> DEFINE l == req[s].line
           o == LineOrder[l]
           seen == req[s].seen
           short == Least(req[s].qty, Greatest(0, line[l].qty - line[l].reserved))
           any == short > 0 \/ req[s].others
           next == IF any /\ seen \in {"PENDING", "CONFIRMED"} THEN "WAITING_STOCK"
                   ELSE IF ~any /\ seen = "WAITING_STOCK" THEN "PENDING"
                   ELSE seen
<1>1. /\ l \in Lines /\ req[s].qty \in Nat /\ seen \in OrderStatus \union {"ABSENT"}
      /\ seen # "ABSENT" => Placed(o)
  BY RequestType DEF ShortageWrite, At, RequestOK, Placed
<1>2. o \in Orders /\ line[l] \in LineRow
  BY <1>1, LineType
<1>3. short \in Nat
  BY <1>1, LineType DEF Least, Greatest
<1>4. /\ line' = [line EXCEPT ![l].shortage = short]
      /\ \/ next = seen /\ UNCHANGED ord
         \/ next # seen /\ ord' = [ord EXCEPT ![o].status = next]
      /\ Finish(s) /\ UNCHANGED <<inv, res, xfer, task>>
  BY DEF ShortageWrite
<1>5. next # seen => Placed(o) /\ next \in OrderStatus
  BY <1>1 DEF OrderStatus
<1>6. line' \in [Lines -> LineRow]
  <2> DEFINE row == [line[l] EXCEPT !.shortage = short]
  <2> HIDE DEF short
  <2>1. row \in LineRow
    BY <1>2, <1>3, LineRows
  <2>2. line' = [line EXCEPT ![l] = row]
    BY <1>4
  <2> HIDE DEF row, l
  <2>3. QED
    BY <1>1, <2>1, <2>2, OneLineRow
<1>7. ord' \in [Orders -> OrderRow] /\ OrdersSourced' /\ PlacedStays
  <2>1. CASE ord' = ord
    BY <2>1, SameOrders DEF Typed, TypeOK
  <2>2. CASE next # seen /\ ord' = [ord EXCEPT ![o].status = next]
    <3> HIDE DEF next, o
    <3>1. QED
      BY <1>2, <1>5, <2>2, OrderMoves
  <2>3. QED
    BY <1>4, <2>1, <2>2
<1>8. QED
  BY <1>4, <1>6, <1>7, EndOfRequest, SameTransfers, SameReservations DEF Typed, TypeOK

LEMMA RegisterOrderReturnTyped ==
    ASSUME Typed, NEW s \in Slots, NEW o \in Orders, RegisterOrderReturn(s, o)
    PROVE  Typed'
<1> DEFINE store == IF ord[o].fulfil = Null THEN ord[o].source ELSE ord[o].fulfil
           at(L) == [l \in L |-> <<store, LineVariant[l]>>]
           Returned(L, restock, q) ==
             /\ inv' = IF restock THEN Booked(PerLine(L, at(L), q), Nothing) ELSE inv
             /\ line' = [l \in Lines |-> IF l \in L
                                         THEN [line[l] EXCEPT !.returned = line[l].returned + q[l]]
                                         ELSE line[l]]
<1>1. PICK L \in SUBSET LinesOf(o) : \E restock \in BOOLEAN : \E q \in [L -> 1..MaxQty] :
        Returned(L, restock, q)
  BY DEF RegisterOrderReturn
<1>2. PICK restock \in BOOLEAN, q \in [L -> 1..MaxQty] : Returned(L, restock, q)
  BY <1>1
<1>3. L \subseteq Lines /\ \A l \in L : q[l] \in Nat
  BY ErpAssumption DEF LinesOf
<1>4. inv' \in [Inventories -> InventoryRow]
  <2> DEFINE back == PerLine(L, at(L), q)
  <2>1. inv' = IF restock THEN Booked(back, Nothing) ELSE inv
    BY <1>2
  <2> HIDE DEF at
  <2>2. back \in [Inventories -> Nat]
    BY <1>3, PerLineType
  <2> HIDE DEF back
  <2>3. back \in [Inventories -> Int]
    BY <2>2
  <2>4. \A i \in Inventories : inv[i].stock + back[i] >= 0 /\ inv[i].reserved + Nothing[i] >= 0
    BY <2>2, NothingType, InventoryType
  <2>5. Booked(back, Nothing) \in [Inventories -> InventoryRow]
    BY <2>3, <2>4, NothingType, BookedType
  <2>6. QED
    BY <2>1, <2>5 DEF Typed, TypeOK
<1>5. line' = [l \in Lines |-> IF l \in L
                               THEN [line[l] EXCEPT !.returned = line[l].returned + q[l]]
                               ELSE line[l]]
  BY <1>2
<1> HIDE DEF Returned
<1>6. line' \in [Lines -> LineRow]
  <2>1. ASSUME NEW l \in Lines
        PROVE  line'[l] \in LineRow
    <3>1. line[l] \in LineRow /\ line[l].returned \in Nat
      BY LineType
    <3>2. CASE l \in L
      <4> DEFINE n == line[l].returned + q[l]
      <4>1. n \in Nat
        BY <1>3, <3>1, <3>2
      <4>2. line'[l] = [line[l] EXCEPT !.returned = n]
        BY <1>5, <3>2
      <4> HIDE DEF n
      <4>3. QED
        BY <3>1, <4>1, <4>2, LineRows
    <3>3. CASE l \notin L
      BY <1>5, <3>1, <3>3
    <3>4. QED
      BY <3>2, <3>3
  <2>2. QED
    BY <1>5, <2>1
<1>7. UNCHANGED <<ord, res, xfer, task, req>>
  BY DEF RegisterOrderReturn
<1>8. QED
  BY <1>4, <1>6, <1>7, SameOrders, SameReservations, SameTransfers, SameRequests DEF Typed, TypeOK

-----------------------------------------------------------------------------
(* The picking.                                                              *)

LEMMA MaxPickableType ==
    ASSUME Typed, NEW l \in Lines
    PROVE  MaxPickable(l) \in Nat
<1> DEFINE o == LineOrder[l]
           v == LineVariant[l]
           R == {r \in ResIds : /\ res[r].status \in {"ACTIVE", "COMPLETED"}
                                /\ res[r].ord = o /\ res[r].inv[2] = v}
<1>1. IsFiniteSet(R)
  BY ReservationsAreFinite
<1>2. \A r \in R : Quantities[r] \in Int
  BY DEF Quantities, Typed, TypeOK, ReservationRow
<1>3. ReservedForVariant(o, v) = Total(R, Quantities)
  BY DEF ReservedForVariant
<1> HIDE DEF R, o, v
<1>4. ReservedForVariant(o, v) \in Nat
  BY <1>1, <1>2, <1>3, TotalIsNat
<1>5. MaxPickable(l) = Least(line[l].qty, IF line[l].reserved > 0 THEN line[l].reserved
                                          ELSE ReservedForVariant(o, v))
  BY DEF MaxPickable, o, v
<1>6. QED
  BY <1>4, <1>5, LineType DEF Least

LEMMA LimitsType ==
    ASSUME Typed, NEW o
    PROVE  Amounts(Limits(o), Lines)
  BY MaxPickableType DEF Limits, Amounts, LinesOf

\* An update of the picked units of some lines.
LEMMA PickedRows ==
    ASSUME Typed, NEW L, NEW n, \A l \in Lines : l \in L => n[l] \in Nat,
           line' = [l \in Lines |-> IF l \in L THEN [line[l] EXCEPT !.picked = n[l]] ELSE line[l]]
    PROVE  line' \in [Lines -> LineRow]
<1>1. ASSUME NEW l \in Lines
      PROVE  line'[l] \in LineRow
  <2>1. line[l] \in LineRow
    BY LineType
  <2>2. CASE l \in L
    <3>1. line'[l] = [line[l] EXCEPT !.picked = n[l]] /\ n[l] \in Nat
      BY <2>2
    <3>2. QED
      BY <2>1, <3>1, LineRows
  <2>3. CASE l \notin L
    BY <2>1, <2>3
  <2>4. QED
    BY <2>2, <2>3
<1>2. QED
  BY <1>1

\* The session of an order changes.
LEMMA SessionMoves ==
    ASSUME Typed, NEW o \in Orders, NEW x \in {"IN_PROGRESS", "COMPLETED", "CANCELLED"},
           ord' = [ord EXCEPT ![o].session = x]
    PROVE  ord' \in [Orders -> OrderRow] /\ OrdersSourced' /\ PlacedStays
<1> DEFINE row == [ord[o] EXCEPT !.session = x]
<1>1. ord[o] \in OrderRow
  BY DEF Typed, TypeOK
<1>2. row \in OrderRow /\ row.status = ord[o].status /\ row.source = ord[o].source
  BY <1>1, OrderRows
<1>3. ord' = [ord EXCEPT ![o] = row]
  OBVIOUS
<1> HIDE DEF row
<1>4. QED
  BY <1>2, <1>3, OrderKeeps

LEMMA StartPickingReadTyped ==
    ASSUME Typed, NEW s \in Slots, NEW o \in Orders, StartPickingRead(s, o)
    PROVE  Typed'
<1> DEFINE r == [op |-> "start", phase |-> "session", ord |-> o]
<1>1. Continue(s, r) /\ UNCHANGED tables
  BY DEF StartPickingRead
<1>2. ord[o].status # "ABSENT"
  BY DEF StartPickingRead, Startable
<1>3. RequestOK(r, ord)
  BY <1>2 DEF RequestOK
<1> HIDE DEF r
<1>4. QED
  BY <1>1, <1>3, ReadTyped

LEMMA StartPickingSessionTyped ==
    ASSUME Typed, NEW s \in Slots, StartPickingSession(s)
    PROVE  Typed'
<1> DEFINE o == req[s].ord
           L == LinesOf(o)
           n == [l \in Lines |-> Least(line[l].picked, MaxPickable(l))]
           r == [op |-> "start", phase |-> "status", ord |-> o]
<1>1. o \in Orders /\ ord[o].status # "ABSENT"
  BY RequestType DEF StartPickingSession, At, RequestOK
<1>2. /\ ord' = [ord EXCEPT ![o].session = "IN_PROGRESS"]
      /\ line' = [l \in Lines |-> IF l \in L THEN [line[l] EXCEPT !.picked = n[l]] ELSE line[l]]
      /\ Continue(s, r) /\ UNCHANGED <<inv, res, xfer, task>>
  BY DEF StartPickingSession
<1>3. RequestOK(r, ord)
  BY <1>1 DEF RequestOK
<1>4. line' \in [Lines -> LineRow]
  <2>1. \A l \in Lines : n[l] \in Nat
    BY MaxPickableType, LineType DEF Least
  <2> HIDE DEF n, L
  <2>2. QED
    BY <1>2, <2>1, PickedRows
<1>5. ord' \in [Orders -> OrderRow] /\ OrdersSourced' /\ PlacedStays
  <2> HIDE DEF o
  <2>1. QED
    BY <1>1, <1>2, SessionMoves
<1> HIDE DEF r
<1>6. QED
  BY <1>2, <1>3, <1>4, <1>5, NewRequest, SameReservations, SameTransfers DEF Typed, TypeOK

LEMMA StartPickingStatusTyped ==
    ASSUME Typed, NEW s \in Slots, StartPickingStatus(s)
    PROVE  Typed'
<1> DEFINE o == req[s].ord
<1>1. o \in Orders /\ Placed(o)
  BY RequestType DEF StartPickingStatus, At, RequestOK, Placed
<1>2. /\ ord' = [ord EXCEPT ![o].status = "PREPARING"]
      /\ Finish(s) /\ UNCHANGED <<inv, line, res, xfer, task>>
  BY DEF StartPickingStatus
<1>3. ord' \in [Orders -> OrderRow] /\ OrdersSourced' /\ PlacedStays
  <2>1. "PREPARING" \in OrderStatus
    BY DEF OrderStatus
  <2> HIDE DEF o
  <2>2. QED
    BY <1>1, <1>2, <2>1, OrderMoves
<1>4. QED
  BY <1>2, <1>3, EndOfRequest, SameReservations, SameTransfers DEF Typed, TypeOK

LEMMA PickLineReadTyped ==
    ASSUME Typed, NEW s \in Slots, NEW l \in Lines, PickLineRead(s, l)
    PROVE  Typed'
<1> DEFINE o == LineOrder[l]
           limit == Limits(o)
           now == Least(line[l].picked, MaxPickable(l))
           delta(target) == [k \in LinesOf(o) |-> IF k = l THEN target - now ELSE 0]
           r(target) == [op |-> "pick", phase |-> "write", ord |-> o, limit |-> limit,
                         delta |-> delta(target)]
<1>1. PICK target \in 0..MaxPickable(l) : Continue(s, r(target))
  BY DEF PickLineRead
<1>2. o \in Orders /\ ord[o].status # "ABSENT" /\ UNCHANGED tables
  BY LineType DEF PickLineRead, Startable
<1>3. target - now \in Int
  BY LineType, MaxPickableType DEF Least
<1>4. Amounts(limit, Lines) /\ \A k \in DOMAIN limit : delta(target)[k] \in Int
  <2>1. DOMAIN limit = LinesOf(o)
    BY DEF Limits
  <2>2. Amounts(limit, Lines)
    BY LimitsType
  <2> HIDE DEF now, limit, o
  <2>3. QED
    BY <1>3, <2>1, <2>2
<1> HIDE DEF delta, limit, o
<1>5. RequestOK(r(target), ord)
  BY <1>2, <1>4 DEF RequestOK
<1> HIDE DEF r
<1>6. QED
  BY <1>1, <1>2, <1>5, ReadTyped

LEMMA PickAllReadTyped ==
    ASSUME Typed, NEW s \in Slots, NEW o \in Orders, PickAllRead(s, o)
    PROVE  Typed'
<1> DEFINE limit == Limits(o)
           delta == [k \in LinesOf(o) |->
                       IF line[k].picked < MaxPickable(k) THEN MaxPickable(k) ELSE 0]
           r == [op |-> "pick", phase |-> "write", ord |-> o, limit |-> limit, delta |-> delta]
<1>1. Continue(s, r) /\ UNCHANGED tables
  BY DEF PickAllRead
<1>2. ord[o].status # "ABSENT"
  BY DEF PickAllRead, Pickable, Startable
<1>3. Amounts(limit, Lines) /\ \A k \in DOMAIN limit : delta[k] \in Int
  <2>1. DOMAIN limit = LinesOf(o) /\ LinesOf(o) \subseteq Lines
    BY DEF Limits, LinesOf
  <2>2. Amounts(limit, Lines)
    BY LimitsType
  <2>3. \A k \in Lines : MaxPickable(k) \in Nat
    BY MaxPickableType
  <2> HIDE DEF limit
  <2>4. QED
    BY <2>1, <2>2, <2>3
<1> HIDE DEF delta, limit
<1>4. RequestOK(r, ord)
  BY <1>2, <1>3 DEF RequestOK
<1> HIDE DEF r
<1>5. QED
  BY <1>1, <1>4, ReadTyped

LEMMA PickWriteTyped ==
    ASSUME Typed, NEW s \in Slots, PickWrite(s)
    PROVE  Typed'
<1> DEFINE o == req[s].ord
           L == DOMAIN req[s].limit
           n == [l \in Lines |-> PickedAfter(s, l)]
           r == [op |-> "sync", phase |-> "read", ord |-> o]
<1>1. /\ o \in Orders /\ ord[o].status # "ABSENT"
      /\ \A l \in L : req[s].limit[l] \in Int /\ req[s].delta[l] \in Int
  BY RequestType DEF PickWrite, At, RequestOK, Amounts
<1>2. /\ line' = [l \in Lines |-> IF l \in L THEN [line[l] EXCEPT !.picked = n[l]] ELSE line[l]]
      /\ Continue(s, r) /\ UNCHANGED <<inv, ord, res, xfer, task>>
  BY DEF PickWrite
<1>3. RequestOK(r, ord)
  BY <1>1 DEF RequestOK
<1>4. line' \in [Lines -> LineRow]
  <2>1. \A l \in Lines : l \in L => n[l] \in Nat
    BY <1>1, LineType DEF PickedAfter, Least, Greatest
  <2> HIDE DEF n, L
  <2>2. QED
    BY <1>2, <2>1, PickedRows
<1> HIDE DEF r
<1>5. QED
  BY <1>2, <1>3, <1>4, NewRequest, SameReservations, SameTransfers, SameOrders DEF Typed, TypeOK

LEMMA SyncReadTyped ==
    ASSUME Typed, NEW s \in Slots, SyncRead(s)
    PROVE  Typed'
<1> DEFINE o == req[s].ord
           r == [op |-> "sync", phase |-> "write", ord |-> o, seen |-> ord[o].status]
<1>1. o \in Orders /\ ord[o].status # "ABSENT"
  BY RequestType DEF SyncRead, At, RequestOK
<1>2. /\ ord' = [ord EXCEPT ![o].session = "IN_PROGRESS"]
      /\ Continue(s, r) /\ UNCHANGED <<inv, line, res, xfer, task>>
  BY DEF SyncRead
<1>3. RequestOK(r, ord)
  BY <1>1 DEF RequestOK
<1>4. ord' \in [Orders -> OrderRow] /\ OrdersSourced' /\ PlacedStays
  <2> HIDE DEF o
  <2>1. QED
    BY <1>1, <1>2, SessionMoves
<1> HIDE DEF r
<1>5. QED
  BY <1>2, <1>3, <1>4, NewRequest, SameReservations, SameTransfers DEF Typed, TypeOK

LEMMA SyncWriteTyped ==
    ASSUME Typed, NEW s \in Slots, SyncWrite(s)
    PROVE  Typed'
<1> DEFINE o == req[s].ord
<1>1. o \in Orders /\ Placed(o)
  BY RequestType DEF SyncWrite, At, RequestOK, Placed
<1>2. /\ ord' = ord \/ ord' = [ord EXCEPT ![o].status = "PREPARING"]
      /\ Finish(s) /\ UNCHANGED <<inv, line, res, xfer, task>>
  BY DEF SyncWrite
<1>3. ord' \in [Orders -> OrderRow] /\ OrdersSourced' /\ PlacedStays
  <2>1. "PREPARING" \in OrderStatus
    BY DEF OrderStatus
  <2>2. CASE ord' = ord
    BY <2>2, SameOrders DEF Typed, TypeOK
  <2> HIDE DEF o
  <2>3. CASE ord' = [ord EXCEPT ![o].status = "PREPARING"]
    BY <1>1, <2>1, <2>3, OrderMoves
  <2>4. QED
    BY <1>2, <2>2, <2>3
<1>4. QED
  BY <1>2, <1>3, EndOfRequest, SameReservations, SameTransfers DEF Typed, TypeOK

LEMMA CompletePickingReadTyped ==
    ASSUME Typed, NEW s \in Slots, NEW o \in Orders, CompletePickingRead(s, o)
    PROVE  Typed'
<1> DEFINE r == [op |-> "complete", phase |-> "write", ord |-> o]
<1>1. Continue(s, r) /\ UNCHANGED tables
  BY DEF CompletePickingRead
<1>2. RequestOK(r, ord)
  BY DEF RequestOK
<1> HIDE DEF r
<1>3. QED
  BY <1>1, <1>2, ReadTyped

LEMMA CompletePickingWriteTyped ==
    ASSUME Typed, NEW s \in Slots, CompletePickingWrite(s)
    PROVE  Typed'
<1> DEFINE o == req[s].ord
           done(status) == IF status = "OPEN" THEN "COMPLETED" ELSE status
           picking == [z \in Stores |-> done(task[o].picking[z])]
           packing == IF task[o].packing = "NONE" THEN "OPEN" ELSE task[o].packing
           row == [ord[o] EXCEPT !.status = "READY", !.session = "COMPLETED"]
           tasks == [task[o] EXCEPT !.picking = picking, !.packing = packing]
<1>1. o \in Orders
  BY RequestType DEF CompletePickingWrite, At, RequestOK
<1>2. /\ ord[o].status # "ABSENT" /\ ord' = [ord EXCEPT ![o] = row]
      /\ task' = [task EXCEPT ![o] = tasks]
      /\ Finish(s) /\ UNCHANGED <<inv, line, res, xfer>>
  BY DEF CompletePickingWrite, StillStartable, Startable
<1>3. ord' \in [Orders -> OrderRow] /\ OrdersSourced' /\ PlacedStays
  <2>1. ord[o] \in OrderRow /\ ord[o].source \in Stores
    BY <1>1, <1>2 DEF Typed, TypeOK, OrdersSourced, Placed
  <2>2. row \in OrderRow /\ row.status # "ABSENT" /\ row.source \in Stores
    BY <2>1 DEF OrderRow, OrderStatus
  <2> HIDE DEF row, o
  <2>3. QED
    BY <1>1, <1>2, <2>2, OneOrderRow
<1>4. task' \in [Orders -> TaskRow]
  <2>1. task[o] \in TaskRow
    BY <1>1 DEF Typed, TypeOK
  <2>2. picking \in [Stores -> TaskStatus] /\ packing \in TaskStatus
    BY <2>1, TaskRows DEF TaskStatus
  <2> HIDE DEF picking, packing
  <2>3. tasks \in TaskRow
    BY <2>1, <2>2 DEF TaskRow
  <2> HIDE DEF tasks
  <2>4. QED
    BY <1>2, <2>3 DEF Typed, TypeOK
<1>5. QED
  BY <1>2, <1>3, <1>4, EndOfRequest, SameReservations, SameTransfers DEF Typed, TypeOK

LEMMA TaskReadTyped ==
    ASSUME Typed, NEW s \in Slots, NEW o \in Orders, NEW store \in Stores, TaskRead(s, o, store)
    PROVE  Typed'
<1> DEFINE r == [op |-> "task", phase |-> "write", ord |-> o, store |-> store]
<1>1. Continue(s, r) /\ UNCHANGED tables
  BY DEF TaskRead
<1>2. RequestOK(r, ord)
  BY DEF RequestOK
<1> HIDE DEF r
<1>3. QED
  BY <1>1, <1>2, ReadTyped

LEMMA FinishPickingTaskTyped ==
    ASSUME Typed, NEW s \in Slots, FinishPickingTask(s)
    PROVE  Typed'
<1> DEFINE o == req[s].ord
           store == req[s].store
           r == [op |-> "task", phase |-> "count", ord |-> o]
           picking == [task[o].picking EXCEPT ![store] = "COMPLETED"]
           tasks == [task[o] EXCEPT !.picking = picking]
<1>1. o \in Orders /\ store \in Stores
  BY RequestType DEF FinishPickingTask, At, RequestOK
<1>2. /\ task' = [task EXCEPT ![o] = tasks]
      /\ Continue(s, r) /\ UNCHANGED <<inv, ord, line, res, xfer>>
  BY DEF FinishPickingTask
<1>3. RequestOK(r, ord)
  BY <1>1 DEF RequestOK
<1>4. task' \in [Orders -> TaskRow]
  <2>1. task[o] \in TaskRow /\ task[o].picking \in [Stores -> TaskStatus]
    BY <1>1, TaskRows DEF Typed, TypeOK
  <2>2. picking \in [Stores -> TaskStatus]
    BY <2>1 DEF TaskStatus
  <2> HIDE DEF picking
  <2>3. tasks \in TaskRow
    BY <2>1, <2>2, TaskRows
  <2> HIDE DEF tasks
  <2>4. QED
    BY <1>2, <2>3 DEF Typed, TypeOK
<1> HIDE DEF r
<1>5. QED
  BY <1>2, <1>3, <1>4, NewRequest, SameReservations, SameTransfers, SameOrders DEF Typed, TypeOK

LEMMA CountOpenPickingTasksTyped ==
    ASSUME Typed, NEW s \in Slots, CountOpenPickingTasks(s)
    PROVE  Typed'
<1> DEFINE r == [op |-> "complete", phase |-> "read", ord |-> req[s].ord]
<1>1. (Continue(s, Idle) \/ Continue(s, r)) /\ UNCHANGED tables
  BY DEF CountOpenPickingTasks, Finish
<1>2. req[s].ord \in Orders
  BY RequestType DEF CountOpenPickingTasks, At, RequestOK
<1>3. RequestOK(r, ord) /\ RequestOK(Idle, ord)
  BY <1>2 DEF RequestOK, Idle
<1> HIDE DEF r
<1>4. QED
  BY <1>1, <1>3, ReadTyped

LEMMA CompletePackingTyped ==
    ASSUME Typed, NEW s \in Slots, NEW o \in Orders, CompletePacking(s, o)
    PROVE  Typed'
<1> DEFINE delivery == IF task[o].delivery = "NONE" THEN "OPEN" ELSE task[o].delivery
           tasks == [task[o] EXCEPT !.packing = "COMPLETED", !.delivery = delivery]
<1>1. /\ task' = [task EXCEPT ![o] = tasks]
      /\ UNCHANGED <<inv, ord, line, res, xfer, req>>
  BY DEF CompletePacking
<1>2. task' \in [Orders -> TaskRow]
  <2>1. task[o] \in TaskRow
    BY DEF Typed, TypeOK
  <2>2. delivery \in TaskStatus
    BY <2>1, TaskRows DEF TaskStatus
  <2> HIDE DEF delivery
  <2>3. tasks \in TaskRow
    BY <2>1, <2>2 DEF TaskRow, TaskStatus
  <2> HIDE DEF tasks
  <2>4. QED
    BY <1>1, <2>3 DEF Typed, TypeOK
<1>3. QED
  BY <1>1, <1>2, SameOrders, SameReservations, SameTransfers, SameRequests DEF Typed, TypeOK

LEMMA AbortTyped ==
    ASSUME Typed, NEW s \in Slots, Abort(s)
    PROVE  Typed'
<1>1. Continue(s, Idle) /\ UNCHANGED tables
  BY DEF Abort, Finish
<1>2. RequestOK(Idle, ord)
  BY DEF RequestOK, Idle
<1>3. QED
  BY <1>1, <1>2, ReadTyped

-----------------------------------------------------------------------------
(* The theorem.                                                              *)

LEMMA InitTyped == Init => Typed
<1> SUFFICES ASSUME Init PROVE Typed
  OBVIOUS
<1>1. inv \in [Inventories -> InventoryRow]
  BY ErpAssumption DEF Init, InventoryRow
<1>2. ord \in [Orders -> OrderRow] /\ OrdersSourced
  BY DEF Init, NoOrder, OrderRow, OrdersSourced, Placed
<1>3. line \in [Lines -> LineRow]
  BY DEF Init, NoLine, LineRow
<1>4. res \in [ResIds -> ReservationRow] /\ ReservationsPlaced
  BY DEF Init, NoReservation, ReservationRow, ReservationsPlaced
<1>5. xfer \in [XferIds -> TransferRow] /\ TransfersPlaced
  BY DEF Init, NoTransfer, NoItem, Item, TransferRow, ItemRow, TransfersPlaced, Items
<1>6. task \in [Orders -> TaskRow]
  BY DEF Init, NoTasks, TaskRow, TaskStatus
<1>7. DOMAIN req = Slots /\ RequestsOK
  BY DEF Init, Idle, RequestsOK, RequestOK
<1>8. QED
  BY <1>1, <1>2, <1>3, <1>4, <1>5, <1>6, <1>7 DEF Typed, TypeOK

LEMMA StutterTyped == Typed /\ UNCHANGED vars => Typed'
<1> SUFFICES ASSUME Typed, UNCHANGED vars PROVE Typed'
  OBVIOUS
<1>1. UNCHANGED <<inv, ord, line, res, xfer, task, req>>
  BY DEF vars
<1>2. QED
  BY <1>1, SameOrders, SameReservations, SameTransfers, SameRequests DEF Typed, TypeOK

LEMMA WarehouseTyped == Typed /\ WarehouseNext => Typed'
<1> SUFFICES ASSUME Typed, WarehouseNext PROVE Typed'
  OBVIOUS
<1>1. PICK s \in Slots :
        \/ \E i \in Inventories : CreateMovement(s, i) \/ CreateReservation(s, i)
        \/ ReconcileReservedStock(s)
        \/ CreateStockTransfer(s)
        \/ \E t \in XferIds : \/ DispatchStockTransfer(s, t)
                              \/ ReceiveStockTransfer(s, t)
                              \/ CancelStockTransfer(s, t)
  BY DEF WarehouseNext
<1>2. CASE \E i \in Inventories : CreateMovement(s, i) \/ CreateReservation(s, i)
  BY <1>2, MovementTyped, CreateReservationTyped
<1>3. CASE ReconcileReservedStock(s)
  BY <1>3, ReconcileTyped
<1>4. CASE CreateStockTransfer(s)
  BY <1>4, CreateTransferTyped
<1>5. CASE \E t \in XferIds : \/ DispatchStockTransfer(s, t)
                              \/ ReceiveStockTransfer(s, t)
                              \/ CancelStockTransfer(s, t)
  BY <1>5, DispatchTyped, ReceiveTyped, CancelTransferTyped
<1>6. QED
  BY <1>1, <1>2, <1>3, <1>4, <1>5

LEMMA DeskTyped ==
    ASSUME Typed, NEW s \in Slots, DeskNext(s) \/ CreateOrderReview(s)
    PROVE  Typed'
  BY CreateOrderTyped, CreateMarketplaceOrderTyped, CreateOrderReviewTyped DEF DeskNext

LEMMA StatusTyped ==
    ASSUME Typed, NEW s \in Slots, StatusNext(s)
    PROVE  Typed'
  BY UpdateStatusReadTyped, UpdateStatusLockTyped, ConfirmOrderTyped, CancelOrderTyped,
     CompleteReturnTyped, DeliverOrderTyped, MoveOrderTyped DEF StatusNext

LEMMA LinesTyped ==
    ASSUME Typed, NEW s \in Slots, LineNext(s)
    PROVE  Typed'
<1>1. CASE \E l \in Lines :
             \/ \E store \in Stores : ReserveRead(s, l, store)
             \/ \E store \in Stores \union {Null} : ReleaseRead(s, l, store)
             \/ ShortageRead(s, l)
  BY <1>1, ReserveReadTyped, ReleaseReadTyped, ShortageReadTyped
<1>2. CASE ReserveWrite(s) \/ ReleaseWrite(s) \/ ShortageWrite(s)
  BY <1>2, ReserveWriteTyped, ReleaseWriteTyped, ShortageWriteTyped
<1>3. CASE \E o \in Orders : RegisterOrderReturn(s, o)
  BY <1>3, RegisterOrderReturnTyped
<1>4. QED
  BY <1>1, <1>2, <1>3 DEF LineNext

LEMMA PickingTyped ==
    ASSUME Typed, NEW s \in Slots, PickingNext(s)
    PROVE  Typed'
<1>1. CASE \E o \in Orders : StartPickingRead(s, o) \/ PickAllRead(s, o) \/ CompletePickingRead(s, o)
  BY <1>1, StartPickingReadTyped, PickAllReadTyped, CompletePickingReadTyped
<1>2. CASE \E l \in Lines : PickLineRead(s, l)
  BY <1>2, PickLineReadTyped
<1>3. CASE StartPickingSession(s) \/ StartPickingStatus(s) \/ PickWrite(s)
  BY <1>3, StartPickingSessionTyped, StartPickingStatusTyped, PickWriteTyped
<1>4. CASE SyncRead(s) \/ SyncWrite(s)
  BY <1>4, SyncReadTyped, SyncWriteTyped
<1>5. CASE CompletePickingWrite(s) \/ FinishPickingTask(s) \/ CountOpenPickingTasks(s)
  BY <1>5, CompletePickingWriteTyped, FinishPickingTaskTyped, CountOpenPickingTasksTyped
<1>6. CASE \E o \in Orders :
             \/ \E store \in Stores : TaskRead(s, o, store)
             \/ CompletePacking(s, o)
  BY <1>6, TaskReadTyped, CompletePackingTyped
<1>7. QED
  BY <1>1, <1>2, <1>3, <1>4, <1>5, <1>6 DEF PickingNext

LEMMA NextTyped == Typed /\ [Next]_vars => Typed'
<1> SUFFICES ASSUME Typed, [Next]_vars PROVE Typed'
  OBVIOUS
<1>1. CASE WarehouseNext
  BY <1>1, WarehouseTyped
<1>2. ASSUME NEW s \in Slots,
             \/ DeskNext(s) \/ CreateOrderReview(s) \/ StatusNext(s)
             \/ LineNext(s) \/ PickingNext(s) \/ Abort(s)
      PROVE  Typed'
  BY <1>2, DeskTyped, StatusTyped, LinesTyped, PickingTyped, AbortTyped
<1>3. CASE UNCHANGED vars
  BY <1>3, StutterTyped
<1>4. QED
  BY <1>1, <1>2, <1>3 DEF Next

LEMMA AlwaysTyped == Spec => []Typed
  BY InitTyped, NextTyped, PTL DEF Spec

\* Whatever the clients ask and however their requests interleave, the tables
\* keep their types.  In particular no handler drives the stock of an inventory
\* or the units of an item of a transfer below zero.
THEOREM TypeCorrect == Spec => []TypeOK
<1>1. Typed => TypeOK
  BY DEF Typed
<1>2. QED
  BY <1>1, AlwaysTyped, PTL

-----------------------------------------------------------------------------
(* The transfers.  Their invariant.                                          *)

\* The rows of StockTransfer are allocated in order.
Numbered(n) == \A t \in XferIds : xfer[t].status # "ABSENT" <=> t <= n
TransfersNumbered == \E n \in 0..MaxTransfers : Numbered(n)

TransfersKept == Typed /\ TransfersNumbered /\ TransferBalanced

\* What a step may do to the rows: the steps of the contract, row by row.
Others(T) == \A u \in XferIds \ T : xfer'[u] = xfer[u]

Asking(T) ==
    /\ T \subseteq XferIds /\ Others(T)
    /\ \A t \in T :
         /\ xfer[t].status = "ABSENT" /\ xfer'[t].status = "PENDING"
         /\ \A k \in ItemKeys : /\ xfer'[t].items[k].disp = 0
                                /\ xfer'[t].items[k].rec = 0 /\ xfer'[t].items[k].disc = 0

Sending(t) ==
    /\ Others({t})
    /\ xfer[t].status = "PENDING" /\ xfer'[t].status = "IN_TRANSIT"
    /\ \A k \in ItemKeys : /\ xfer'[t].items[k].qty = xfer[t].items[k].qty
                           /\ xfer'[t].items[k].disp = xfer[t].items[k].qty
                           /\ xfer'[t].items[k].rec = xfer[t].items[k].rec
                           /\ xfer'[t].items[k].disc = xfer[t].items[k].disc

Accounted(item) == item.rec + item.disc = item.disp
Taking(t) ==
    /\ Others({t})
    /\ xfer[t].status \in {"IN_TRANSIT", "PARTIALLY_RECEIVED"}
    /\ xfer'[t].status = IF \A k \in ItemKeys : Accounted(xfer'[t].items[k])
                         THEN "RECEIVED" ELSE "PARTIALLY_RECEIVED"
    /\ \A k \in ItemKeys :
         /\ xfer'[t].items[k].qty = xfer[t].items[k].qty
         /\ xfer'[t].items[k].disp = xfer[t].items[k].disp
         /\ xfer'[t].items[k].rec >= xfer[t].items[k].rec
         /\ xfer'[t].items[k].disc >= xfer[t].items[k].disc
         /\ xfer'[t].items[k].rec + xfer'[t].items[k].disc <= xfer[t].items[k].disp
    /\ \E k \in ItemKeys : xfer'[t].items[k].rec + xfer'[t].items[k].disc
                               > xfer[t].items[k].rec + xfer[t].items[k].disc

CallingOff(t) ==
    /\ Others({t})
    /\ xfer[t].status \in {"PENDING", "IN_TRANSIT"} /\ xfer'[t].status = "CANCELLED"
    /\ xfer'[t].items = xfer[t].items

TransferStep ==
    \/ UNCHANGED xfer
    \/ \E T \in SUBSET XferIds : Asking(T)
    \/ \E t \in XferIds : Sending(t) \/ Taking(t) \/ CallingOff(t)

-----------------------------------------------------------------------------
(* The ids of new transfers.                                                 *)

LEMMA UsedTransfers ==
    ASSUME NEW n \in 0..MaxTransfers, Numbered(n)
    PROVE  UsedXfer = n
<1>1. {t \in XferIds : xfer[t].status # "ABSENT"} = 1..n
  BY ErpAssumption DEF Numbered, XferIds
<1>2. Cardinality(1..n) = n
  <2>1. 1 \in Int /\ n \in Int /\ n >= 0
    BY ErpAssumption
  <2>2. Cardinality(1..n) = IF 1 > n THEN 0 ELSE n - 1 + 1
    BY <2>1, FS_Interval
  <2>3. QED
    BY <2>1, <2>2
<1>3. QED
  BY <1>1, <1>2 DEF UsedXfer

\* Rows in which no transfer appears or disappears keep their numbers.
LEMMA SameNumbers ==
    ASSUME TransfersNumbered,
           \A t \in XferIds : xfer[t].status # "ABSENT" <=> xfer'[t].status # "ABSENT"
    PROVE  TransfersNumbered'
  BY DEF TransfersNumbered, Numbered

\* Adding the next m rows.
LEMMA NextNumbers ==
    ASSUME TransfersNumbered, NEW m \in Nat, UsedXfer + 1 .. UsedXfer + m \subseteq XferIds,
           \A t \in UsedXfer + 1 .. UsedXfer + m : xfer'[t].status # "ABSENT",
           \A t \in XferIds \ (UsedXfer + 1 .. UsedXfer + m) : xfer'[t] = xfer[t]
    PROVE  /\ TransfersNumbered'
           /\ \A t \in UsedXfer + 1 .. UsedXfer + m : xfer[t].status = "ABSENT"
<1>1. PICK n \in 0..MaxTransfers : Numbered(n)
  BY DEF TransfersNumbered
<1>2. UsedXfer = n
  BY <1>1, UsedTransfers
<1>3. n \in Nat /\ MaxTransfers \in Nat /\ n <= MaxTransfers
  BY ErpAssumption
<1>4. \A t \in n + 1 .. n + m : t \in XferIds /\ xfer[t].status = "ABSENT"
  BY <1>1, <1>2, <1>3 DEF Numbered, XferIds
<1>5. n + m \in 0..MaxTransfers
  <2>1. CASE m = 0
    BY <1>3, <2>1
  <2>2. CASE m > 0
    <3>1. n + m \in n + 1 .. n + m
      BY <1>3, <2>2
    <3>2. n + m \in XferIds
      BY <1>4, <3>1
    <3>3. QED
      BY <1>3, <3>2 DEF XferIds
  <2>3. QED
    BY <2>1, <2>2
<1>6. ASSUME NEW t \in XferIds
      PROVE  xfer'[t].status # "ABSENT" <=> t <= n + m
  <2>1. t \in Nat /\ t >= 1
    BY ErpAssumption DEF XferIds
  <2>2. CASE t \in n + 1 .. n + m
    BY <1>2, <2>2
  <2>3. CASE t \notin n + 1 .. n + m
    <3>1. xfer'[t] = xfer[t]
      BY <1>2, <2>3
    <3>2. xfer[t].status # "ABSENT" <=> t <= n
      BY <1>1 DEF Numbered
    <3>3. t <= n <=> t <= n + m
      BY <1>3, <2>1, <2>3
    <3>4. QED
      BY <3>1, <3>2, <3>3
  <2>4. QED
    BY <2>2, <2>3
<1>7. QED
  BY <1>2, <1>4, <1>5, <1>6 DEF TransfersNumbered, Numbered

-----------------------------------------------------------------------------
(* What each handler does to the rows.                                       *)

LEMMA CreateTransferAsks ==
    ASSUME TransfersKept, NEW s \in Slots, CreateStockTransfer(s)
    PROVE  TransferStep /\ TransfersNumbered'
<1> DEFINE u == UsedXfer + 1
<1>1. PICK from \in Stores, to \in Stores, n \in 1..MaxItems :
        /\ from # to
        /\ \E v \in [1..n -> Variants], q \in [1..n -> 1..MaxQty] :
             xfer' = [xfer EXCEPT ![UsedXfer + 1] =
                        [status |-> "PENDING", from |-> from, to |-> to, ord |-> Null,
                         items |-> [k \in ItemKeys |-> IF k \in 1..n THEN Item(Null, v[k], q[k])
                                                      ELSE NoItem]]]
  BY ZenonT(60) DEF CreateStockTransfer
<1>2. PICK v \in [1..n -> Variants], q \in [1..n -> 1..MaxQty] :
          xfer' = [xfer EXCEPT ![u] =
                     [status |-> "PENDING", from |-> from, to |-> to, ord |-> Null,
                      items |-> [k \in ItemKeys |-> IF k \in 1..n THEN Item(Null, v[k], q[k])
                                                   ELSE NoItem]]]
  BY <1>1
<1> DEFINE items == [k \in ItemKeys |-> IF k \in 1..n THEN Item(Null, v[k], q[k]) ELSE NoItem]
           row == [status |-> "PENDING", from |-> from, to |-> to, ord |-> Null, items |-> items]
<1>3. xfer' = [xfer EXCEPT ![u] = row]
  BY <1>2
<1>4. \A k \in ItemKeys : items[k].disp = 0 /\ items[k].rec = 0 /\ items[k].disc = 0
  BY DEF Item, NoItem
<1>5. row.status = "PENDING" /\ row.items = items
  OBVIOUS
<1> HIDE DEF row, items
<1>6. UsedXfer \in Nat /\ u \in XferIds
  <2>1. PICK m \in 0..MaxTransfers : Numbered(m)
    BY DEF TransfersKept, TransfersNumbered
  <2>2. UsedXfer = m /\ m < MaxTransfers
    BY <2>1, UsedTransfers DEF CreateStockTransfer
  <2>3. QED
    BY <2>2, ErpAssumption DEF XferIds
<1>7. xfer'[u] = row /\ Others({u})
  BY <1>3, <1>6 DEF Others, TransfersKept, Typed, TypeOK
<1>8. TransfersNumbered' /\ xfer[u].status = "ABSENT"
  <2>1. UsedXfer + 1 .. UsedXfer + 1 = {u}
    BY <1>6
  <2>2. \A t \in {u} : xfer'[t].status # "ABSENT"
    BY <1>5, <1>7
  <2> HIDE DEF u
  <2>3. QED
    BY <1>6, <1>7, <2>1, <2>2, NextNumbers DEF Others, TransfersKept
<1>9. Asking({u})
  <2> HIDE DEF u
  <2>1. QED
    BY <1>4, <1>5, <1>6, <1>7, <1>8 DEF Asking
<1>10. QED
  <2> HIDE DEF u
  <2>1. QED
    BY <1>6, <1>8, <1>9 DEF TransferStep

LEMMA RemoteTransfersAsk ==
    ASSUME TransfersKept, NEW table, NEW o, NEW source, EnsureRemoteTransfers(table, o, source)
    PROVE  TransferStep /\ TransfersNumbered'
<1> DEFINE from == RemoteStores(table, o, source)
           held(store) == RemoteReservations(table, o, store)
           items(store) == [r \in ItemKeys |->
                              IF r \in held(store)
                              THEN Item(table[r].line, table[r].inv[2], table[r].qty)
                              ELSE NoItem]
           row(store) == [status |-> "PENDING", from |-> store, to |-> source, ord |-> o,
                          items |-> items(store)]
           m == Cardinality(from)
<1>1. PICK new \in [UsedXfer + 1 .. UsedXfer + m -> from] :
         /\ DOMAIN new \subseteq XferIds
         /\ xfer' = [t \in XferIds |-> IF t \in DOMAIN new THEN row(new[t]) ELSE xfer[t]]
  BY DEF EnsureRemoteTransfers
<1>2. m \in Nat
  <2>1. IsFiniteSet(from)
    BY ErpAssumption, FS_Subset DEF RemoteStores
  <2> HIDE DEF from
  <2>2. QED
    BY <2>1, FS_CardinalityType
<1>3. \A store : /\ row(store).status = "PENDING" /\ row(store).items = items(store)
                 /\ \A k \in ItemKeys : /\ items(store)[k].disp = 0
                                        /\ items(store)[k].rec = 0 /\ items(store)[k].disc = 0
  BY DEF Item, NoItem
<1> DEFINE T == UsedXfer + 1 .. UsedXfer + m
<1>4. DOMAIN new = T /\ T \subseteq XferIds
  BY <1>1
<1> HIDE DEF row, items, m, T
<1>5. \A t \in T : xfer'[t] = row(new[t])
  BY <1>1, <1>4
<1>6. Others(T)
  BY <1>1, <1>4 DEF Others
<1>7. \A t \in T : xfer'[t].status = "PENDING"
  BY <1>3, <1>5
<1>8. TransfersNumbered' /\ \A t \in T : xfer[t].status = "ABSENT"
  BY <1>2, <1>4, <1>6, <1>7, NextNumbers DEF Others, T, TransfersKept
<1>9. Asking(T)
  BY <1>3, <1>4, <1>5, <1>6, <1>7, <1>8 DEF Asking
<1>10. QED
  BY <1>4, <1>8, <1>9 DEF TransferStep

\* A step on one row that was there and stays.
LEMMA OneRow ==
    ASSUME TransfersKept, NEW t \in XferIds, NEW row, xfer' = [xfer EXCEPT ![t] = row],
           xfer[t].status # "ABSENT", row.status # "ABSENT"
    PROVE  xfer'[t] = row /\ Others({t}) /\ TransfersNumbered'
<1>1. xfer'[t] = row /\ \A u \in XferIds \ {t} : xfer'[u] = xfer[u]
  BY DEF TransfersKept, Typed, TypeOK
<1>2. \A u \in XferIds : xfer[u].status # "ABSENT" <=> xfer'[u].status # "ABSENT"
  BY <1>1
<1>3. QED
  BY <1>1, <1>2, SameNumbers DEF Others, TransfersKept

LEMMA DispatchSends ==
    ASSUME TransfersKept, NEW s \in Slots, NEW t \in XferIds, DispatchStockTransfer(s, t)
    PROVE  TransferStep /\ TransfersNumbered'
<1> DEFINE items == [k \in ItemKeys |-> [xfer[t].items[k] EXCEPT !.disp = xfer[t].items[k].qty]]
           moved == [xfer[t] EXCEPT !.status = "IN_TRANSIT"]
           row == [moved EXCEPT !.items = items]
<1>1. Typed /\ xfer[t] \in TransferRow /\ xfer[t].status = "PENDING"
  BY TransferType DEF TransfersKept, DispatchStockTransfer, Dispatchable
<1>2. xfer' = [xfer EXCEPT ![t] = row]
  BY DEF DispatchStockTransfer, TransfersKept, Typed, TypeOK
<1>3. \A k \in ItemKeys : /\ items[k].qty = xfer[t].items[k].qty
                          /\ items[k].disp = xfer[t].items[k].qty
                          /\ items[k].rec = xfer[t].items[k].rec
                          /\ items[k].disc = xfer[t].items[k].disc
  <2>1. \A k \in ItemKeys : xfer[t].items[k] \in ItemRow
    BY <1>1, TransferType
  <2>2. QED
    BY <2>1 DEF ItemRow
<1>4. row.status = "IN_TRANSIT" /\ row.items = items
  <2> HIDE DEF items
  <2>1. QED
    BY <1>1 DEF TransferRow
<1> HIDE DEF row, items
<1>5. xfer'[t] = row /\ Others({t}) /\ TransfersNumbered'
  BY <1>1, <1>2, <1>4, OneRow
<1>6. Sending(t)
  BY <1>1, <1>3, <1>4, <1>5 DEF Sending
<1>7. QED
  BY <1>5, <1>6 DEF TransferStep

LEMMA CancelCallsOff ==
    ASSUME TransfersKept, NEW s \in Slots, NEW t \in XferIds, CancelStockTransfer(s, t)
    PROVE  TransferStep /\ TransfersNumbered'
<1> DEFINE row == [xfer[t] EXCEPT !.status = "CANCELLED"]
<1>1. xfer[t] \in TransferRow /\ xfer[t].status \in {"PENDING", "IN_TRANSIT"}
  BY TransferType DEF TransfersKept, CancelStockTransfer, Recallable
<1>2. xfer' = [xfer EXCEPT ![t] = row]
  BY DEF CancelStockTransfer
<1>3. row.status = "CANCELLED" /\ row.items = xfer[t].items
  BY <1>1 DEF TransferRow
<1> HIDE DEF row
<1>4. xfer'[t] = row /\ Others({t}) /\ TransfersNumbered'
  BY <1>1, <1>2, <1>3, OneRow
<1>5. CallingOff(t)
  BY <1>1, <1>3, <1>4 DEF CallingOff
<1>6. QED
  BY <1>4, <1>5 DEF TransferStep

LEMMA ReceiveTakes ==
    ASSUME TransfersKept, NEW s \in Slots, NEW t \in XferIds, ReceiveStockTransfer(s, t)
    PROVE  TransferStep /\ TransfersNumbered'
<1>1. PICK rec \in [Items(t) -> 0..MaxQty], disc \in [Items(t) -> 0..MaxQty] :
         LET items == [k \in ItemKeys |->
                         IF k \in Items(t)
                         THEN [xfer[t].items[k] EXCEPT !.rec = xfer[t].items[k].rec + rec[k],
                                                       !.disc = xfer[t].items[k].disc + disc[k]]
                         ELSE NoItem]
             complete == \A k \in Items(t) : Left(items[k]) = 0
         IN  /\ \A k \in Items(t) : rec[k] + disc[k] <= Greatest(0, Left(xfer[t].items[k]))
             /\ \E k \in Items(t) : rec[k] + disc[k] > 0
             /\ xfer' = [xfer EXCEPT
                           ![t].status = IF complete THEN "RECEIVED" ELSE "PARTIALLY_RECEIVED",
                           ![t].items = items]
  BY DEF ReceiveStockTransfer
<1> DEFINE items == [k \in ItemKeys |->
                       IF k \in Items(t)
                       THEN [xfer[t].items[k] EXCEPT !.rec = xfer[t].items[k].rec + rec[k],
                                                     !.disc = xfer[t].items[k].disc + disc[k]]
                       ELSE NoItem]
           complete == \A k \in Items(t) : Left(items[k]) = 0
           status == IF complete THEN "RECEIVED" ELSE "PARTIALLY_RECEIVED"
           moved == [xfer[t] EXCEPT !.status = status]
           row == [moved EXCEPT !.items = items]
<1>2. Typed /\ TransferBalanced /\ xfer[t] \in TransferRow
  BY TransferType DEF TransfersKept
<1>3. xfer[t].status \in {"IN_TRANSIT", "PARTIALLY_RECEIVED"}
  BY DEF ReceiveStockTransfer
<1>4. \A k \in Items(t) : rec[k] \in Nat /\ disc[k] \in Nat
  BY ErpAssumption
<1>5. ASSUME NEW k \in ItemKeys
      PROVE  /\ xfer[t].items[k] \in ItemRow
             /\ xfer[t].items[k].qty \in Nat /\ xfer[t].items[k].disp = xfer[t].items[k].qty
             /\ xfer[t].items[k].rec \in Nat /\ xfer[t].items[k].disc \in Nat
             /\ xfer[t].items[k].rec + xfer[t].items[k].disc <= xfer[t].items[k].disp
  BY <1>2, <1>3, TransferType DEF TransferBalanced
<1>6. ASSUME NEW k \in Items(t)
      PROVE  /\ k \in ItemKeys
             /\ items[k].qty = xfer[t].items[k].qty /\ items[k].disp = xfer[t].items[k].disp
             /\ items[k].rec = xfer[t].items[k].rec + rec[k]
             /\ items[k].disc = xfer[t].items[k].disc + disc[k]
             /\ rec[k] + disc[k] + xfer[t].items[k].rec + xfer[t].items[k].disc <= xfer[t].items[k].disp
  <2>1. k \in ItemKeys
    BY DEF Items
  <2>2. items[k] = [xfer[t].items[k] EXCEPT !.rec = xfer[t].items[k].rec + rec[k],
                                            !.disc = xfer[t].items[k].disc + disc[k]]
    BY <2>1
  <2>3. rec[k] + disc[k] <= Greatest(0, Left(xfer[t].items[k]))
    BY <1>1
  <2> HIDE DEF items
  <2>4. /\ items[k].qty = xfer[t].items[k].qty /\ items[k].disp = xfer[t].items[k].disp
        /\ items[k].rec = xfer[t].items[k].rec + rec[k]
        /\ items[k].disc = xfer[t].items[k].disc + disc[k]
    BY <1>5, <2>1, <2>2 DEF ItemRow
  <2>5. rec[k] + disc[k] + xfer[t].items[k].rec + xfer[t].items[k].disc <= xfer[t].items[k].disp
    BY <1>4, <1>5, <2>1, <2>3 DEF Left, Greatest
  <2>6. QED
    BY <2>1, <2>4, <2>5
<1>7. ASSUME NEW k \in ItemKeys, k \notin Items(t)
      PROVE  /\ items[k].qty = 0 /\ items[k].disp = 0 /\ items[k].rec = 0 /\ items[k].disc = 0
             /\ xfer[t].items[k].qty = 0 /\ xfer[t].items[k].disp = 0
             /\ xfer[t].items[k].rec = 0 /\ xfer[t].items[k].disc = 0
  <2>1. items[k] = NoItem
    BY <1>7
  <2>2. xfer[t].items[k].qty = 0
    BY <1>5, <1>7 DEF Items
  <2> HIDE DEF items
  <2>3. items[k].qty = 0 /\ items[k].disp = 0 /\ items[k].rec = 0 /\ items[k].disc = 0
    BY <2>1 DEF NoItem, Item
  <2>4. /\ xfer[t].items[k].disp = xfer[t].items[k].qty
        /\ xfer[t].items[k].rec \in Nat /\ xfer[t].items[k].disc \in Nat
        /\ xfer[t].items[k].rec + xfer[t].items[k].disc <= xfer[t].items[k].disp
    BY <1>5
  <2>5. xfer[t].items[k].rec = 0 /\ xfer[t].items[k].disc = 0 /\ xfer[t].items[k].disp = 0
    BY <2>2, <2>4
  <2>6. QED
    BY <2>2, <2>3, <2>5
<1>8. \E k \in Items(t) : rec[k] + disc[k] > 0
  BY <1>1
<1>9. xfer' = [xfer EXCEPT ![t] = row]
  <2>1. xfer' = [xfer EXCEPT ![t].status = status, ![t].items = items]
    BY <1>1
  <2> HIDE DEF items, status
  <2>2. QED
    BY <2>1 DEF TransfersKept, Typed, TypeOK
<1>10. row.status = status /\ row.items = items
  <2> HIDE DEF items, status
  <2>1. QED
    BY <1>2 DEF TransferRow
<1>11. status = IF \A k \in ItemKeys : Accounted(items[k]) THEN "RECEIVED" ELSE "PARTIALLY_RECEIVED"
  <2> HIDE DEF items
  <2>1. ASSUME NEW k \in Items(t)
        PROVE  Left(items[k]) = 0 <=> Accounted(items[k])
    <3>1. k \in ItemKeys /\ rec[k] \in Nat /\ disc[k] \in Nat
      BY <1>4, <1>6
    <3>2. /\ xfer[t].items[k].qty \in Nat /\ xfer[t].items[k].disp = xfer[t].items[k].qty
          /\ xfer[t].items[k].rec \in Nat /\ xfer[t].items[k].disc \in Nat
      BY <1>5, <3>1
    <3>3. items[k].disp \in Nat /\ items[k].rec \in Nat /\ items[k].disc \in Nat
      BY <1>6, <3>1, <3>2
    <3>4. QED
      BY <3>3 DEF Left, Accounted
  <2>2. \A k \in ItemKeys : k \notin Items(t) => Accounted(items[k])
    BY <1>7 DEF Accounted
  <2>3. Items(t) \subseteq ItemKeys
    BY DEF Items
  <2>4. complete <=> \A k \in ItemKeys : Accounted(items[k])
    BY <2>1, <2>2, <2>3
  <2>5. QED
    BY <2>4
<1>12. row.status # "ABSENT"
  <2>1. status \in {"RECEIVED", "PARTIALLY_RECEIVED"}
    <3> HIDE DEF items
    <3>1. QED
      OBVIOUS
  <2> HIDE DEF row, status
  <2>2. QED
    BY <1>10, <2>1
<1> HIDE DEF items, status, row
<1>13. xfer'[t] = row /\ Others({t}) /\ TransfersNumbered'
  BY <1>3, <1>9, <1>12, OneRow
<1>14. \A k \in ItemKeys :
         /\ items[k].qty = xfer[t].items[k].qty
         /\ items[k].disp = xfer[t].items[k].disp
         /\ items[k].rec >= xfer[t].items[k].rec
         /\ items[k].disc >= xfer[t].items[k].disc
         /\ items[k].rec + items[k].disc <= xfer[t].items[k].disp
  <2>1. ASSUME NEW k \in Items(t)
        PROVE  /\ items[k].qty = xfer[t].items[k].qty
               /\ items[k].disp = xfer[t].items[k].disp
               /\ items[k].rec >= xfer[t].items[k].rec
               /\ items[k].disc >= xfer[t].items[k].disc
               /\ items[k].rec + items[k].disc <= xfer[t].items[k].disp
    BY <1>4, <1>5, <1>6
  <2>2. QED
    BY <2>1, <1>7
<1>15. \E k \in ItemKeys : items[k].rec + items[k].disc > xfer[t].items[k].rec + xfer[t].items[k].disc
  <2>1. PICK k \in Items(t) : rec[k] + disc[k] > 0
    BY <1>8
  <2>2. k \in ItemKeys /\ items[k].rec + items[k].disc > xfer[t].items[k].rec + xfer[t].items[k].disc
    BY <1>4, <1>5, <1>6, <2>1
  <2>3. QED
    BY <2>2
<1>16. Taking(t)
  BY <1>3, <1>10, <1>11, <1>13, <1>14, <1>15 DEF Taking
<1>17. QED
  BY <1>13, <1>16 DEF TransferStep

-----------------------------------------------------------------------------
(* All steps.                                                                *)

LEMMA NoTransferMoves ==
    ASSUME TransfersKept, UNCHANGED xfer
    PROVE  TransferStep /\ TransfersNumbered'
  BY DEF TransferStep, TransfersKept, TransfersNumbered, Numbered

LEMMA DeskAsks ==
    ASSUME TransfersKept, NEW s \in Slots, DeskNext(s) \/ CreateOrderReview(s)
    PROVE  TransferStep /\ TransfersNumbered'
<1>1. ASSUME NEW o \in Orders, CreateOrder(s, o)
      PROVE  TransferStep /\ TransfersNumbered'
  <2>1. PICK channel \in {"POS", "INTERNAL"}, source \in Stores,
             L \in (SUBSET {l \in Lines : LineOrder[l] = o}) \ {{}} :
          \E q \in [L -> 1..MaxQty], store \in [L -> Stores], chosen \in Stores \union {Null} :
            PlaceOrder(o, channel, source, L, q, store, chosen)
    BY <1>1 DEF CreateOrder
  <2>2. PICK q \in [L -> 1..MaxQty], store \in [L -> Stores], chosen \in Stores \union {Null} :
            PlaceOrder(o, channel, source, L, q, store, chosen)
    BY <2>1
  <2>3. EnsureRemoteTransfers(res', o, source) \/ UNCHANGED xfer
    BY <2>2 DEF PlaceOrder
  <2>4. QED
    BY <2>3, RemoteTransfersAsk, NoTransferMoves
<1>2. ASSUME NEW o \in Orders, CreateMarketplaceOrder(s, o)
      PROVE  UNCHANGED xfer
  BY <1>2 DEF CreateMarketplaceOrder
<1>3. ASSUME CreateOrderReview(s)
      PROVE  UNCHANGED xfer
  BY <1>3 DEF CreateOrderReview
<1>4. QED
  BY <1>1, <1>2, <1>3, NoTransferMoves DEF DeskNext

LEMMA StatusAsks ==
    ASSUME TransfersKept, NEW s \in Slots, StatusNext(s)
    PROVE  TransferStep /\ TransfersNumbered'
<1>1. CASE ConfirmOrder(s)
  <2>1. EnsureRemoteTransfers(res, req[s].ord, ord[req[s].ord].source)
    BY <1>1 DEF ConfirmOrder
  <2>2. QED
    BY <2>1, RemoteTransfersAsk
<1>2. CASE UpdateStatusLock(s) \/ \E o \in Orders, target \in OrderStatus : UpdateStatusRead(s, o, target)
  BY <1>2, NoTransferMoves DEF UpdateStatusRead, UpdateStatusLock, tables
<1>3. CASE CancelOrder(s) \/ CompleteReturn(s) \/ DeliverOrder(s) \/ MoveOrder(s)
  BY <1>3, NoTransferMoves DEF CancelOrder, CompleteReturn, DeliverOrder, MoveOrder
<1>4. QED
  BY <1>1, <1>2, <1>3 DEF StatusNext

LEMMA LinesMoveNoTransfer ==
    ASSUME TransfersKept, NEW s \in Slots, LineNext(s)
    PROVE  TransferStep /\ TransfersNumbered'
<1>1. ASSUME NEW l \in Lines, NEW store, ReserveRead(s, l, store) \/ ReleaseRead(s, l, store)
      PROVE  UNCHANGED xfer
  BY <1>1 DEF ReserveRead, ReleaseRead, tables
<1>2. ASSUME NEW l \in Lines, ShortageRead(s, l)
      PROVE  UNCHANGED xfer
  BY <1>2 DEF ShortageRead, tables
<1>3. ASSUME ReserveWrite(s) \/ ReleaseWrite(s) \/ ShortageWrite(s)
      PROVE  UNCHANGED xfer
  BY <1>3 DEF ReserveWrite, ReleaseWrite, ShortageWrite
<1>4. ASSUME NEW o \in Orders, RegisterOrderReturn(s, o)
      PROVE  UNCHANGED xfer
  BY <1>4 DEF RegisterOrderReturn
<1>5. UNCHANGED xfer
  BY <1>1, <1>2, <1>3, <1>4 DEF LineNext
<1>6. QED
  BY <1>5, NoTransferMoves

LEMMA PickingMovesNoTransfer ==
    ASSUME TransfersKept, NEW s \in Slots, PickingNext(s)
    PROVE  TransferStep /\ TransfersNumbered'
<1>1. ASSUME NEW o \in Orders,
             \/ StartPickingRead(s, o) \/ PickAllRead(s, o) \/ CompletePickingRead(s, o)
             \/ CompletePacking(s, o) \/ \E store \in Stores : TaskRead(s, o, store)
      PROVE  UNCHANGED xfer
  BY <1>1 DEF StartPickingRead, PickAllRead, CompletePickingRead, CompletePacking, TaskRead, tables
<1>2. ASSUME NEW l \in Lines, PickLineRead(s, l)
      PROVE  UNCHANGED xfer
  BY <1>2 DEF PickLineRead, tables
<1>3. ASSUME \/ StartPickingSession(s) \/ StartPickingStatus(s) \/ PickWrite(s)
             \/ SyncRead(s) \/ SyncWrite(s) \/ CompletePickingWrite(s)
             \/ FinishPickingTask(s) \/ CountOpenPickingTasks(s)
      PROVE  UNCHANGED xfer
  BY <1>3 DEF StartPickingSession, StartPickingStatus, PickWrite, SyncRead, SyncWrite,
       CompletePickingWrite, FinishPickingTask, CountOpenPickingTasks, tables
<1>4. UNCHANGED xfer
  BY <1>1, <1>2, <1>3 DEF PickingNext
<1>5. QED
  BY <1>4, NoTransferMoves

LEMMA WarehouseMovesTransfers ==
    ASSUME TransfersKept, WarehouseNext
    PROVE  TransferStep /\ TransfersNumbered'
<1>1. PICK s \in Slots :
        \/ \E i \in Inventories : CreateMovement(s, i) \/ CreateReservation(s, i)
        \/ ReconcileReservedStock(s)
        \/ CreateStockTransfer(s)
        \/ \E t \in XferIds : \/ DispatchStockTransfer(s, t)
                              \/ ReceiveStockTransfer(s, t)
                              \/ CancelStockTransfer(s, t)
  BY DEF WarehouseNext
<1>2. CASE \/ \E i \in Inventories : CreateMovement(s, i) \/ CreateReservation(s, i)
           \/ ReconcileReservedStock(s)
  BY <1>2, NoTransferMoves DEF CreateMovement, CreateReservation, ReconcileReservedStock
<1>3. CASE CreateStockTransfer(s)
  BY <1>3, CreateTransferAsks
<1>4. CASE \E t \in XferIds : \/ DispatchStockTransfer(s, t)
                              \/ ReceiveStockTransfer(s, t)
                              \/ CancelStockTransfer(s, t)
  BY <1>4, DispatchSends, ReceiveTakes, CancelCallsOff
<1>5. QED
  BY <1>1, <1>2, <1>3, <1>4

LEMMA EveryStep ==
    ASSUME TransfersKept, [Next]_vars
    PROVE  TransferStep /\ TransfersNumbered'
<1>1. CASE WarehouseNext
  BY <1>1, WarehouseMovesTransfers
<1>2. ASSUME NEW s \in Slots,
             \/ DeskNext(s) \/ CreateOrderReview(s) \/ StatusNext(s)
             \/ LineNext(s) \/ PickingNext(s)
      PROVE  TransferStep /\ TransfersNumbered'
  BY <1>2, DeskAsks, StatusAsks, LinesMoveNoTransfer, PickingMovesNoTransfer
<1>3. ASSUME NEW s \in Slots, Abort(s)
      PROVE  TransferStep /\ TransfersNumbered'
  BY <1>3, NoTransferMoves DEF Abort, tables
<1>4. CASE UNCHANGED vars
  BY <1>4, NoTransferMoves DEF vars
<1>5. QED
  BY <1>1, <1>2, <1>3, <1>4 DEF Next

-----------------------------------------------------------------------------
(* The balance of a transfer.                                                *)

Balanced(row) ==
    \A k \in ItemKeys :
        LET item == row.items[k]
            status == row.status
        IN  /\ item.rec + item.disc <= item.disp
            /\ status = "ABSENT" => item.qty = 0
            /\ status \in {"ABSENT", "PENDING"} => item.disp = 0
            /\ status \in {"IN_TRANSIT", "PARTIALLY_RECEIVED", "RECEIVED"} => item.disp = item.qty
            /\ status \in {"IN_TRANSIT", "CANCELLED"} => item.rec + item.disc = 0
            /\ status = "RECEIVED" => item.rec + item.disc = item.disp

\* The units of an item are numbers, in the rows of now and in those to come.
Numbers(row) ==
    \A k \in ItemKeys : /\ row.items[k].qty \in Nat /\ row.items[k].disp \in Nat
                        /\ row.items[k].rec \in Nat /\ row.items[k].disc \in Nat

LEMMA RowNumbers ==
    ASSUME NEW row \in TransferRow
    PROVE  Numbers(row)
  BY DEF TransferRow, ItemRow, Numbers

LEMMA AllNumbers ==
    ASSUME Typed, Typed', NEW t \in XferIds
    PROVE  Numbers(xfer[t]) /\ Numbers(xfer'[t])
<1>1. xfer[t] \in TransferRow /\ xfer'[t] \in TransferRow
  BY DEF Typed, TypeOK
<1>2. QED
  BY <1>1, RowNumbers

LEMMA StepBalances ==
    ASSUME Typed, Typed', TransferBalanced, TransferStep
    PROVE  TransferBalanced'
<1>1. ASSUME NEW t \in XferIds
      PROVE  Balanced(xfer[t]) /\ Numbers(xfer[t]) /\ Numbers(xfer'[t])
  BY AllNumbers DEF TransferBalanced, Balanced
<1>2. SUFFICES \A t \in XferIds : Balanced(xfer'[t])
  BY DEF TransferBalanced, Balanced
<1>3. CASE UNCHANGED xfer
  BY <1>1, <1>3
<1>4. ASSUME NEW T \in SUBSET XferIds, Asking(T), NEW t \in XferIds
      PROVE  Balanced(xfer'[t])
  <2>1. CASE t \in T
    BY <1>4, <2>1 DEF Asking, Balanced
  <2>2. CASE t \notin T
    BY <1>1, <1>4, <2>2 DEF Asking, Others
  <2>3. QED
    BY <2>1, <2>2
<1>5. ASSUME NEW t \in XferIds, Sending(t)
      PROVE  Balanced(xfer'[t])
  BY <1>1, <1>5 DEF Sending, Balanced, Numbers
<1>6. ASSUME NEW t \in XferIds, Taking(t)
      PROVE  Balanced(xfer'[t])
  <2>1. Balanced(xfer[t]) /\ Numbers(xfer[t]) /\ Numbers(xfer'[t])
    BY <1>1
  <2>2. \/ xfer'[t].status = "RECEIVED" /\ \A k \in ItemKeys : Accounted(xfer'[t].items[k])
        \/ xfer'[t].status = "PARTIALLY_RECEIVED"
    BY <1>6 DEF Taking
  <2>3. QED
    BY <1>6, <2>1, <2>2 DEF Taking, Balanced, Numbers, Accounted
<1>7. ASSUME NEW t \in XferIds, CallingOff(t)
      PROVE  Balanced(xfer'[t])
  BY SMTT(40), <1>1, <1>7 DEF CallingOff, Balanced, Numbers
<1>8. ASSUME NEW t \in XferIds, Sending(t) \/ Taking(t) \/ CallingOff(t), NEW u \in XferIds
      PROVE  Balanced(xfer'[u])
  <2>1. CASE u = t
    BY <1>5, <1>6, <1>7, <1>8, <2>1
  <2>2. CASE u # t
    <3>1. xfer'[u] = xfer[u]
      BY <1>8, <2>2 DEF Sending, Taking, CallingOff, Others
    <3>2. QED
      BY <1>1, <3>1
  <2>3. QED
    BY <2>1, <2>2
<1>9. QED
  BY <1>3, <1>4, <1>8 DEF TransferStep

LEMMA InitKept == Init => TransfersKept
<1> SUFFICES ASSUME Init PROVE TransfersKept
  OBVIOUS
<1>1. TransfersNumbered
  <2>1. 0 \in 0..MaxTransfers
    BY ErpAssumption
  <2>2. Numbered(0)
    BY ErpAssumption DEF Init, Numbered, XferIds, NoTransfer
  <2>3. QED
    BY <2>1, <2>2 DEF TransfersNumbered
<1>2. TransferBalanced
  BY DEF Init, NoTransfer, NoItem, Item, TransferBalanced
<1>3. QED
  BY <1>1, <1>2, InitTyped DEF TransfersKept

LEMMA NextKept == TransfersKept /\ [Next]_vars => TransfersKept'
<1> SUFFICES ASSUME TransfersKept, [Next]_vars PROVE TransfersKept'
  OBVIOUS
<1>1. Typed'
  BY NextTyped DEF TransfersKept
<1>2. TransferStep /\ TransfersNumbered'
  BY EveryStep
<1>3. TransferBalanced'
  BY <1>1, <1>2, StepBalances DEF TransfersKept
<1>4. QED
  BY <1>1, <1>2, <1>3 DEF TransfersKept

LEMMA AlwaysKept == Spec => []TransfersKept
  BY InitKept, NextKept, PTL DEF Spec

\* What an item of a transfer has been through always agrees with the status of
\* its transfer: dispatchStockTransfer() sends what was asked, and no series of
\* receiveStockTransfer() and cancelStockTransfer() makes or loses a unit.
THEOREM Balance == Spec => []TransferBalanced
<1>1. TransfersKept => TransferBalanced
  BY DEF TransfersKept
<1>2. QED
  BY <1>1, AlwaysKept, PTL

-----------------------------------------------------------------------------
(* The contract.                                                             *)

\* The rows as TransferContract sees them.
PhaseOf == [t \in XferIds |-> Phase[xfer[t].status]]
AskedOf == [t \in XferIds |-> [k \in ItemKeys |-> xfer[t].items[k].qty]]
SentOf == [t \in XferIds |-> [k \in ItemKeys |-> xfer[t].items[k].disp]]
ArrivedOf == [t \in XferIds |-> [k \in ItemKeys |-> xfer[t].items[k].rec]]
MissingOf == [t \in XferIds |-> [k \in ItemKeys |-> xfer[t].items[k].disc]]

\* A row that a step leaves is the same row of the contract.
LEMMA SameView ==
    ASSUME NEW t \in XferIds, xfer'[t] = xfer[t]
    PROVE  /\ PhaseOf'[t] = PhaseOf[t] /\ AskedOf'[t] = AskedOf[t] /\ SentOf'[t] = SentOf[t]
           /\ ArrivedOf'[t] = ArrivedOf[t] /\ MissingOf'[t] = MissingOf[t]
  BY DEF PhaseOf, AskedOf, SentOf, ArrivedOf, MissingOf

LEMMA ViewTypes ==
    ASSUME Typed, Typed'
    PROVE  /\ AskedOf' \in [XferIds -> [ItemKeys -> Nat]]
           /\ ArrivedOf' \in [XferIds -> [ItemKeys -> Nat]]
           /\ MissingOf' \in [XferIds -> [ItemKeys -> Nat]]
  BY AllNumbers DEF Numbers, AskedOf, ArrivedOf, MissingOf

LEMMA AskIsAsk ==
    ASSUME Typed, Typed', TransferBalanced, NEW T \in SUBSET XferIds, Asking(T)
    PROVE  Contract!Ask(T)
<1>1. \A t \in T : /\ PhaseOf[t] = "NONE" /\ PhaseOf'[t] = "ASKED"
                   /\ SentOf'[t] = SentOf[t] /\ ArrivedOf'[t] = ArrivedOf[t]
                   /\ MissingOf'[t] = MissingOf[t]
  <2>1. ASSUME NEW t \in T
        PROVE  /\ xfer[t].status = "ABSENT" /\ xfer'[t].status = "PENDING"
               /\ \A k \in ItemKeys :
                    /\ xfer'[t].items[k].disp = 0 /\ xfer[t].items[k].disp = 0
                    /\ xfer'[t].items[k].rec = 0 /\ xfer[t].items[k].rec = 0
                    /\ xfer'[t].items[k].disc = 0 /\ xfer[t].items[k].disc = 0
    <3>1. /\ xfer[t].status = "ABSENT" /\ xfer'[t].status = "PENDING"
          /\ \A k \in ItemKeys : /\ xfer'[t].items[k].disp = 0
                                 /\ xfer'[t].items[k].rec = 0 /\ xfer'[t].items[k].disc = 0
      BY DEF Asking
    <3>2. \A k \in ItemKeys : /\ xfer[t].items[k].disp = 0
                              /\ xfer[t].items[k].rec + xfer[t].items[k].disc <= 0
      BY <3>1 DEF TransferBalanced
    <3>3. Numbers(xfer[t])
      BY AllNumbers
    <3>4. QED
      BY <3>1, <3>2, <3>3 DEF Numbers
  <2>2. \A t \in T : PhaseOf[t] = "NONE" /\ PhaseOf'[t] = "ASKED"
    BY <2>1 DEF PhaseOf, Phase
  <2>3. ASSUME NEW t \in T
        PROVE  /\ SentOf'[t] = SentOf[t] /\ ArrivedOf'[t] = ArrivedOf[t]
               /\ MissingOf'[t] = MissingOf[t]
    <3>1. t \in XferIds
      OBVIOUS
    <3>2. SentOf'[t] = SentOf[t]
      BY <2>1, <3>1 DEF SentOf
    <3>3. ArrivedOf'[t] = ArrivedOf[t]
      BY <2>1, <3>1 DEF ArrivedOf
    <3>4. MissingOf'[t] = MissingOf[t]
      BY <2>1, <3>1 DEF MissingOf
    <3>5. QED
      BY <3>2, <3>3, <3>4
  <2>4. QED
    BY <2>2, <2>3
<1>2. \A t \in XferIds \ T : /\ PhaseOf'[t] = PhaseOf[t] /\ AskedOf'[t] = AskedOf[t]
                             /\ SentOf'[t] = SentOf[t] /\ ArrivedOf'[t] = ArrivedOf[t]
                             /\ MissingOf'[t] = MissingOf[t]
  BY SameView DEF Asking, Others
<1>3. PhaseOf' = [t \in XferIds |-> IF t \in T THEN "ASKED" ELSE PhaseOf[t]]
  <2>1. \A t \in XferIds : PhaseOf'[t] = IF t \in T THEN "ASKED" ELSE PhaseOf[t]
    BY <1>1, <1>2
  <2>2. PhaseOf' = [t \in XferIds |-> PhaseOf'[t]]
    BY DEF PhaseOf
  <2>3. QED
    BY <2>1, <2>2
<1>4. SentOf' = SentOf /\ ArrivedOf' = ArrivedOf /\ MissingOf' = MissingOf
  <2>1. \A t \in XferIds : /\ SentOf'[t] = SentOf[t] /\ ArrivedOf'[t] = ArrivedOf[t]
                           /\ MissingOf'[t] = MissingOf[t]
    BY <1>1, <1>2
  <2>2. SentOf' = SentOf
    BY <2>1 DEF SentOf
  <2>3. ArrivedOf' = ArrivedOf
    BY <2>1 DEF ArrivedOf
  <2>4. MissingOf' = MissingOf
    BY <2>1 DEF MissingOf
  <2>5. QED
    BY <2>2, <2>3, <2>4
<1>5. AskedOf' \in [XferIds -> [ItemKeys -> Nat]]
  BY ViewTypes
<1>6. QED
  BY <1>1, <1>2, <1>3, <1>4, <1>5
     DEF Contract!Ask, Contract!Units, PhaseOf, AskedOf, SentOf, ArrivedOf, MissingOf

LEMMA SendIsSend ==
    ASSUME Typed, Typed', NEW t \in XferIds, Sending(t)
    PROVE  Contract!Send(t)
<1>1. /\ PhaseOf[t] = "ASKED" /\ PhaseOf'[t] = "MOVING" /\ SentOf'[t] = AskedOf[t]
      /\ AskedOf'[t] = AskedOf[t] /\ ArrivedOf'[t] = ArrivedOf[t] /\ MissingOf'[t] = MissingOf[t]
  BY DEF Sending, PhaseOf, AskedOf, SentOf, ArrivedOf, MissingOf, Phase
<1>2. \A u \in XferIds \ {t} : /\ PhaseOf'[u] = PhaseOf[u] /\ AskedOf'[u] = AskedOf[u]
                               /\ SentOf'[u] = SentOf[u] /\ ArrivedOf'[u] = ArrivedOf[u]
                               /\ MissingOf'[u] = MissingOf[u]
  BY SameView DEF Sending, Others
<1>3. PhaseOf' = [PhaseOf EXCEPT ![t] = "MOVING"]
  BY <1>1, <1>2 DEF PhaseOf
<1>4. SentOf' = [SentOf EXCEPT ![t] = AskedOf[t]]
  BY <1>1, <1>2 DEF SentOf
<1>5. AskedOf' = AskedOf /\ ArrivedOf' = ArrivedOf /\ MissingOf' = MissingOf
  BY <1>1, <1>2 DEF AskedOf, ArrivedOf, MissingOf
<1>6. QED
  BY <1>1, <1>3, <1>4, <1>5
     DEF Contract!Send, PhaseOf, AskedOf, SentOf, ArrivedOf, MissingOf

LEMMA CallOffIsCallOff ==
    ASSUME Typed, Typed', TransferBalanced, NEW t \in XferIds, CallingOff(t)
    PROVE  Contract!CallOff(t)
<1>1. /\ PhaseOf[t] \in {"ASKED", "MOVING"} /\ PhaseOf'[t] = "CALLED_OFF"
      /\ AskedOf'[t] = AskedOf[t] /\ SentOf'[t] = SentOf[t]
      /\ ArrivedOf'[t] = ArrivedOf[t] /\ MissingOf'[t] = MissingOf[t]
  BY DEF CallingOff, PhaseOf, AskedOf, SentOf, ArrivedOf, MissingOf, Phase
<1>2. \A k \in ItemKeys : ArrivedOf[t][k] = 0 /\ MissingOf[t][k] = 0
  <2>1. \A k \in ItemKeys : xfer[t].items[k].rec + xfer[t].items[k].disc <= 0
    BY DEF CallingOff, TransferBalanced
  <2>2. Numbers(xfer[t])
    BY AllNumbers
  <2>3. QED
    BY <2>1, <2>2 DEF Numbers, ArrivedOf, MissingOf
<1>3. \A u \in XferIds \ {t} : /\ PhaseOf'[u] = PhaseOf[u] /\ AskedOf'[u] = AskedOf[u]
                               /\ SentOf'[u] = SentOf[u] /\ ArrivedOf'[u] = ArrivedOf[u]
                               /\ MissingOf'[u] = MissingOf[u]
  BY SameView DEF CallingOff, Others
<1>4. PhaseOf' = [PhaseOf EXCEPT ![t] = "CALLED_OFF"]
  BY <1>1, <1>3 DEF PhaseOf
<1>5. AskedOf' = AskedOf /\ SentOf' = SentOf /\ ArrivedOf' = ArrivedOf /\ MissingOf' = MissingOf
  BY <1>1, <1>3 DEF AskedOf, SentOf, ArrivedOf, MissingOf
<1>6. QED
  BY <1>1, <1>2, <1>4, <1>5
     DEF Contract!CallOff, PhaseOf, AskedOf, SentOf, ArrivedOf, MissingOf

LEMMA TakeIsTake ==
    ASSUME Typed, Typed', NEW t \in XferIds, Taking(t)
    PROVE  Contract!Take(t)
<1>1. /\ PhaseOf[t] = "MOVING" /\ AskedOf'[t] = AskedOf[t] /\ SentOf'[t] = SentOf[t]
  BY DEF Taking, PhaseOf, AskedOf, SentOf, Phase
<1>2. \A u \in XferIds \ {t} : /\ PhaseOf'[u] = PhaseOf[u] /\ AskedOf'[u] = AskedOf[u]
                               /\ SentOf'[u] = SentOf[u] /\ ArrivedOf'[u] = ArrivedOf[u]
                               /\ MissingOf'[u] = MissingOf[u]
  BY SameView DEF Taking, Others
<1>3. \A k \in ItemKeys :
        /\ ArrivedOf[t][k] <= ArrivedOf'[t][k] /\ MissingOf[t][k] <= MissingOf'[t][k]
        /\ ArrivedOf'[t][k] + MissingOf'[t][k] <= SentOf[t][k]
  <2>1. Numbers(xfer[t]) /\ Numbers(xfer'[t])
    BY AllNumbers
  <2>2. QED
    BY <2>1 DEF Numbers, Taking, ArrivedOf, MissingOf, SentOf
<1>4. \E k \in ItemKeys : ArrivedOf[t][k] + MissingOf[t][k] < ArrivedOf'[t][k] + MissingOf'[t][k]
  <2>1. Numbers(xfer[t]) /\ Numbers(xfer'[t])
    BY AllNumbers
  <2>2. PICK k \in ItemKeys : xfer'[t].items[k].rec + xfer'[t].items[k].disc
                                 > xfer[t].items[k].rec + xfer[t].items[k].disc
    BY DEF Taking
  <2>3. QED
    BY <2>1, <2>2 DEF Numbers, ArrivedOf, MissingOf
<1> DEFINE over == \A k \in ItemKeys : ArrivedOf'[t][k] + MissingOf'[t][k] = SentOf[t][k]
<1>5. PhaseOf'[t] = IF over THEN "OVER" ELSE "MOVING"
  <2>1. over <=> \A k \in ItemKeys : Accounted(xfer'[t].items[k])
    BY DEF Taking, Accounted, ArrivedOf, MissingOf, SentOf
  <2>2. xfer'[t].status = IF over THEN "RECEIVED" ELSE "PARTIALLY_RECEIVED"
    BY <2>1 DEF Taking
  <2> HIDE DEF over
  <2>3. QED
    BY <2>2 DEF PhaseOf, Phase
<1>6. PhaseOf' = [PhaseOf EXCEPT ![t] = IF over THEN "OVER" ELSE "MOVING"]
  <2> HIDE DEF over
  <2>1. QED
    BY <1>2, <1>5 DEF PhaseOf
<1>7. AskedOf' = AskedOf /\ SentOf' = SentOf
  BY <1>1, <1>2 DEF AskedOf, SentOf
<1>8. ArrivedOf' \in [XferIds -> [ItemKeys -> Nat]] /\ MissingOf' \in [XferIds -> [ItemKeys -> Nat]]
  BY ViewTypes
<1>9. QED
  BY <1>1, <1>2, <1>3, <1>4, <1>6, <1>7, <1>8
     DEF Contract!Take, Contract!Units, PhaseOf, AskedOf, SentOf, ArrivedOf, MissingOf

LEMMA StepKeepsContract ==
    ASSUME Typed, Typed', TransferBalanced, TransferStep
    PROVE  [Contract!Next]_(Contract!cvars)
<1>1. CASE UNCHANGED xfer
  BY <1>1 DEF Contract!cvars
<1>2. ASSUME NEW T \in SUBSET XferIds, Asking(T)
      PROVE  Contract!Next
  BY <1>2, AskIsAsk DEF Contract!Next
<1>3. ASSUME NEW t \in XferIds, Sending(t) \/ Taking(t) \/ CallingOff(t)
      PROVE  Contract!Next
  BY <1>3, SendIsSend, TakeIsTake, CallOffIsCallOff DEF Contract!Next
<1>4. QED
  BY <1>1, <1>2, <1>3 DEF TransferStep

LEMMA InitKeepsContract == Init => Contract!Init
  BY DEF Init, Contract!Init, NoTransfer, NoItem, Item, Phase

\* inventory.service.ts implements the contract of a transfer: each one leaves
\* once, with all that was asked, is settled once, and is never reopened; with
\* whatever orders, requests and crashes around it.
THEOREM ContractKept == Spec => TransfersKeepContract
<1>1. TransfersKept /\ TransfersKept' /\ [Next]_vars => [Contract!Next]_(Contract!cvars)
  BY EveryStep, StepKeepsContract DEF TransfersKept
<1>2. QED
  BY <1>1, AlwaysKept, InitKeepsContract, PTL DEF Spec, TransfersKeepContract, Contract!Spec
=============================================================================
