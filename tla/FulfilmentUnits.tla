---------------------------- MODULE FulfilmentUnits ----------------------------
(* Machine-checked: where the units of Fulfilment are, for any number of      *)
(* stores, variants, orders, lines and rows, when the requests come one at a  *)
(* time.  What a line believes to be reserved is held for its order or on the *)
(* road to it, what an order delivers was paid for by stock that left, and no *)
(* unit is made or lost.  The invariants follow from the deeds of             *)
(* FulfilmentDeeds.                                                           *)
EXTENDS FulfilmentDeeds
-----------------------------------------------------------------------------
(* Lines, reservations and transfers go on being those of their orders.       *)

\* The store that an order was placed at.
LEMMA SourcesStay ==
    ASSUME Typed, TransfersKept, LocksHold, RequestsKnow, AllKnow, Next, NEW o \in Orders, Placed(o)
    PROVE  ord'[o].source = ord[o].source
<1>0. ord[o] \in OrderRow
  BY DEF Typed, TypeOK
<1>1. CASE WarehouseNext
  <2>1. \/ UNCHANGED ord
        \/ \E s \in Slots, t \in XferIds : ReceiveStockTransfer(s, t)
    BY <1>1 DEF WarehouseNext, CreateMovement, CreateReservation, ReconcileReservedStock,
       CreateStockTransfer, DispatchStockTransfer, CancelStockTransfer
  <2>2. ASSUME NEW s \in Slots, NEW t \in XferIds, ReceiveStockTransfer(s, t)
        PROVE  ord'[o].source = ord[o].source
    <3>1. ord' = ord \/ ord' = [ord EXCEPT ![xfer[t].ord].status = "PREPARING"]
      BY <2>2 DEF ReceiveStockTransfer
    <3>2. QED
      BY <1>0, <3>1 DEF Typed, TypeOK, OrderRow
  <2>3. QED
    BY <2>1, <2>2
<1>2. ASSUME NEW s \in Slots, DeskNext(s) \/ CreateOrderReview(s) PROVE ord'[o] = ord[o]
  <2>1. ASSUME NEW p \in Orders, CreateOrder(s, p) \/ CreateMarketplaceOrder(s, p) PROVE ord'[o] = ord[o]
    <3>1. o # p
      BY <2>1 DEF CreateOrder, CreateMarketplaceOrder
    <3>2. QED
      BY <2>1, <3>1, CreateOrderApart, CheckoutApart
  <2>2. QED
    BY <1>2, <2>1 DEF DeskNext, CreateOrderReview
<1>3. ASSUME NEW s \in Slots, StatusNext(s) PROVE ord'[o].source = ord[o].source
  <2>1. UNCHANGED ord \/ (Commits(s) /\ At(s, "status", "commit"))
    BY <1>3, CommitsLocked DEF StatusNext, UpdateStatusRead, UpdateStatusLock, tables, Commits, Locked
  <2>2. CASE Commits(s) /\ At(s, "status", "commit")
    <3>1. PICK p : p = req[s].ord /\ p \in Orders
      BY <2>2, StatusRequest
    <3>2. CASE CancelOrder(s) /\ req[s].picked
      <4>1. ord' = [ord EXCEPT ![p] = [WithSessionCancelled(ord[p]) EXCEPT !.status = "RETURN_PENDING"]]
        BY <3>1, <3>2 DEF CancelOrder
      <4>2. ord'[p].source = ord[p].source /\ OtherOrders(p)
        BY <3>1, <4>1 DEF WithSessionCancelled, OtherOrders, Typed, TypeOK, OrderRow
      <4>3. QED
        BY <4>2 DEF OtherOrders
    <3>3. CASE Settles(s)
      <4>1. Settling(p)
        BY <2>2, <3>1, <3>3, SettlesDoes DEF AllKnow, LocksHold, RequestsKnow, Locked, Delivering, Cancelling
      <4>2. QED
        BY <4>1 DEF Settling, OtherOrders
    <3>4. CASE ConfirmOrder(s) \/ MoveOrder(s)
      <4>1. \E status : ord' = [ord EXCEPT ![p].status = status]
        BY <3>1, <3>4 DEF ConfirmOrder, MoveOrder
      <4>2. QED
        BY <1>0, <4>1 DEF Typed, TypeOK, OrderRow
    <3>5. QED
      BY <2>2, <3>2, <3>3, <3>4 DEF Commits, Settles
  <2>3. QED
    BY <2>1, <2>2
<1>4. ASSUME NEW s \in Slots, LineNext(s) PROVE ord'[o].source = ord[o].source
  <2>1. UNCHANGED ord \/ ReserveWrite(s) \/ ShortageWrite(s)
    BY <1>4 DEF LineNext, ReserveRead, ReleaseRead, ShortageRead, ReleaseWrite, RegisterOrderReturn,
       tables
  <2>2. CASE ReserveWrite(s)
    <3>1. \E f : ord' = ord \/ ord' = [ord EXCEPT ![LineOrder[req[s].line]].fulfil = f]
      BY <2>2 DEF ReserveWrite
    <3>2. QED
      BY <1>0, <3>1 DEF Typed, TypeOK, OrderRow
  <2>3. CASE ShortageWrite(s)
    <3>1. \E next : ord' = ord \/ ord' = [ord EXCEPT ![LineOrder[req[s].line]].status = next]
      BY <2>3 DEF ShortageWrite
    <3>2. QED
      BY <1>0, <3>1 DEF Typed, TypeOK, OrderRow
  <2>4. QED
    BY <2>1, <2>2, <2>3
<1>5. ASSUME NEW s \in Slots, PickingNext(s) PROVE ord'[o].source = ord[o].source
  <2>1. \/ UNCHANGED ord
        \/ StartPickingSession(s) \/ StartPickingStatus(s) \/ SyncRead(s) \/ SyncWrite(s)
        \/ CompletePickingWrite(s)
    BY <1>5 DEF PickingNext, StartPickingRead, PickAllRead, CompletePickingRead, PickLineRead,
       PickWrite, FinishPickingTask, CountOpenPickingTasks, TaskRead, CompletePacking, tables
  <2>0. ord \in [Orders -> OrderRow]
    BY <1>0 DEF Typed, TypeOK
  <2>2. CASE StartPickingSession(s) \/ SyncRead(s)
    BY <2>0, <2>2 DEF StartPickingSession, SyncRead, OrderRow
  <2>3. CASE StartPickingStatus(s) \/ SyncWrite(s)
    BY <2>0, <2>3 DEF StartPickingStatus, SyncWrite, OrderRow
  <2>4. CASE CompletePickingWrite(s)
    <3>1. ord' = [ord EXCEPT ![req[s].ord].status = "READY", ![req[s].ord].session = "COMPLETED"]
      BY <2>4 DEF CompletePickingWrite
    <3>2. QED
      BY <1>0, <3>1 DEF Typed, TypeOK, OrderRow
  <2>5. QED
    BY <2>1, <2>2, <2>3, <2>4
<1>6. ASSUME NEW s \in Slots, Abort(s) PROVE ord'[o] = ord[o]
  BY <1>6 DEF Abort, tables
<1>7. QED
  BY <1>1, <1>2, <1>3, <1>4, <1>5, <1>6 DEF Next

\* What was ordered of a line.
QtyStays == \A l \in Lines : line[l].qty > 0 => line'[l].qty = line[l].qty

LEMMA QuantitiesStay ==
    ASSUME Typed, LinesPlaced, Deed PROVE QtyStays
<1>1. ASSUME NEW o \in Orders, NEW L, NEW q, Ordered(o, L, q) PROVE QtyStays
  BY <1>1 DEF QtyStays, Ordered, LinesPlaced
<1>2. CASE \E o \in Orders : \/ \E L, q, at : Sells(o, L, q, at)
                             \/ \E L, q, got, at, anchor : Promises(o, L, q, got, at, anchor)
  <2>1. ASSUME NEW o \in Orders, NEW L, NEW q, NEW at, Sells(o, L, q, at) PROVE Ordered(o, L, q)
    BY <2>1 DEF Sells
  <2>2. ASSUME NEW o \in Orders, NEW L, NEW q, NEW got, NEW at, NEW anchor, Promises(o, L, q, got, at, anchor)
        PROVE  Ordered(o, L, q)
    BY <2>2 DEF Promises
  <2>3. QED
    BY <1>1, <1>2, <2>1, <2>2
<1>3. CASE \E o \in Orders : Delivering(o) \/ Cancelling(o)
  BY <1>3 DEF Delivering, Cancelling, Settling, QtyStays
<1>4. CASE Calm \/ UNCHANGED line
  BY <1>4 DEF Calm, LinesRest, QtyStays
<1>5. CASE \E l, n : Reserves(l, n) \/ Releases(l, n)
  BY <1>5 DEF Reserves, Releases, OtherLines, QtyStays
<1>6. CASE \E t \in XferIds : Carries(t)
  BY <1>6 DEF Carries, QtyStays
<1>7. CASE \E t \in XferIds : \E disc : Arrives(t, disc)
  <2>1. PICK t \in XferIds : \E disc : Arrives(t, disc)
    BY <1>7
  <2>2. PICK disc : Arrives(t, disc)
    BY <2>1
  <2>3. line' = WithShortages(t, disc)
    BY <2>2 DEF Arrives
  <2>4. QED
    BY <2>3, ShortagesKeepQuantities DEF QtyStays
<1>8. QED
  BY <1>2, <1>3, <1>4, <1>5, <1>6, <1>7 DEF Deed

LEMMA LinesPlacedKept ==
    ASSUME Typed, LinesPlaced, Next PROVE LinesPlaced'
<1>1. SUFFICES ASSUME NEW l \in Lines, line'[l].qty > 0 PROVE Placed(LineOrder[l])'
  BY DEF LinesPlaced
<1>2. line'[l].qty = line[l].qty \/ Placed(LineOrder[l])'
  BY LineQuantities
<1>3. line'[l].qty = line[l].qty => Placed(LineOrder[l])
  BY <1>1 DEF LinesPlaced
<1>4. LineOrder[l] \in Orders
  BY ErpAssumption
<1>5. QED
  BY <1>2, <1>3, <1>4, OrdersStay DEF PlacedStays

\* Who holds the reservations.
ReservationsOfLines ==
    \A r \in ResIds : res[r].status = "ACTIVE" /\ res[r].ord \in Orders => OfLine(r)

LEMMA AnchorsKept ==
    ASSUME Typed, Deed PROVE Anchors
<1>1. ASSUME UNCHANGED res PROVE Anchors
  BY <1>1, RestingAnchors
<1>2. ASSUME NEW o \in Orders, NEW L, NEW q, NEW got, NEW at, NEW anchor,
             Promises(o, L, q, got, at, anchor)
      PROVE  Anchors
  <2>1. SUFFICES ASSUME NEW r \in ResIds, res'[r].status = "ACTIVE", res'[r].ord \in Orders
                 PROVE  SameHolder(r) \/ OfLine(r)'
    BY DEF Anchors
  <2>2. CASE res'[r] = res[r]
    BY <2>1, <2>2 DEF SameHolder
  <2>3. CASE res'[r].ord = o /\ \E k \in {l \in L : got[l] > 0} :
                                   res'[r].inv = at[k] /\ res'[r].line = anchor[k]
    <3>1. PICK k \in L : res'[r].inv = at[k] /\ res'[r].line = anchor[k]
      BY <2>3
    <3>2. /\ k \in Lines /\ LineOrder[k] = o /\ line'[k].qty > 0
          /\ at[k][2] = LineVariant[k]
          /\ anchor[k] = k \/ (anchor[k] = Null /\ at[k][1] = ord'[o].source)
      <4>1. Ordered(o, L, q)
        BY <1>2 DEF Promises
      <4>2. k \in Lines /\ LineOrder[k] = o /\ line'[k].qty > 0
        BY <4>1 DEF Ordered
      <4>3. QED
        BY <1>2, <4>2 DEF Promises
    <3>3. QED
      BY <2>3, <3>1, <3>2 DEF OfLine, LinesOf
  <2>4. QED
    BY <1>2, <2>1, <2>2, <2>3 DEF Promises, Gains
<1>3. CASE \E o \in Orders : Delivering(o) \/ Cancelling(o)
  BY <1>3 DEF Delivering, Cancelling, Settling
<1>4. QED
  BY <1>1, <1>2, <1>3 DEF Deed, Sells, Calm, Reserves, Releases, Carries, Arrives

LEMMA ReservationsOfLinesKept ==
    ASSUME Typed, TransfersKept, LocksHold, RequestsKnow, AllKnow, LinesPlaced, ReservationsOfLines,
           Next, Deed
    PROVE  ReservationsOfLines'
<1>1. SUFFICES ASSUME NEW r \in ResIds, res'[r].status = "ACTIVE", res'[r].ord \in Orders
               PROVE  OfLine(r)'
  BY DEF ReservationsOfLines
<1>2. SameHolder(r) \/ OfLine(r)'
  BY <1>1, AnchorsKept DEF Anchors
<1>3. CASE SameHolder(r)
  <2>1. PICK o : o = res[r].ord /\ o = res'[r].ord /\ o \in Orders
    BY <1>1, <1>3 DEF SameHolder
  <2>2. PICK l \in LinesOf(o) : /\ LineVariant[l] = res[r].inv[2]
                                /\ \/ res[r].line = l
                                   \/ res[r].line = Null /\ res[r].inv[1] = ord[o].source
    BY <1>3, <2>1 DEF SameHolder, ReservationsOfLines, OfLine
  <2>3. l \in Lines /\ LineOrder[l] = o /\ line[l].qty > 0
    BY <2>2 DEF LinesOf
  <2>4. line'[l].qty > 0
    BY <2>3, QuantitiesStay DEF QtyStays
  <2>5. ord'[o].source = ord[o].source
    BY <2>1, <2>3, SourcesStay DEF LinesPlaced
  <2>6. QED
    BY <1>3, <2>1, <2>2, <2>3, <2>4, <2>5 DEF SameHolder, OfLine, LinesOf
<1>4. QED
  BY <1>2, <1>3

\* What a step does to the transfers.
XferKind ==
    \/ UNCHANGED xfer
    \/ \E t \in XferIds : Follows(t)
    \/ \E T, o : NewlyAsked(T, o)

LEMMA XfersMove ==
    ASSUME TransfersKept, Deed PROVE XferKind
<1>1. ASSUME NEW o \in Orders, NEW L, NEW q, NEW got, NEW at, NEW anchor,
             Promises(o, L, q, got, at, anchor)
      PROVE  XferKind
  <2>1. UNCHANGED xfer \/ \E T : AsksFor(T, o, ord'[o].source)
    BY <1>1, RemoteTransfersDo DEF Promises
  <2>2. ord'[o].status \in {"WAITING_TRANSFER", "PENDING"}
    BY <1>1 DEF Promises
  <2>3. QED
    BY <2>1, <2>2 DEF XferKind, NewlyAsked
<1>2. CASE \E o \in Orders : Delivering(o) \/ Cancelling(o)
  BY <1>2 DEF Delivering, Cancelling, Settling, XferKind
<1>3. QED
  BY <1>1, <1>2 DEF Deed, XferKind, Sells, Calm, Reserves, Releases, Carries, Arrives

LEMMA TransfersOrderedKept ==
    ASSUME TransfersKept, TransfersOrdered, XferKind, Next PROVE TransfersOrdered'
<1>1. SUFFICES ASSUME NEW t \in XferIds, xfer'[t].ord # Null PROVE ord'[xfer'[t].ord].status # "ABSENT"
  BY DEF TransfersOrdered, ForOrder, Placed
<1>2. ASSUME xfer'[t].ord = xfer[t].ord PROVE ord'[xfer'[t].ord].status # "ABSENT"
  <2>1. Placed(xfer[t].ord)
    BY <1>1, <1>2 DEF TransfersOrdered, ForOrder
  <2>2. xfer[t].ord \in Orders
    BY <1>1, <1>2 DEF TransfersKept, Typed, TypeOK, TransferRow
  <2>3. PICK o \in Orders : o = xfer[t].ord
    BY <2>2
  <2>4. PlacedStays
    BY OrdersStay DEF TransfersKept
  <2>5. Placed(o)'
    BY <2>1, <2>3, <2>4 DEF PlacedStays
  <2>6. QED
    BY <1>2, <2>3, <2>5 DEF Placed
<1>3. ASSUME NEW T, NEW o, NewlyAsked(T, o) PROVE ord'[xfer'[t].ord].status # "ABSENT"
  <2>1. CASE t \in T
    <3>1. xfer'[t].ord = o /\ ord'[o].status \in {"WAITING_TRANSFER", "PENDING", "CONFIRMED"}
      BY <1>1, <1>3, <2>1 DEF NewlyAsked, AsksFor
    <3>2. QED
      BY <3>1 DEF Placed
  <2>2. CASE t \notin T
    <3>1. Others(T)
      BY <1>3 DEF NewlyAsked, AsksFor, Asking
    <3>2. xfer'[t] = xfer[t]
      BY <2>2, <3>1 DEF Others
    <3>3. QED
      BY <1>2, <3>2
  <2>3. QED
    BY <2>1, <2>2
<1>4. ASSUME NEW u \in XferIds, Follows(u) PROVE xfer'[t].ord = xfer[t].ord
  BY <1>4 DEF Follows, Others
<1>5. QED
  BY <1>2, <1>3, <1>4 DEF XferKind

LEMMA ItemsOfLinesKept ==
    ASSUME TransfersKept, ItemsOfLines, QtyStays, XferKind, ReservationsOfLines'
    PROVE  ItemsOfLines'
<1>1. SUFFICES ASSUME NEW t \in XferIds, xfer'[t].ord # Null,
                      NEW k \in ItemKeys, xfer'[t].items[k].qty > 0
               PROVE  \E l \in Lines : /\ l = xfer'[t].items[k].line
                                       /\ LineOrder[l] = xfer'[t].ord /\ line'[l].qty > 0
                                       /\ LineVariant[l] = xfer'[t].items[k].variant
  BY DEF ItemsOfLines, ForOrder, Items, LinesOf
<1>2. ASSUME xfer'[t].ord = xfer[t].ord, xfer'[t].items[k].qty = xfer[t].items[k].qty,
             k \in Items(t) => /\ xfer'[t].items[k].line = xfer[t].items[k].line
                               /\ xfer'[t].items[k].variant = xfer[t].items[k].variant
      PROVE  \E l \in Lines : /\ l = xfer'[t].items[k].line
                              /\ LineOrder[l] = xfer'[t].ord /\ line'[l].qty > 0
                              /\ LineVariant[l] = xfer'[t].items[k].variant
  <2>1. k \in Items(t) /\ ForOrder(t)
    BY <1>1, <1>2 DEF Items, ForOrder
  <2>2. /\ xfer[t].items[k].line \in LinesOf(xfer[t].ord)
        /\ LineVariant[xfer[t].items[k].line] = xfer[t].items[k].variant
    BY <2>1 DEF ItemsOfLines
  <2>3. QED
    BY <1>2, <2>1, <2>2 DEF LinesOf, QtyStays
<1>3. ASSUME NEW T, NEW o, NewlyAsked(T, o), t \in T
      PROVE  \E l \in Lines : /\ l = xfer'[t].items[k].line
                              /\ LineOrder[l] = xfer'[t].ord /\ line'[l].qty > 0
                              /\ LineVariant[l] = xfer'[t].items[k].variant
  <2>1. o \in Orders /\ AsksFor(T, o, ord'[o].source) /\ xfer'[t].ord = o
    BY <1>1, <1>3 DEF NewlyAsked, AsksFor
  <2>2. o # Null
    BY <2>1, ErpAssumption
  <2>3. /\ k \in ResIds /\ res'[k].status = "ACTIVE" /\ res'[k].ord = o
        /\ res'[k].inv[1] # ord'[o].source
        /\ xfer'[t].items[k].line = res'[k].line /\ xfer'[t].items[k].variant = res'[k].inv[2]
    BY <1>1, <1>3, <2>1, <2>2 DEF AsksFor
  <2>4. PICK l : /\ l \in Lines /\ LineOrder[l] = res'[k].ord /\ line'[l].qty > 0
                 /\ LineVariant[l] = res'[k].inv[2]
                 /\ \/ res'[k].line = l
                    \/ res'[k].line = Null /\ res'[k].inv[1] = ord'[res'[k].ord].source
    BY <2>1, <2>3 DEF ReservationsOfLines, OfLine, LinesOf
  <2>5. QED
    BY <2>1, <2>3, <2>4
<1>4. ASSUME NEW T, NEW o, NewlyAsked(T, o), t \notin T PROVE xfer'[t] = xfer[t]
  BY <1>4 DEF NewlyAsked, AsksFor, Asking, Others
<1>5. ASSUME NEW u \in XferIds, Follows(u)
      PROVE  /\ xfer'[t].ord = xfer[t].ord /\ xfer'[t].items[k].qty = xfer[t].items[k].qty
             /\ k \in Items(t) => /\ xfer'[t].items[k].line = xfer[t].items[k].line
                                  /\ xfer'[t].items[k].variant = xfer[t].items[k].variant
  BY <1>5 DEF Follows, Others
<1>6. QED
  BY <1>2, <1>3, <1>4, <1>5 DEF XferKind

LEMMA GatheredKept ==
    ASSUME TransfersKept, LocksHold, RequestsKnow, AllKnow, TransfersOrdered, Gathered, XferKind, Next
    PROVE  Gathered'
<1>1. SUFFICES ASSUME NEW o \in Orders, ord'[o].status \in {"READY", "DELIVERED"},
                      NEW t \in XferIds, xfer'[t].ord = o,
                      xfer'[t].status \notin {"ABSENT", "RECEIVED", "CANCELLED"}
               PROVE  FALSE
  BY DEF Gathered, MovingFor
<1>2. ~(xfer[t].ord = o /\ xfer[t].status \notin {"ABSENT", "RECEIVED", "CANCELLED"})
  BY <1>1, ReadyGathers DEF MovingFor, TransfersKept
<1>3. ASSUME NEW T, NEW p, NewlyAsked(T, p) PROVE FALSE
  <2>1. CASE t \in T
    <3>1. o = p
      BY <1>1, <1>3, <2>1 DEF NewlyAsked, AsksFor
    <3>2. o # Null
      BY ErpAssumption
    <3>3. QED
      BY <1>1, <1>3, <3>1, <3>2 DEF NewlyAsked
  <2>2. CASE t \notin T
    BY <1>1, <1>2, <1>3, <2>2 DEF NewlyAsked, AsksFor, Asking, Others
  <2>3. QED
    BY <2>1, <2>2
<1>4. ASSUME NEW u \in XferIds, Follows(u) PROVE FALSE
  BY <1>1, <1>2, <1>4 DEF Follows, Others
<1>5. QED
  BY <1>1, <1>2, <1>3, <1>4 DEF XferKind

\* A line that was not ordered has nothing reserved.
ZeroLines == \A l \in Lines : line[l].qty = 0 => line[l].reserved = 0

LEMMA ZeroLinesKept ==
    ASSUME TransfersKept, ItemsOfLines, ZeroLines, Deed PROVE ZeroLines'
<1>0. Typed
  BY DEF TransfersKept
<1>1. SUFFICES ASSUME NEW l \in Lines, line'[l].qty = 0 PROVE line'[l].reserved = 0
  BY DEF ZeroLines
<1>2. ASSUME line'[l].qty = line[l].qty, line'[l].reserved = line[l].reserved PROVE line'[l].reserved = 0
  BY <1>1, <1>2 DEF ZeroLines
<1>3. ASSUME NEW o \in Orders, NEW L, NEW q, Ordered(o, L, q) PROVE line'[l].reserved = 0
  BY <1>1, <1>2, <1>3 DEF Ordered
<1>4. CASE \E o \in Orders : \/ \E L, q, at : Sells(o, L, q, at)
                             \/ \E L, q, got, at, anchor : Promises(o, L, q, got, at, anchor)
  <2>1. ASSUME NEW o \in Orders, NEW L, NEW q, NEW at, Sells(o, L, q, at) PROVE Ordered(o, L, q)
    BY <2>1 DEF Sells
  <2>2. ASSUME NEW o \in Orders, NEW L, NEW q, NEW got, NEW at, NEW anchor, Promises(o, L, q, got, at, anchor)
        PROVE  Ordered(o, L, q)
    BY <2>2 DEF Promises
  <2>3. QED
    BY <1>3, <1>4, <2>1, <2>2
<1>5. CASE \E o \in Orders : Delivering(o) \/ Cancelling(o)
  BY <1>2, <1>5 DEF Delivering, Cancelling, Settling
<1>6. CASE Calm \/ UNCHANGED line
  BY <1>2, <1>6 DEF Calm, LinesRest
<1>7. ASSUME NEW m, NEW n, Reserves(m, n) \/ Releases(m, n) PROVE line'[l].reserved = 0
  BY <1>1, <1>2, <1>7 DEF Reserves, Releases, OtherLines
<1>8. CASE \E t \in XferIds : Carries(t)
  BY <1>2, <1>8 DEF Carries
<1>9. ASSUME NEW t \in XferIds, NEW disc, Arrives(t, disc) PROVE line'[l].reserved = 0
  <2>1. line' = WithShortages(t, disc)
    BY <1>9 DEF Arrives
  <2>2. PICK K : K = {k \in Items(t) : ForOrder(t) /\ xfer[t].items[k].line = l}
    OBVIOUS
  <2>3. line'[l].qty = line[l].qty /\ line'[l].reserved = line[l].reserved - Total(K, disc)
    BY <1>0, <2>1, <2>2, ShortagesKeepQuantities
  <2>4. K = {}
    BY <1>1, <2>2, <2>3 DEF ItemsOfLines, LinesOf
  <2>5. line[l].reserved = 0 /\ Total(K, disc) = 0
    BY <1>1, <2>3, <2>4, TotalEmpty DEF ZeroLines
  <2>6. QED
    BY <2>3, <2>5
<1>10. QED
  BY <1>4, <1>5, <1>6, <1>7, <1>8, <1>9 DEF Deed

-----------------------------------------------------------------------------
(* What the lines believe is there.                                          *)

\* An order has one line for a variant.
OneLine == \A l, m \in Lines :
               LineOrder[l] = LineOrder[m] /\ LineVariant[l] = LineVariant[m] => l = m

\* What a line of an order that goes on believes to be reserved is reserved for
\* its order, or on the road to it.
Backed(l) ==
    line[l].reserved = HeldFor(LineOrder[l], LineVariant[l]) + OnTheWayFor(LineOrder[l], LineVariant[l])
LineBacked ==
    \A l \in Lines : line[l].qty > 0 /\ ord[LineOrder[l]].status \notin Closed => Backed(l)

\* Nothing is held for a variant that an order has no line for.
LEMMA NoLineNoClaim ==
    ASSUME ReservationsOfLines, ItemsOfLines, NEW o \in Orders, NEW v,
           \A l \in Lines : LineOrder[l] = o /\ LineVariant[l] = v => ~(line[l].qty > 0)
    PROVE  HeldFor(o, v) = 0 /\ OnTheWayFor(o, v) = 0
<1>1. {r \in Active(o) : res[r].inv[2] = v} = {}
  BY DEF Active, ReservationsOfLines, OfLine, LinesOf
<1>2. MovingItems(o, v) = {}
  <2>1. SUFFICES ASSUME NEW p \in MovingItems(o, v) PROVE FALSE
    OBVIOUS
  <2>2. /\ p[1] \in XferIds /\ xfer[p[1]].ord = o /\ p[2] \in Items(p[1])
        /\ xfer[p[1]].items[p[2]].variant = v
    BY DEF MovingItems
  <2>3. ForOrder(p[1])
    BY <2>2, ErpAssumption DEF ForOrder
  <2>4. /\ xfer[p[1]].items[p[2]].line \in LinesOf(o)
        /\ LineVariant[xfer[p[1]].items[p[2]].line] = v
    BY <2>2, <2>3 DEF ItemsOfLines
  <2>5. QED
    BY <2>4 DEF LinesOf
<1>3. QED
  BY <1>1, <1>2, TotalEmpty DEF HeldFor, OnTheWayFor

ClosedKept == \A o \in Orders : ord[o].status \in Closed => ord'[o].status \in Closed

LEMMA LineBackedKept ==
    ASSUME OneLine, TransfersKept, TransfersKept', LinesPlaced, ReservationsOfLines, ItemsOfLines,
           LineBacked, QtyStays, ClosedKept, Deed
    PROVE  LineBacked'
<1>0. /\ Typed /\ Typed' /\ WayFacts /\ WayFacts'
  <2>1. WayFacts
    BY WaysAdded DEF TransfersKept
  <2>2. Typed' /\ TransferBalanced'
    BY DEF TransfersKept
  <2>3. QED
    BY <2>1, <2>2, WaysAddedNext DEF TransfersKept
<1>1. SUFFICES ASSUME NEW l \in Lines, line'[l].qty > 0, ord'[LineOrder[l]].status \notin Closed
               PROVE  Backed(l)'
  BY DEF LineBacked
<1>2. PICK o, v : o = LineOrder[l] /\ v = LineVariant[l] /\ o \in Orders
  BY ErpAssumption
<1>3. PICK h, w : h = HeldFor(o, v) /\ w = OnTheWayFor(o, v) /\ h \in Nat /\ w \in Nat
  BY <1>0, HeldIsNat DEF WayFacts
<1>4. PICK h1, w1 : h1 = HeldFor(o, v)' /\ w1 = OnTheWayFor(o, v)' /\ h1 \in Nat /\ w1 \in Nat
  BY <1>0, HeldIsNatNext DEF WayFacts
<1>5. line[l] \in LineRow /\ line[l].reserved \in Int /\ line[l].qty \in Nat
  BY <1>0 DEF Typed, TypeOK, LineRow
<1>6. SUFFICES line'[l].reserved = h1 + w1
  BY <1>2, <1>4 DEF Backed
<1>7. line[l].qty > 0 => line[l].reserved = h + w /\ line'[l].qty = line[l].qty
  BY <1>1, <1>2, <1>3 DEF LineBacked, Backed, ClosedKept, QtyStays
<1>8. ASSUME line'[l].qty = line[l].qty, line'[l].reserved = line[l].reserved, h1 + w1 = h + w
      PROVE  line'[l].reserved = h1 + w1
  BY <1>1, <1>7, <1>8
<1>9. UNCHANGED res => h1 = h
  BY <1>3, <1>4, HeldStays
<1>10. UNCHANGED xfer => w1 = w
  BY <1>3, <1>4 DEF OnTheWayFor, MovingItems, Items
<1>11. CASE Calm
  BY <1>8, <1>9, <1>10, <1>11 DEF Calm, LinesRest
<1>12. ASSUME NEW p \in Orders, NEW L, NEW q, NEW at, Sells(p, L, q, at)
       PROVE  line'[l].reserved = h1 + w1
  <2>1. l \notin L
    BY <1>1, <1>12 DEF Sells, Ordered, Closed
  <2>2. line'[l] = line[l]
    BY <1>12, <2>1 DEF Sells, Ordered
  <2>3. QED
    BY <1>8, <1>9, <1>10, <1>12, <2>2 DEF Sells
<1>13. ASSUME NEW p \in Orders, NEW L, NEW q, NEW got, NEW at, NEW anchor,
              Promises(p, L, q, got, at, anchor)
       PROVE  line'[l].reserved = h1 + w1
  <2>1. w1 = w
    <3>1. CASE UNCHANGED xfer
      BY <1>10, <3>1
    <3>2. CASE EnsureRemoteTransfers(res', p, ord'[p].source)
      <4>1. PICK T : AsksFor(T, p, ord'[p].source)
        BY <3>2, RemoteTransfersDo
      <4>2. QED
        BY <1>0, <1>3, <1>4, <4>1, AskedRest
    <3>3. QED
      BY <1>13, <3>1, <3>2 DEF Promises
  <2>2. PICK K : K = {k \in L : got[k] > 0}
    OBVIOUS
  <2>3. PICK S : S = {k \in K : at[k][2] = v}
    OBVIOUS
  <2>4. h1 = h + IF o = p THEN Total(S, got) ELSE 0
    BY <1>3, <1>4, <1>13, <2>2, <2>3 DEF Promises, Gains
  <2>5. Ordered(p, L, q)
    BY <1>13 DEF Promises
  <2>6. CASE l \in L
    <3>1. o = p /\ ~Placed(o)
      BY <1>2, <2>5, <2>6 DEF Ordered
    <3>2. h = 0 /\ w = 0
      BY <1>2, <1>3, <3>1, NoLineNoClaim DEF LinesPlaced
    <3>3. line'[l].reserved = got[l] /\ got[l] \in Nat
      BY <1>13, <2>6 DEF Promises
    <3>4. \A k \in L : k \in Lines /\ LineOrder[k] = o /\ at[k][2] = LineVariant[k]
      BY <1>13, <2>5, <3>1 DEF Ordered, Promises
    <3>5. \A k \in L : at[k][2] = v <=> k = l
      BY <1>2, <2>6, <3>4 DEF OneLine
    <3>6. CASE got[l] > 0
      <4>1. S = {l}
        BY <2>2, <2>3, <2>6, <3>5, <3>6
      <4>2. Total(S, got) = got[l]
        BY <3>3, <4>1, TotalOne
      <4>3. QED
        BY <2>1, <2>4, <3>1, <3>2, <3>3, <4>2
    <3>7. CASE ~(got[l] > 0)
      <4>1. S = {}
        BY <2>2, <2>3, <3>5, <3>7
      <4>2. Total(S, got) = 0
        BY <4>1, TotalEmpty
      <4>3. QED
        BY <2>1, <2>4, <3>1, <3>2, <3>3, <3>7, <4>2
    <3>8. QED
      BY <3>6, <3>7
  <2>7. CASE l \notin L
    <3>1. line'[l] = line[l]
      BY <2>5, <2>7 DEF Ordered
    <3>2. o # p
      BY <1>1, <1>2, <2>5, <3>1 DEF Ordered, LinesPlaced
    <3>3. QED
      BY <1>3, <1>8, <2>1, <2>4, <3>1, <3>2
  <2>8. QED
    BY <2>6, <2>7
<1>14. ASSUME NEW m, NEW n, Reserves(m, n) PROVE line'[l].reserved = h1 + w1
  <2>1. w1 = w
    BY <1>10, <1>14 DEF Reserves
  <2>2. h1 = h + IF o = LineOrder[m] /\ v = LineVariant[m] THEN n ELSE 0
    BY <1>3, <1>4, <1>14 DEF Reserves, HeldChanges
  <2>3. m \in Lines /\ n \in Nat
    BY <1>14 DEF Reserves
  <2>4. CASE l = m
    <3>1. line[l].qty > 0 /\ line'[l].reserved = line[l].reserved + n
      BY <1>14, <2>4 DEF Reserves
    <3>2. QED
      BY <1>2, <1>3, <1>7, <2>1, <2>2, <2>3, <2>4, <3>1
  <2>5. CASE l # m
    <3>1. line'[l] = line[l]
      BY <1>14, <2>5 DEF Reserves, OtherLines
    <3>2. ~(o = LineOrder[m] /\ v = LineVariant[m])
      BY <1>2, <2>3, <2>5 DEF OneLine
    <3>3. QED
      BY <1>3, <1>8, <2>1, <2>2, <3>1, <3>2
  <2>6. QED
    BY <2>4, <2>5
<1>15. ASSUME NEW m, NEW n, Releases(m, n) PROVE line'[l].reserved = h1 + w1
  <2>1. w1 = w
    BY <1>10, <1>15 DEF Releases
  <2>2. h1 = h + IF o = LineOrder[m] /\ v = LineVariant[m] THEN -n ELSE 0
    BY <1>3, <1>4, <1>15 DEF Releases, HeldChanges
  <2>3. m \in Lines /\ n \in Nat
    BY <1>15 DEF Releases
  <2>4. CASE l = m
    <3>1. line[l].qty > 0 /\ line'[l].reserved = line[l].reserved - n
      BY <1>15, <2>4 DEF Releases
    <3>2. QED
      BY <1>2, <1>3, <1>7, <2>1, <2>2, <2>3, <2>4, <3>1
  <2>5. CASE l # m
    <3>1. line'[l] = line[l]
      BY <1>15, <2>5 DEF Releases, OtherLines
    <3>2. ~(o = LineOrder[m] /\ v = LineVariant[m])
      BY <1>2, <2>3, <2>5 DEF OneLine
    <3>3. QED
      BY <1>3, <1>8, <2>1, <2>2, <3>1, <3>2
  <2>6. QED
    BY <2>4, <2>5
<1>16. ASSUME NEW p \in Orders, Settling(p), ord'[p].status \in Closed
       PROVE  line'[l].reserved = h1 + w1
  <2>1. o # p
    BY <1>1, <1>2, <1>16
  <2>2. h1 = h /\ w1 = w
    BY <1>3, <1>4, <1>10, <1>16, <2>1 DEF Settling
  <2>3. QED
    BY <1>8, <1>16, <2>2 DEF Settling
<1>17. ASSUME UNCHANGED <<inv, line, res>>, NEW T, NEW p, NewlyAsked(T, p)
       PROVE  line'[l].reserved = h1 + w1
  <2>1. PICK source : AsksFor(T, p, source)
    BY <1>17 DEF NewlyAsked
  <2>2. w1 = w
    BY <1>0, <1>3, <1>4, <2>1, AskedRest
  <2>3. QED
    BY <1>8, <1>9, <1>17, <2>2
<1>18. ASSUME NEW t \in XferIds, Carries(t) PROVE line'[l].reserved = h1 + w1
  BY <1>2, <1>3, <1>4, <1>8, <1>18 DEF Carries
<1>19. ASSUME NEW t \in XferIds, NEW disc, Arrives(t, disc) PROVE line'[l].reserved = h1 + w1
  <2>1. PICK A, K : A = ItemsFor(t, o, v) /\ K = {k \in Items(t) : ForOrder(t) /\ xfer[t].items[k].line = l}
    OBVIOUS
  <2>2. line' = WithShortages(t, disc)
    BY <1>19 DEF Arrives
  <2>3. line'[l].qty = line[l].qty /\ line'[l].reserved = line[l].reserved - Total(K, disc)
    BY <1>0, <2>1, <2>2, ShortagesKeepQuantities
  <2>4. h1 + w1 + Total(A, disc) = h + w
    BY <1>2, <1>3, <1>4, <1>19, <2>1 DEF Arrives
  <2>5. A = K
    <3>1. ASSUME NEW k \in Items(t), xfer[t].ord = o, xfer[t].items[k].variant = v
          PROVE  ForOrder(t) /\ xfer[t].items[k].line = l
      <4>1. ForOrder(t)
        BY <1>2, <3>1, ErpAssumption DEF ForOrder
      <4>2. /\ xfer[t].items[k].line \in LinesOf(o)
            /\ LineVariant[xfer[t].items[k].line] = v
        BY <3>1, <4>1 DEF ItemsOfLines
      <4>3. QED
        BY <1>2, <4>1, <4>2 DEF LinesOf, OneLine
    <3>2. ASSUME NEW k \in Items(t), ForOrder(t), xfer[t].items[k].line = l
          PROVE  xfer[t].ord = o /\ xfer[t].items[k].variant = v
      BY <1>2, <3>2 DEF ItemsOfLines, LinesOf
    <3>3. QED
      BY <2>1, <3>1, <3>2 DEF ItemsFor
  <2>6. Total(A, disc) \in Nat
    <3>1. \A k \in Items(t) : disc[k] \in Nat
      BY <1>19 DEF Arrives
    <3>2. QED
      BY <1>0, <2>1, <3>1, ItemSums
  <2>7. QED
    BY <1>1, <1>3, <1>4, <1>7, <2>3, <2>4, <2>5, <2>6
<1>20. QED
  BY <1>11, <1>12, <1>13, <1>14, <1>15, <1>16, <1>17, <1>18, <1>19
  DEF Deed, Delivering, Cancelling, Closed

-----------------------------------------------------------------------------
(* The invariant behind the lines.                                            *)

\* One request at a time, an order has one line for a variant, and nobody reserves
\* by hand.
PlainCalls == Alone /\ OneLine /\ "reservation" \notin Endpoints

Backing ==
    /\ LinesPlaced /\ ZeroLines /\ ReservationsOfLines /\ ItemsOfLines
    /\ TransfersOrdered /\ Gathered /\ LineBacked
Books == TransfersKept /\ BooksHold /\ AllKnow /\ Backing

LEMMA InitBacking == Init => Backing
<1> SUFFICES ASSUME Init PROVE Backing
  OBVIOUS
<1>1. LinesPlaced /\ ZeroLines /\ LineBacked
  BY DEF Init, NoLine, LinesPlaced, ZeroLines, LineBacked
<1>2. ReservationsOfLines
  BY DEF Init, NoReservation, ReservationsOfLines
<1>3. ItemsOfLines /\ TransfersOrdered
  BY ErpAssumption DEF Init, NoTransfer, ItemsOfLines, TransfersOrdered, ForOrder
<1>4. Gathered
  BY DEF Init, NoOrder, Gathered
<1>5. QED
  BY <1>1, <1>2, <1>3, <1>4 DEF Backing

LEMMA BackingSame ==
    ASSUME Backing, UNCHANGED vars PROVE Backing'
<1>1. (LinesPlaced /\ ZeroLines)'
  BY DEF vars, Backing, LinesPlaced, ZeroLines, Placed
<1>2. ReservationsOfLines'
  BY DEF vars, Backing, ReservationsOfLines, OfLine, LinesOf
<1>3. ItemsOfLines' /\ TransfersOrdered'
  BY DEF vars, Backing, ItemsOfLines, TransfersOrdered, ForOrder, Items, LinesOf, Placed
<1>4. Gathered'
  BY DEF vars, Backing, Gathered, MovingFor
<1>5. LineBacked'
  <2>1. UNCHANGED <<ord, line, res, xfer>>
    BY DEF vars
  <2>2. \A o, v : HeldFor(o, v)' = HeldFor(o, v)
    BY <2>1, HeldStays
  <2>3. \A o, v : MovingItems(o, v)' = MovingItems(o, v)
    BY <2>1 DEF MovingItems, Items
  <2>4. \A o, v : OnTheWayFor(o, v)' = OnTheWayFor(o, v)
    BY <2>1, <2>3, Zenon DEF OnTheWayFor
  <2>5. QED
    BY <2>1, <2>2, <2>4 DEF Backing, LineBacked, Backed
<1>6. QED
  BY <1>1, <1>2, <1>3, <1>4, <1>5 DEF Backing

\* What is known of a step that keeps the books.
Keeps ==
    /\ Typed /\ Typed' /\ TransfersKept /\ TransfersKept' /\ LocksHold /\ RequestsKnow
    /\ Deed /\ QtyStays /\ ClosedKept /\ XferKind

LEMMA NextDeeds ==
    ASSUME PlainCalls, Books, Next PROVE Keeps
<1>1. TransfersKept /\ BooksHold /\ AllKnow /\ Backing /\ Typed /\ LocksHold /\ RequestsKnow
  BY DEF Books, TransfersKept, BooksHold
<1>2. TransfersKept' /\ Typed'
  BY <1>1, NextKept DEF TransfersKept
<1>3. Deed
  BY <1>1, <1>2, DeedDone DEF PlainCalls, Backing
<1>4. QtyStays
  BY <1>1, <1>3, QuantitiesStay DEF Backing
<1>5. ClosedKept
  <2>1. AllFresh /\ Alone
    BY <1>1 DEF BooksHold, PlainCalls
  <2>2. \A o \in Orders : ord[o].status \in Closed => ord'[o].status = ord[o].status
    BY <1>1, <2>1, ClosedStays
  <2>3. QED
    BY <2>2 DEF ClosedKept
<1>6. XferKind
  BY <1>1, <1>3, XfersMove
<1>7. QED
  BY <1>1, <1>2, <1>3, <1>4, <1>5, <1>6 DEF Keeps

LEMMA NextBacking ==
    ASSUME PlainCalls, Books, Next PROVE Backing'
<1>1. Keeps
  BY NextDeeds
<1>2. TransfersKept /\ AllKnow /\ Backing /\ Typed /\ LocksHold /\ RequestsKnow
  BY DEF Books, TransfersKept, BooksHold
<1>3. LinesPlaced'
  BY <1>1, <1>2, LinesPlacedKept DEF Backing
<1>4. ZeroLines'
  BY <1>1, <1>2, ZeroLinesKept DEF Backing, Keeps
<1>5. ReservationsOfLines'
  BY <1>1, <1>2, ReservationsOfLinesKept DEF Backing, Keeps
<1>6. ItemsOfLines'
  BY <1>1, <1>2, <1>5, ItemsOfLinesKept DEF Backing, Keeps
<1>7. TransfersOrdered'
  BY <1>1, <1>2, TransfersOrderedKept DEF Backing, Keeps
<1>8. Gathered'
  BY <1>1, <1>2, GatheredKept DEF Backing, Keeps
<1>9. LineBacked'
  BY <1>1, <1>2, LineBackedKept DEF Backing, Keeps, PlainCalls
<1>10. QED
  BY <1>3, <1>4, <1>5, <1>6, <1>7, <1>8, <1>9 DEF Backing

LEMMA InitBooks == Init => Books
<1> SUFFICES ASSUME Init PROVE Books
  OBVIOUS
<1>1. AllKnow
  BY DEF Init, AllKnow, KnowsOrder, Idle
<1>2. QED
  BY <1>1, InitKept, InitBooked, InitBacking DEF Books

LEMMA NextBooks ==
    ASSUME PlainCalls, Books, [Next]_vars PROVE Books'
<1>1. TransfersKept /\ BooksHold /\ AllKnow /\ Backing /\ Typed
  BY DEF Books, TransfersKept
<1>2. TransfersKept'
  BY <1>1, NextKept
<1>3. BooksHold'
  BY <1>1, BooksKept DEF PlainCalls, ReleaseApart
<1>4. AllKnow'
  BY <1>1, NextKnows DEF PlainCalls
<1>5. Backing'
  BY <1>1, NextBacking, BackingSame
<1>6. QED
  BY <1>2, <1>3, <1>4, <1>5 DEF Books

LEMMA AlwaysBooks ==
    ASSUME PlainCalls PROVE Spec => []Books
<1>1. Books /\ [Next]_vars => Books'
  BY NextBooks
<1>2. QED
  BY <1>1, InitBooks, PTL DEF Spec

\* The lines of an order of one variant are one line, or none.
LEMMA LinesWithOne ==
    ASSUME OneLine, NEW o, NEW v
    PROVE  LinesWith(o, v) = {} \/ \E l \in Lines : LinesWith(o, v) = {l}
  BY DEF OneLine, LinesWith, LinesOf

LEMMA LinesAreBacked ==
    ASSUME OneLine, TransfersKept, Backing PROVE LinesBacked
<1> SUFFICES ASSUME NEW o \in Orders, NEW v \in Variants, ord[o].status \notin Closed
             PROVE  Total(LinesWith(o, v), ReservedUnits) = HeldFor(o, v) + OnTheWayFor(o, v)
  BY DEF LinesBacked
<1>1. CASE LinesWith(o, v) = {}
  <2>1. Total(LinesWith(o, v), ReservedUnits) = 0
    BY <1>1, TotalEmpty, Zenon
  <2>2. HeldFor(o, v) = 0 /\ OnTheWayFor(o, v) = 0
    <3>1. \A l \in Lines : LineOrder[l] = o /\ LineVariant[l] = v => ~(line[l].qty > 0)
      BY <1>1 DEF LinesWith, LinesOf
    <3>2. QED
      BY <3>1, NoLineNoClaim DEF Backing
  <2>3. QED
    BY <2>1, <2>2
<1>2. ASSUME NEW l \in Lines, LinesWith(o, v) = {l}
      PROVE  Total(LinesWith(o, v), ReservedUnits) = HeldFor(o, v) + OnTheWayFor(o, v)
  <2>1. l \in LinesOf(o) /\ LineOrder[l] = o /\ LineVariant[l] = v /\ line[l].qty > 0
    BY <1>2 DEF LinesWith, LinesOf
  <2>2. line[l].reserved = HeldFor(o, v) + OnTheWayFor(o, v)
    BY <2>1 DEF Backing, LineBacked, Backed
  <2>3. HeldFor(o, v) \in Nat
    BY HeldIsNat DEF TransfersKept
  <2>4. OnTheWayFor(o, v) \in Nat
    BY WaysAdded DEF WayFacts, TransfersKept
  <2>5. line[l].reserved \in Nat /\ ReservedUnits[l] = line[l].reserved
    BY <2>2, <2>3, <2>4 DEF ReservedUnits
  <2>6. Total({l}, ReservedUnits) = ReservedUnits[l]
    BY <2>5, TotalOne
  <2>7. QED
    BY <1>2, <2>2, <2>5, <2>6
<1>3. QED
  BY <1>1, <1>2, LinesWithOne

-----------------------------------------------------------------------------
(* The stock pays for what is delivered.                                      *)

\* Nothing is on the way to an order that is READY.
LEMMA NothingOnTheWay ==
    ASSUME TransfersKept, NEW o \in Orders, MovingFor(o) = {}, NEW v
    PROVE  OnTheWayFor(o, v) = 0
<1>1. WayFacts
  BY WaysAdded DEF TransfersKept
<1>2. ASSUME NEW t \in XferIds PROVE Ways(o, v)[t] = 0
  <2>1. Ways(o, v)[t] = RowWay(xfer[t], o, v)
    BY <1>1 DEF WayFacts
  <2>2. CASE xfer[t].ord = o
    <3>1. xfer[t].status \in {"ABSENT", "RECEIVED", "CANCELLED"}
      BY <2>2 DEF MovingFor
    <3>2. QED
      BY <1>1, <2>1, <3>1 DEF WayFacts, Resting
  <2>3. CASE xfer[t].ord # o
    <3>1. WayItems(xfer[t], o, v) = {}
      BY <2>3 DEF WayItems
    <3>2. RowWay(xfer[t], o, v) = 0
      BY <3>1, TotalEmpty, Zenon DEF RowWay
    <3>3. QED
      BY <2>1, <3>2
  <2>4. QED
    BY <2>2, <2>3
<1>3. Total(XferIds, Ways(o, v)) = 0
  BY <1>1, <1>2, TotalZero DEF WayFacts
<1>4. QED
  BY <1>1, <1>3 DEF WayFacts

\* What leaves the inventories of a variant with an order is what is held for it.
LEMMA DeliveredStock ==
    ASSUME Typed, Typed', NEW o \in Orders, Delivering(o), NEW v \in Variants
    PROVE  /\ Stock(inv, v) = Stock(inv', v) + HeldFor(o, v)
           /\ Stock(inv', v) \in Nat /\ HeldFor(o, v) \in Nat
<1> DEFINE part(z) == {r \in Active(o) : res[r].inv = <<z, v>>}
           n == [z \in Stores |-> Total(part(z), Quantities)]
           g == [r \in HeldRows(o, v) |-> res[r].inv[1]]
           before == [z \in Stores |-> inv[<<z, v>>].stock]
           after == [z \in Stores |-> inv'[<<z, v>>].stock]
           classes == ByClass(HeldRows(o, v), Quantities, Stores, g)
<1>1. /\ Summed(HeldRows(o, v), Quantities) /\ HeldRows(o, v) \subseteq ResIds
      /\ HeldFor(o, v) = Total(HeldRows(o, v), Quantities) /\ HeldFor(o, v) \in Nat
  BY HeldIsNat
<1>2. \A r \in HeldRows(o, v) : g[r] \in Stores /\ res[r].inv = <<g[r], v>>
  BY <1>1 DEF HeldRows, Active, Typed, ReservationsPlaced, Inventories
<1>3. IsFiniteSet(Stores)
  BY ErpAssumption
<1>4. /\ \A z \in Stores : classes[z] \in Nat
      /\ Total(Stores, classes) = Total(HeldRows(o, v), Quantities)
  <2> HIDE DEF g
  <2>1. QED
    BY <1>1, <1>2, <1>3, TotalByClass
<1>5. ASSUME NEW z \in Stores PROVE n[z] = classes[z]
  <2>1. Class(HeldRows(o, v), g, z) = part(z)
    <3>1. part(z) \subseteq HeldRows(o, v)
      BY DEF HeldRows
    <3>2. HeldRows(o, v) \subseteq Active(o)
      BY DEF HeldRows
    <3> HIDE DEF g
    <3>3. QED
      BY <1>2, <3>1, <3>2 DEF Class
  <2>2. classes[z] = Total(Class(HeldRows(o, v), g, z), Quantities)
    BY DEF ByClass
  <2>3. QED
    BY <2>1, <2>2
<1>6. ASSUME NEW z \in Stores
      PROVE  before[z] = after[z] + n[z] /\ after[z] \in Nat /\ n[z] \in Nat
  <2>1. <<z, v>> \in Inventories
    BY DEF Inventories
  <2>2. inv[<<z, v>>].stock \in Nat /\ inv'[<<z, v>>].stock \in Nat
    BY <2>1 DEF Typed, TypeOK, InventoryRow
  <2>3. inv'[<<z, v>>].stock = inv[<<z, v>>].stock - Total(part(z), Quantities)
    BY <2>1 DEF Delivering
  <2>4. n[z] \in Nat
    BY <1>4, <1>5
  <2>5. n[z] = Total(part(z), Quantities)
    OBVIOUS
  <2>6. QED
    BY <2>2, <2>3, <2>4, <2>5
<1>7. Total(Stores, before) = Total(Stores, after) + Total(Stores, n)
  <2> HIDE DEF before, after, n
  <2>1. QED
    BY <1>3, <1>6, TotalPlus
<1>8. Total(Stores, n) = Total(Stores, classes)
  <2> HIDE DEF n, classes
  <2>1. QED
    BY <1>5, TotalSame
<1>9. Total(Stores, after) \in Nat
  <2>1. ASSUME NEW z \in Stores PROVE after[z] \in Int
    <3>1. after[z] \in Nat
      BY <1>6
    <3>2. QED
      BY <3>1
  <2> HIDE DEF after
  <2>2. QED
    BY <1>3, <2>1, TotalIsNat
<1>10. QED
  BY <1>1, <1>4, <1>7, <1>8, <1>9 DEF Stock

\* An order that was placed before becomes DELIVERED in one way only.
LEMMA BecomesByDelivery ==
    ASSUME Deed, NEW o \in Orders, ord'[o].status = "DELIVERED",
           ord[o].status \notin {"ABSENT", "DELIVERED"}
    PROVE  Delivering(o)
<1>1. ASSUME NEW p \in Orders, NEW L, NEW q, NEW at, Sells(p, L, q, at) PROVE FALSE
  BY <1>1 DEF Sells, Ordered, Placed
<1>2. ASSUME NEW p \in Orders, Delivering(p) PROVE Delivering(o)
  BY <1>2 DEF Delivering, Settling, OtherOrders
<1>3. QED
  BY <1>1, <1>2 DEF Deed, NoneDelivered

PaidFor(o, v) ==
    ord'[o].status = "DELIVERED" /\ ord[o].status \notin {"ABSENT", "DELIVERED"} =>
        Stock(inv, v) - Stock(inv', v) >= Total(LinesWith(o, v), [l \in Lines |-> Demand(l)])

LEMMA DeliveryPays ==
    ASSUME PlainCalls, Books, Next, NEW o \in Orders, NEW v \in Variants PROVE PaidFor(o, v)
<1> SUFFICES ASSUME ord'[o].status = "DELIVERED", ord[o].status \notin {"ABSENT", "DELIVERED"}
             PROVE  Stock(inv, v) - Stock(inv', v) >= Total(LinesWith(o, v), [l \in Lines |-> Demand(l)])
  BY DEF PaidFor
<1> DEFINE owed == [l \in Lines |-> Demand(l)]
<1>1. Keeps
  BY NextDeeds
<1>2. Delivering(o)
  BY <1>1, BecomesByDelivery DEF Keeps
<1>3. /\ Stock(inv, v) = Stock(inv', v) + HeldFor(o, v)
      /\ Stock(inv', v) \in Nat /\ HeldFor(o, v) \in Nat
  BY <1>1, <1>2, DeliveredStock DEF Keeps
<1>4. Total(LinesWith(o, v), owed) <= HeldFor(o, v)
  <2>1. CASE LinesWith(o, v) = {}
    <3>1. Total(LinesWith(o, v), owed) = 0
      BY <2>1, TotalEmpty, Zenon
    <3>2. QED
      BY <1>3, <3>1
  <2>2. ASSUME NEW l \in Lines, LinesWith(o, v) = {l}
        PROVE  Total(LinesWith(o, v), owed) <= HeldFor(o, v)
    <3>1. l \in LinesOf(o) /\ LineOrder[l] = o /\ LineVariant[l] = v /\ line[l].qty > 0
      BY <2>2 DEF LinesWith, LinesOf
    <3>2. ord[o].status = "READY" /\ Covered(o)
      BY <1>2 DEF Delivering
    <3>3. line[l].reserved = HeldFor(o, v) + OnTheWayFor(o, v)
      BY <3>1, <3>2 DEF Books, Backing, LineBacked, Backed, Closed
    <3>4. OnTheWayFor(o, v) = 0
      BY <3>2, NothingOnTheWay DEF Books, Backing, Gathered
    <3>5. Demand(l) <= line[l].reserved
      <4>1. line[l].qty \in Nat /\ line[l].shortage \in Nat /\ line[l].reserved \in Int
        BY <1>1 DEF Keeps, Typed, TypeOK, LineRow
      <4>2. QED
        BY <3>1, <3>2, <4>1 DEF Covered, Demand, Greatest
    <3>6. owed[l] = Demand(l) /\ Demand(l) \in Nat
      BY <1>1 DEF Keeps, Typed, TypeOK, LineRow, Demand, Greatest
    <3>7. Total({l}, owed) = owed[l]
      BY <3>6, TotalOne
    <3>8. QED
      BY <1>3, <2>2, <3>3, <3>4, <3>5, <3>6, <3>7
  <2>3. QED
    BY <2>1, <2>2, LinesWithOne DEF PlainCalls
<1>5. Total(LinesWith(o, v), owed) \in Int
  <2>1. LinesWith(o, v) \subseteq Lines /\ IsFiniteSet(Lines)
    BY ErpAssumption DEF LinesWith, LinesOf
  <2>2. IsFiniteSet(LinesWith(o, v))
    BY <2>1, FS_Subset
  <2>3. \A l \in LinesWith(o, v) : owed[l] \in Int
    BY <1>1, <2>1 DEF Keeps, Typed, TypeOK, LineRow, Demand, Greatest
  <2>4. QED
    BY <2>2, <2>3, TotalIsNat
<1>6. QED
  BY <1>3, <1>4, <1>5

\* The stock pays for what is delivered: when an order becomes DELIVERED the units
\* of each variant that leave the inventories are at least those its lines owe,
\* because assertOrderItemsCoveredByReservations() asks the lines, and with one line
\* for a variant and nothing on the way the lines know what is held for the order.
THEOREM DeliveryAlwaysPaid ==
    ASSUME PlainCalls
    PROVE  Spec => DeliveryIsPaid
<1>1. Books /\ [Next]_vars =>
        [\A o \in Orders, v \in Variants :
           ord'[o].status = "DELIVERED" /\ ord[o].status \notin {"ABSENT", "DELIVERED"} =>
               Stock(inv, v) - Stock(inv', v) >=
                   Total(LinesWith(o, v), [l \in Lines |-> Demand(l)])]_<<inv, ord>>
  BY DeliveryPays DEF PaidFor, vars
<1>2. QED
  BY <1>1, AlwaysBooks, PTL DEF Spec, DeliveryIsPaid

-----------------------------------------------------------------------------
(* What comes back from the customers.                                        *)

\* Who writes a line.
LEMMA LineWrites ==
    ASSUME Next
    PROVE  \/ UNCHANGED line
           \/ \E s \in Slots, o \in Orders : CreateOrder(s, o) \/ CreateMarketplaceOrder(s, o)
           \/ \E s \in Slots : ReserveWrite(s) \/ ReleaseWrite(s) \/ ShortageWrite(s)
           \/ \E s \in Slots, o \in Orders : RegisterOrderReturn(s, o)
           \/ \E s \in Slots : StartPickingSession(s) \/ PickWrite(s)
           \/ \E s \in Slots, t \in XferIds : ReceiveStockTransfer(s, t)
<1>1. CASE WarehouseNext
  BY <1>1 DEF WarehouseNext, CreateMovement, CreateReservation, ReconcileReservedStock,
     CreateStockTransfer, DispatchStockTransfer, CancelStockTransfer
<1>2. ASSUME NEW s \in Slots, DeskNext(s) \/ CreateOrderReview(s)
      PROVE  UNCHANGED line \/ \E o \in Orders : CreateOrder(s, o) \/ CreateMarketplaceOrder(s, o)
  BY <1>2 DEF DeskNext, CreateOrderReview
<1>3. ASSUME NEW s \in Slots, StatusNext(s) PROVE UNCHANGED line
  BY <1>3 DEF StatusNext, UpdateStatusRead, UpdateStatusLock, tables, ConfirmOrder, CancelOrder,
     CompleteReturn, DeliverOrder, MoveOrder
<1>4. ASSUME NEW s \in Slots, LineNext(s)
      PROVE  \/ UNCHANGED line
             \/ ReserveWrite(s) \/ ReleaseWrite(s) \/ ShortageWrite(s)
             \/ \E o \in Orders : RegisterOrderReturn(s, o)
  BY <1>4 DEF LineNext, ReserveRead, ReleaseRead, ShortageRead, tables
<1>5. ASSUME NEW s \in Slots, PickingNext(s)
      PROVE  UNCHANGED line \/ StartPickingSession(s) \/ PickWrite(s)
  BY <1>5 DEF PickingNext, StartPickingRead, PickAllRead, CompletePickingRead, PickLineRead,
     StartPickingStatus, SyncRead, SyncWrite, CompletePickingWrite,
     FinishPickingTask, CountOpenPickingTasks, TaskRead, CompletePacking, tables
<1>6. ASSUME NEW s \in Slots, Abort(s) PROVE UNCHANGED line
  BY <1>6 DEF Abort, tables
<1>7. QED
  BY <1>1, <1>2, <1>3, <1>4, <1>5, <1>6 DEF Next

\* A line of a new order starts with nothing returned.
LEMMA NewLines ==
    ASSUME Typed, NEW s \in Slots, NEW o \in Orders,
           CreateOrder(s, o) \/ CreateMarketplaceOrder(s, o), NEW l \in Lines
    PROVE  line'[l] = line[l] \/ line'[l].returned = 0
<1>1. CASE CreateOrder(s, o)
  <2>1. PICK channel \in {"POS", "INTERNAL"}, source \in Stores,
             L \in (SUBSET {m \in Lines : LineOrder[m] = o}) \ {{}} :
          \E q \in [L -> 1..MaxQty], store \in [L -> Stores], chosen \in Stores \union {Null} :
            PlaceOrder(o, channel, source, L, q, store, chosen)
    BY <1>1 DEF CreateOrder
  <2>2. PICK q \in [L -> 1..MaxQty], store \in [L -> Stores], chosen \in Stores \union {Null} :
          PlaceOrder(o, channel, source, L, q, store, chosen)
    BY <2>1
  <2>3. \E a, b, c, d : line'[l] = line[l]
            \/ line'[l] = [NoLine EXCEPT !.qty = a, !.reserved = b, !.store = c, !.picked = d]
    BY <2>2 DEF PlaceOrder
  <2>4. QED
    BY <2>3 DEF NoLine
<1>2. CASE CreateMarketplaceOrder(s, o)
  <2>1. PICK source \in Stores, L \in (SUBSET {m \in Lines : LineOrder[m] = o}) \ {{}},
             auto \in BOOLEAN :
          \E q \in [L -> 1..MaxQty] : PlaceMarketplaceOrder(o, source, L, q, auto)
    BY <1>2 DEF CreateMarketplaceOrder
  <2>2. PICK q : PlaceMarketplaceOrder(o, source, L, q, auto)
    BY <2>1
  <2> DEFINE at == [k \in L |-> <<source, LineVariant[k]>>]
             before(k) == Total({m \in L : m < k /\ LineVariant[m] = LineVariant[k]}, q)
             got == [k \in L |-> IF auto
                                 THEN Least(q[k], Greatest(0, Available(at[k]) - before(k)))
                                 ELSE 0]
  <2>3. line' = [k \in Lines |->
                   IF k \in L THEN [NoLine EXCEPT !.qty = q[k], !.reserved = got[k]] ELSE line[k]]
    BY <2>2 DEF PlaceMarketplaceOrder
  <2> HIDE DEF got
  <2>4. line'[l] = line[l] \/ line'[l] = [NoLine EXCEPT !.qty = q[l], !.reserved = got[l]]
    BY <2>3
  <2>5. QED
    BY <2>4 DEF NoLine
<1>3. QED
  BY <1>1, <1>2

\* A line with as much ordered and declared short as before, and no more returned.
LEMMA SameReturned ==
    ASSUME ReturnsWithinDelivered, NEW l \in Lines,
           line'[l].qty = line[l].qty, line'[l].shortage = line[l].shortage,
           line'[l].returned = line[l].returned
    PROVE  line'[l].returned <= Demand(l)'
  BY DEF ReturnsWithinDelivered, Demand

LEMMA ReturnsKept ==
    ASSUME Typed, Typed', ReturnsWithinDelivered, Next PROVE ReturnsWithinDelivered'
<1>0. ASSUME NEW l \in Lines PROVE line[l] \in LineRow
  BY LineType
<1>1. CASE UNCHANGED line
  BY <1>1 DEF ReturnsWithinDelivered, Demand
<1>2. ASSUME NEW s \in Slots, NEW o \in Orders, CreateOrder(s, o) \/ CreateMarketplaceOrder(s, o)
      PROVE  ReturnsWithinDelivered'
  <2>1. ASSUME NEW l \in Lines PROVE line'[l].returned <= Demand(l)'
    <3>1. line'[l] = line[l] \/ line'[l].returned = 0
      BY <1>2, NewLines
    <3>2. Demand(l)' \in Nat
      BY DEF Typed, TypeOK, LineRow, Demand, Greatest
    <3>3. CASE line'[l] = line[l]
      BY <3>3, SameReturned
    <3>4. CASE line'[l].returned = 0
      BY <3>2, <3>4
    <3>5. QED
      BY <3>1, <3>3, <3>4
  <2>2. QED
    BY <2>1 DEF ReturnsWithinDelivered
<1>3. ASSUME NEW s \in Slots, ReserveWrite(s) \/ ReleaseWrite(s) PROVE ReturnsWithinDelivered'
  <2>1. ASSUME NEW l \in Lines PROVE line'[l].returned <= Demand(l)'
    <3>1. CASE ReserveWrite(s)
      <4>1. \E k, a, b : line' = [line EXCEPT ![k].reserved = a, ![k].store = b]
        BY <3>1 DEF ReserveWrite
      <4>2. /\ line'[l].qty = line[l].qty /\ line'[l].shortage = line[l].shortage
            /\ line'[l].returned = line[l].returned
        BY <1>0, <4>1 DEF LineRow, Typed, TypeOK
      <4>3. QED
        BY <4>2, SameReturned
    <3>2. CASE ReleaseWrite(s)
      <4>1. \E k, a, b : line' = [line EXCEPT ![k].reserved = a, ![k].picked = b]
        BY <3>2 DEF ReleaseWrite
      <4>2. /\ line'[l].qty = line[l].qty /\ line'[l].shortage = line[l].shortage
            /\ line'[l].returned = line[l].returned
        BY <1>0, <4>1 DEF LineRow, Typed, TypeOK
      <4>3. QED
        BY <4>2, SameReturned
    <3>3. QED
      BY <1>3, <3>1, <3>2
  <2>2. QED
    BY <2>1 DEF ReturnsWithinDelivered
<1>4. ASSUME ReturnsSound(line') PROVE ReturnsWithinDelivered'
  BY <1>4 DEF ReturnsSound, ReturnsWithinDelivered, Demand
<1>5. ASSUME NEW s \in Slots, NEW o \in Orders, RegisterOrderReturn(s, o)
      PROVE  ReturnsWithinDelivered'
  <2>1. PICK L \in (SUBSET LinesOf(o)) \ {{}} : \E q \in [L -> 1..MaxQty] :
          /\ \A l \in L : q[l] <= Returnable(l)
          /\ line' = [l \in Lines |-> IF l \in L
                                      THEN [line[l] EXCEPT !.returned = line[l].returned + q[l]]
                                      ELSE line[l]]
    BY <1>5 DEF RegisterOrderReturn
  <2>2. PICK q \in [L -> 1..MaxQty] :
          /\ \A l \in L : q[l] <= Returnable(l)
          /\ line' = [l \in Lines |-> IF l \in L
                                      THEN [line[l] EXCEPT !.returned = line[l].returned + q[l]]
                                      ELSE line[l]]
    BY <2>1
  <2>3. ASSUME NEW l \in Lines PROVE line'[l].returned <= Demand(l)'
    <3>1. CASE l \notin L
      <4>1. line'[l] = line[l]
        BY <2>2, <3>1
      <4>2. QED
        BY <4>1, SameReturned
    <3>2. CASE l \in L
      <4>1. line'[l] = [line[l] EXCEPT !.returned = line[l].returned + q[l]]
        BY <2>2, <3>2
      <4>2. /\ line'[l].qty = line[l].qty /\ line'[l].shortage = line[l].shortage
            /\ line'[l].returned = line[l].returned + q[l]
        BY <1>0, <4>1 DEF LineRow
      <4>3. q[l] \in Nat /\ line[l].returned \in Nat
        BY <1>0, <2>2, <3>2, ErpAssumption DEF LineRow
      <4>4. Demand(l) \in Nat /\ Demand(l)' = Demand(l)
        BY <1>0, <4>2 DEF LineRow, Demand, Greatest
      <4>5. q[l] <= Demand(l) - line[l].returned
        BY <2>2, <3>2 DEF Returnable
      <4>6. QED
        BY <4>2, <4>3, <4>4, <4>5
    <3>3. QED
      BY <3>1, <3>2
  <2>4. QED
    BY <2>3 DEF ReturnsWithinDelivered
<1>6. ASSUME NEW s \in Slots, StartPickingSession(s) \/ PickWrite(s) PROVE ReturnsWithinDelivered'
  <2>1. PickingNext(s)
    BY <1>6 DEF PickingNext
  <2>2. ASSUME NEW l \in Lines PROVE line'[l].returned <= Demand(l)'
    <3>1. line'[l] = line[l] \/ \E n : line'[l] = [line[l] EXCEPT !.picked = n]
      BY <2>1, PickingWritesPicked
    <3>2. /\ line'[l].qty = line[l].qty /\ line'[l].shortage = line[l].shortage
          /\ line'[l].returned = line[l].returned
      BY <1>0, <3>1 DEF LineRow
    <3>3. QED
      BY <3>2, SameReturned
  <2>3. QED
    BY <2>2 DEF ReturnsWithinDelivered
<1>7. ASSUME NEW s \in Slots, ShortageWrite(s) PROVE ReturnsSound(line')
  BY <1>7 DEF ShortageWrite
<1>8. ASSUME NEW s \in Slots, NEW t \in XferIds, ReceiveStockTransfer(s, t) PROVE ReturnsSound(line')
  BY <1>8 DEF ReceiveStockTransfer
<1>9. QED
  BY <1>1, <1>2, <1>3, <1>4, <1>5, <1>6, <1>7, <1>8, LineWrites

\* No more of a line comes back from the customer than was delivered, whatever
\* requests race: registerOrderReturn() counts under the lock of the order, and the
\* CHECK constraint stops a shortage that would be declared behind a return.
THEOREM ReturnsAlwaysDelivered == Spec => []ReturnsWithinDelivered
<1>1. Init => ReturnsWithinDelivered
  BY DEF Init, NoLine, ReturnsWithinDelivered, Demand, Greatest
<1>2. ReturnsWithinDelivered /\ UNCHANGED vars => ReturnsWithinDelivered'
  BY DEF vars, ReturnsWithinDelivered, Demand
<1>3. Typed /\ Typed' /\ ReturnsWithinDelivered /\ [Next]_vars => ReturnsWithinDelivered'
  BY <1>2, ReturnsKept
<1>4. QED
  BY <1>1, <1>3, AlwaysTyped, PTL DEF Spec

\* What the lines of an order that goes on believe to be reserved is reserved for
\* the order or on the road to it, variant by variant, with one request at a time
\* and one line for a variant: two lines share what getReservedQuantityForVariant()
\* finds, and reservations made by hand are of no line.
THEOREM LinesAlwaysBacked ==
    ASSUME PlainCalls
    PROVE  Spec => []LinesBacked
<1>1. Books => LinesBacked
  BY LinesAreBacked DEF Books, PlainCalls
<1>2. QED
  BY <1>1, AlwaysBooks, PTL

-----------------------------------------------------------------------------
(* What is picked, when no transfer leaves a store.                           *)

NothingSent == \A t \in XferIds : xfer[t].status \in {"ABSENT", "PENDING", "CANCELLED"}

LEMMA NothingIsSent ==
    ASSUME "dispatch" \notin Endpoints, TransfersKept, NothingSent, [Next]_vars PROVE NothingSent'
<1>1. ASSUME NEW T, NEW o, NEW source, AsksFor(T, o, source) PROVE NothingSent'
  BY <1>1 DEF AsksFor, Asking, Others, NothingSent
<1>2. ASSUME NEW s \in Slots, CreateStockTransfer(s) PROVE NothingSent'
  BY <1>1, <1>2, CreateTransferDoes
<1>3. ASSUME NEW table, NEW o, NEW source, EnsureRemoteTransfers(table, o, source)
      PROVE  NothingSent'
  <2>1. PICK new : xfer' = [t \in XferIds |->
                         IF t \in DOMAIN new
                         THEN [status |-> "PENDING", from |-> new[t], to |-> source, ord |-> o,
                               items |-> [r \in ItemKeys |->
                                            IF r \in RemoteReservations(table, o, new[t])
                                            THEN Item(table[r].line, table[r].inv[2], table[r].qty)
                                            ELSE NoItem]]
                         ELSE xfer[t]]
    BY <1>3 DEF EnsureRemoteTransfers
  <2>2. \A t \in XferIds : xfer'[t].status = "PENDING" \/ xfer'[t] = xfer[t]
    BY <2>1
  <2>3. QED
    BY <2>2 DEF NothingSent
<1>4. ASSUME NEW s \in Slots, NEW t \in XferIds, ReceiveStockTransfer(s, t) PROVE FALSE
  BY <1>4 DEF ReceiveStockTransfer, NothingSent
<1>5. ASSUME NEW s \in Slots, NEW t \in XferIds, DispatchStockTransfer(s, t) PROVE FALSE
  BY <1>5 DEF DispatchStockTransfer, Starts
<1>6. ASSUME NEW s \in Slots, NEW t \in XferIds, CancelStockTransfer(s, t) PROVE NothingSent'
  <2>1. xfer' = [xfer EXCEPT ![t].status = "CANCELLED"]
    BY <1>6 DEF CancelStockTransfer
  <2>2. QED
    BY <2>1 DEF NothingSent, TransfersKept, Typed, TypeOK, TransferRow
<1>7. QED
  BY <1>2, <1>3, <1>4, <1>5, <1>6, TransfersWritten DEF NothingSent

\* A reservation is consumed when its order is delivered.
Consumed(r) == res[r].status = "COMPLETED" /\ res[r].ord \in Orders
ConsumedDelivered == \A r \in ResIds : Consumed(r) => ord[res[r].ord].status = "DELIVERED"

\* A row that is not consumed by a step was consumed before.
NoneConsumed == \A r \in ResIds : res'[r].status = "COMPLETED" => res'[r] = res[r]

LEMMA AddsConsumeNothing ==
    ASSUME NEW s, NEW ids, Adds(s, ids) PROVE NoneConsumed
  BY DEF Adds, Grown, NoneConsumed

LEMMA WhoConsumes ==
    ASSUME "dispatch" \notin Endpoints, "reservation" \notin Endpoints,
           Typed, ReservationsNumbered, AllFresh, Next
    PROVE  NoneConsumed \/ \E s \in Slots : DeliverOrder(s)
<1>1. ASSUME UNCHANGED res PROVE NoneConsumed
  BY <1>1 DEF NoneConsumed
<1>2. ASSUME NEW s \in Slots, NEW o \in Orders, CreateOrder(s, o) \/ CreateMarketplaceOrder(s, o)
      PROVE  NoneConsumed
  BY <1>2, CreateOrderAdds, CheckoutAdds, AddsConsumeNothing
<1>3. ASSUME NEW s \in Slots, ReserveWrite(s) PROVE NoneConsumed
  BY <1>3, ReserveWriteAdds, AddsConsumeNothing
<1>4. ASSUME NEW s \in Slots, ReleaseWrite(s) PROVE NoneConsumed
  <2>1. \A r \in ResIds : \/ res'[r] = res[r]
                          \/ res'[r] = [res[r] EXCEPT !.status = "RELEASED"]
                          \/ res'[r] = [res[r] EXCEPT !.qty = req[s].left[r]]
    BY <1>4 DEF ReleaseWrite
  <2>2. \A r \in ResIds : r \notin DOMAIN req[s].take => res'[r] = res[r]
    BY <1>4 DEF ReleaseWrite
  <2>3. \A r \in DOMAIN req[s].take : res[r].status = "ACTIVE"
    BY <1>4 DEF ReleaseWrite, At, AllFresh, Fresh, TakesWhatIsThere
  <2>4. ASSUME NEW r \in ResIds, res'[r] = [res[r] EXCEPT !.status = "RELEASED"]
        PROVE  res'[r].status # "COMPLETED"
    BY <2>4 DEF Typed, TypeOK, ReservationRow
  <2>5. ASSUME NEW r \in ResIds, res'[r] = [res[r] EXCEPT !.qty = req[s].left[r]]
        PROVE  res'[r].status = res[r].status
    BY <2>5 DEF Typed, TypeOK, ReservationRow
  <2>6. QED
    BY <2>1, <2>2, <2>3, <2>4, <2>5 DEF NoneConsumed
<1>5. ASSUME NEW s \in Slots, Settles(s) PROVE NoneConsumed \/ DeliverOrder(s)
  <2>1. CASE CompleteReturn(s) \/ CancelOrder(s)
    <3>1. UNCHANGED res \/ res' = Settled(s, "RELEASED")
      BY <2>1 DEF CompleteReturn, CancelOrder, ReleaseHeld
    <3>2. QED
      BY <3>1 DEF Settled, NoneConsumed, Typed, TypeOK, ReservationRow
  <2>2. QED
    BY <1>5, <2>1 DEF Settles
<1>6. ASSUME NEW s \in Slots, ConfirmOrder(s) \/ CreateStockTransfer(s) PROVE NoneConsumed
  <2>1. UNCHANGED res
    BY <1>6 DEF ConfirmOrder, CreateStockTransfer
  <2>2. QED
    BY <1>1, <2>1
<1>7. ASSUME NEW s \in Slots, NEW t \in XferIds, DispatchStockTransfer(s, t) PROVE FALSE
  BY <1>7 DEF DispatchStockTransfer, Starts
<1>8. ASSUME NEW s \in Slots, NEW t \in XferIds,
             ReceiveStockTransfer(s, t) \/ CancelStockTransfer(s, t)
      PROVE  NoneConsumed
  <2>1. CASE ReceiveStockTransfer(s, t)
    BY <2>1, ReceiveAdds, AddsConsumeNothing
  <2>2. CASE CancelStockTransfer(s, t)
    <3>1. UNCHANGED <<inv, res>> \/ \E ids : Adds(s, ids)
      BY <2>2, CancelTransferAdds
    <3>2. QED
      BY <1>1, <3>1, AddsConsumeNothing
  <2>3. QED
    BY <1>8, <2>1, <2>2
<1>9. QED
  BY <1>1, <1>2, <1>3, <1>4, <1>5, <1>6, <1>7, <1>8, StepKinds DEF StepKind, Calm

LEMMA ConsumedKept ==
    ASSUME "dispatch" \notin Endpoints, PlainCalls, Books, ConsumedDelivered, Next
    PROVE  ConsumedDelivered'
<1>1. TransfersKept /\ BooksHold /\ AllKnow /\ Typed /\ AllFresh
  BY DEF Books, TransfersKept, BooksHold, PlainCalls
<1>2. \A o \in Orders : ord[o].status \in Closed => ord'[o].status = ord[o].status
  BY <1>1, ClosedStays DEF PlainCalls, BooksHold
<1>3. ASSUME NoneConsumed PROVE ConsumedDelivered'
  <2>1. ASSUME NEW r \in ResIds, res'[r].status = "COMPLETED", res'[r].ord \in Orders
        PROVE  ord'[res'[r].ord].status = "DELIVERED"
    <3>1. res'[r] = res[r]
      BY <1>3, <2>1 DEF NoneConsumed
    <3>2. ord[res[r].ord].status = "DELIVERED"
      BY <2>1, <3>1 DEF ConsumedDelivered, Consumed
    <3>3. ord'[res[r].ord].status = "DELIVERED"
      BY <1>2, <2>1, <3>1, <3>2 DEF Closed
    <3>4. QED
      BY <3>1, <3>3
  <2>2. QED
    BY <2>1 DEF ConsumedDelivered, Consumed
<1>4. ASSUME NEW s \in Slots, DeliverOrder(s) PROVE ConsumedDelivered'
  <2>1. /\ At(s, "status", "commit") /\ res' = Settled(s, "COMPLETED")
        /\ ord' = [ord EXCEPT ![req[s].ord].status = "DELIVERED"]
    BY <1>4 DEF DeliverOrder
  <2>2. req[s].ord \in Orders
    BY <1>1, <2>1 DEF Typed, RequestsOK, RequestOK, At
  <2>3. ord'[req[s].ord].status = "DELIVERED"
    BY <1>1, <2>1, <2>2 DEF Typed, TypeOK, OrderRow
  <2>4. DOMAIN req[s].held = Active(req[s].ord)
    BY <1>1, <2>1 DEF AllKnow, KnowsOrder, At
  <2>5. ASSUME NEW r \in ResIds, res'[r].status = "COMPLETED", res'[r].ord \in Orders
        PROVE  ord'[res'[r].ord].status = "DELIVERED"
    <3>1. CASE r \in Held(s)
      <4>1. res[r].ord = req[s].ord
        BY <2>4, <3>1 DEF Held, Active
      <4>2. res'[r].ord = res[r].ord
        BY <1>1, <2>1, <3>1 DEF Settled, Typed, TypeOK, ReservationRow
      <4>3. QED
        BY <2>3, <4>1, <4>2
    <3>2. CASE r \notin Held(s)
      <4>1. res'[r] = res[r]
        BY <2>1, <3>2 DEF Settled
      <4>2. ord[res[r].ord].status = "DELIVERED"
        BY <2>5, <4>1 DEF ConsumedDelivered, Consumed
      <4>3. ord'[res[r].ord].status = "DELIVERED"
        BY <1>2, <2>5, <4>1, <4>2 DEF Closed
      <4>4. QED
        BY <4>1, <4>3
    <3>3. QED
      BY <3>1, <3>2
  <2>6. QED
    BY <2>5 DEF ConsumedDelivered, Consumed
<1>5. QED
  BY <1>1, <1>3, <1>4, WhoConsumes DEF PlainCalls, BooksHold

\* What getOrderItemMaxPickableQuantity() allows is reserved for the line.
LEMMA PickableIsReserved ==
    ASSUME TransfersKept, Backing, ConsumedDelivered, NEW l \in Lines, line[l].qty > 0,
           ord[LineOrder[l]].status \in Pickable
    PROVE  MaxPickable(l) <= line[l].reserved
<1> DEFINE o == LineOrder[l]
           v == LineVariant[l]
<1>1. o \in Orders /\ line[l].qty \in Nat /\ line[l].reserved \in Int
  BY LineType DEF TransfersKept
<1>2. ord[o].status # "DELIVERED" /\ ord[o].status \notin Closed
  BY DEF Pickable, Startable, Closed
<1>3. line[l].reserved = HeldFor(o, v) + OnTheWayFor(o, v)
  BY <1>2 DEF Backing, LineBacked, Backed
<1>4. HeldFor(o, v) \in Nat
  BY HeldIsNat DEF TransfersKept
<1>5. OnTheWayFor(o, v) \in Nat
  BY WaysAdded DEF WayFacts, TransfersKept
<1>6. ReservedForVariant(o, v) = HeldFor(o, v)
  <2>1. {r \in ResIds : /\ res[r].status \in {"ACTIVE", "COMPLETED"}
                        /\ res[r].ord = o /\ res[r].inv[2] = v}
        = {r \in Active(o) : res[r].inv[2] = v}
    BY <1>1, <1>2 DEF Active, ConsumedDelivered, Consumed
  <2>2. QED
    BY <2>1, Zenon DEF ReservedForVariant, HeldFor
<1>7. CASE line[l].reserved > 0
  <2>1. MaxPickable(l) = Least(line[l].qty, line[l].reserved)
    BY <1>7 DEF MaxPickable
  <2>2. QED
    BY <1>1, <2>1 DEF Least
<1>8. CASE ~(line[l].reserved > 0)
  <2>1. MaxPickable(l) = Least(line[l].qty, HeldFor(o, v))
    BY <1>6, <1>8 DEF MaxPickable
  <2>2. QED
    BY <1>1, <1>3, <1>4, <1>5, <2>1 DEF Least
<1>9. QED
  BY <1>7, <1>8

\* No more of a line is picked than is reserved for it: by row.
PickedSound(l) == line[l].picked <= line[l].reserved

LEMMA PickableIsInt ==
    ASSUME Typed, NEW l \in Lines PROVE MaxPickable(l) \in Int
<1> DEFINE R == {r \in ResIds : /\ res[r].status \in {"ACTIVE", "COMPLETED"}
                              /\ res[r].ord = LineOrder[l] /\ res[r].inv[2] = LineVariant[l]}
<1>1. IsFiniteSet(R) /\ \A r \in R : Quantities[r] \in Int
  <2>1. R \subseteq ResIds
    OBVIOUS
  <2>2. IsFiniteSet(R)
    BY <2>1, ReservationsAreFinite, FS_Subset
  <2>3. QED
    BY <2>1, <2>2 DEF Quantities, Typed, TypeOK, ReservationRow
<1>2. ReservedForVariant(LineOrder[l], LineVariant[l]) \in Nat
  BY <1>1, TotalIsNat DEF ReservedForVariant
<1>3. QED
  BY <1>2, LineType DEF MaxPickable, Least

LEMMA PickedStaysWithin ==
    ASSUME PlainCalls, Books, Typed', NothingSent, ConsumedDelivered, PickedWithinReserved, Next
    PROVE  PickedWithinReserved'
<1>0. /\ TransfersKept /\ Typed /\ BooksHold /\ AllKnow /\ Backing /\ ReservationsNumbered /\ AllFresh
      /\ \A l \in Lines : PickedSound(l) /\ line[l] \in LineRow
  BY LineType DEF Books, TransfersKept, BooksHold, PlainCalls, PickedWithinReserved, PickedSound
<1> SUFFICES ASSUME NEW l \in Lines PROVE PickedSound(l)'
  BY DEF PickedWithinReserved, PickedSound
<1>1. ASSUME line'[l].picked = line[l].picked, line'[l].reserved = line[l].reserved
      PROVE  PickedSound(l)'
  BY <1>0, <1>1 DEF PickedSound
<1>2. ASSUME NEW o, NEW L, NEW q, Ordered(o, L, q) PROVE PickedSound(l)'
  <2>1. CASE l \in L
    BY <1>2, <2>1 DEF Ordered, PickedSound
  <2>2. CASE l \notin L
    BY <1>1, <1>2, <2>2 DEF Ordered
  <2>3. QED
    BY <2>1, <2>2
<1>3. ASSUME NEW s \in Slots, NEW o \in Orders, CreateOrder(s, o) \/ CreateMarketplaceOrder(s, o)
      PROVE  PickedSound(l)'
  <2>1. CASE CreateOrder(s, o)
    <3>1. \E L, q, at : Sells(o, L, q, at) \/ \E anchor : Promises(o, L, q, q, at, anchor)
      BY <1>0, <2>1, CreateOrderDoes
    <3>2. QED
      BY <1>2, <3>1 DEF Sells, Promises
  <2>2. CASE CreateMarketplaceOrder(s, o)
    <3>1. \E L, q, got, at, anchor : Promises(o, L, q, got, at, anchor)
      BY <1>0, <2>2, CheckoutDoes
    <3>2. QED
      BY <1>2, <3>1 DEF Promises
  <2>3. QED
    BY <1>3, <2>1, <2>2
<1>4. ASSUME NEW s \in Slots, ReserveWrite(s) PROVE PickedSound(l)'
  <2>1. PICK take : Reserves(req[s].line, take)
    BY <1>0, <1>4, ReserveWriteDoes DEF AllKnow
  <2>2. CASE l = req[s].line
    <3>1. line'[l].picked = line[l].picked /\ line'[l].reserved = line[l].reserved + take /\ take \in Nat
      BY <2>1, <2>2 DEF Reserves
    <3>2. line[l].picked \in Nat /\ line[l].reserved \in Int
      BY <1>0 DEF LineRow
    <3>3. QED
      BY <1>0, <3>1, <3>2 DEF PickedSound
  <2>3. CASE l # req[s].line
    BY <1>1, <2>1, <2>3 DEF Reserves, OtherLines
  <2>4. QED
    BY <2>2, <2>3
<1>5. ASSUME NEW s \in Slots, ReleaseWrite(s) PROVE PickedSound(l)'
  <2>1. PICK n : Releases(req[s].line, n)
    BY <1>0, <1>5, ReleaseWriteDoes DEF AllKnow, AllFresh
  <2>2. CASE l = req[s].line
    BY <2>1, <2>2 DEF Releases, PickedSound
  <2>3. CASE l # req[s].line
    BY <1>1, <2>1, <2>3 DEF Releases, OtherLines
  <2>4. QED
    BY <2>2, <2>3
<1>6. ASSUME NEW s \in Slots, ShortageWrite(s) PROVE PickedSound(l)'
  <2>1. \E k, n : line' = [line EXCEPT ![k].shortage = n]
    BY <1>6 DEF ShortageWrite
  <2>2. QED
    BY <1>0, <1>1, <2>1 DEF LineRow, Typed, TypeOK
<1>7. ASSUME NEW s \in Slots, NEW o \in Orders, RegisterOrderReturn(s, o) PROVE PickedSound(l)'
  <2>1. PICK L \in (SUBSET LinesOf(o)) \ {{}} : \E q \in [L -> 1..MaxQty] :
           line' = [k \in Lines |-> IF k \in L
                                    THEN [line[k] EXCEPT !.returned = line[k].returned + q[k]]
                                    ELSE line[k]]
    BY <1>7 DEF RegisterOrderReturn
  <2>2. \E n : line'[l] = line[l] \/ line'[l] = [line[l] EXCEPT !.returned = n]
    BY <2>1
  <2>3. QED
    BY <1>0, <1>1, <2>2 DEF LineRow
<1>8. ASSUME NEW s \in Slots, StartPickingSession(s) PROVE PickedSound(l)'
  <2>1. \/ line'[l] = line[l]
        \/ line'[l] = [line[l] EXCEPT !.picked = Least(line[l].picked, MaxPickable(l))]
    BY <1>8 DEF StartPickingSession
  <2>2. CASE line'[l] = line[l]
    BY <1>1, <2>2
  <2>3. CASE line'[l] = [line[l] EXCEPT !.picked = Least(line[l].picked, MaxPickable(l))]
    <3>1. line'[l].reserved = line[l].reserved /\ line'[l].picked = Least(line[l].picked, MaxPickable(l))
      BY <1>0, <2>3 DEF LineRow
    <3>2. line[l].picked \in Nat /\ line[l].reserved \in Int /\ MaxPickable(l) \in Int
      BY <1>0, PickableIsInt DEF LineRow
    <3>3. QED
      BY <1>0, <3>1, <3>2 DEF PickedSound, Least
  <2>4. QED
    BY <2>1, <2>2, <2>3
<1>9. ASSUME NEW s \in Slots, PickWrite(s) PROVE PickedSound(l)'
  <2>1. /\ At(s, "pick", "write") /\ ord[req[s].ord].status \in Pickable
        /\ line' = [k \in Lines |-> IF k \in DOMAIN req[s].limit
                                    THEN [line[k] EXCEPT !.picked = PickedAfter(s, k)]
                                    ELSE line[k]]
    BY <1>9 DEF PickWrite, PickableUnderLock
  <2>2. req[s].limit = Limits(req[s].ord)
    BY <1>0, <2>1 DEF AllKnow, KnowsOrder, At
  <2>3. CASE l \notin DOMAIN req[s].limit
    BY <1>1, <2>1, <2>3
  <2>4. CASE l \in DOMAIN req[s].limit
    <3>1. /\ l \in LinesOf(req[s].ord) /\ req[s].limit[l] = MaxPickable(l)
          /\ LineOrder[l] = req[s].ord /\ line[l].qty > 0
      BY <2>2, <2>4 DEF Limits, LinesOf
    <3>2. MaxPickable(l) <= line[l].reserved
      BY <1>0, <2>1, <3>1, PickableIsReserved
    <3>3. line'[l] = [line[l] EXCEPT !.picked = PickedAfter(s, l)]
      BY <2>1, <2>4
    <3>4. line'[l].picked = PickedAfter(s, l) /\ line'[l].reserved = line[l].reserved
      BY <1>0, <3>3 DEF LineRow
    <3>5. /\ line[l].picked \in Nat /\ line[l].reserved \in Int
          /\ req[s].limit[l] \in Int /\ req[s].delta[l] \in Int
      <4>1. Amounts(req[s].limit, Lines) /\ req[s].delta[l] \in Int
        BY <1>0, <2>1, <2>4 DEF Typed, RequestsOK, RequestOK, At
      <4>2. QED
        BY <1>0, <2>4, <4>1 DEF Amounts, LineRow
    <3>6. PickedAfter(s, l) \in {0} \union {n \in Int : n <= req[s].limit[l]}
      BY <3>5 DEF PickedAfter, Greatest, Least
    <3>7. 0 <= line[l].reserved
      BY <1>0, <3>5 DEF PickedSound
    <3>8. QED
      BY <3>1, <3>2, <3>4, <3>5, <3>6, <3>7 DEF PickedSound
  <2>5. QED
    BY <2>3, <2>4
<1>10. ASSUME NEW s \in Slots, NEW t \in XferIds, ReceiveStockTransfer(s, t) PROVE FALSE
  BY <1>10 DEF ReceiveStockTransfer, NothingSent
<1>11. CASE UNCHANGED line
  BY <1>1, <1>11
<1>12. QED
  BY <1>3, <1>4, <1>5, <1>6, <1>7, <1>8, <1>9, <1>10, <1>11, LineWrites

Agreeing == NothingSent /\ ConsumedDelivered /\ PickedWithinReserved

LEMMA InitAgreeing == Init => Agreeing
<1> SUFFICES ASSUME Init PROVE Agreeing
  OBVIOUS
<1>1. NothingSent
  BY DEF Init, NoTransfer, NothingSent
<1>2. ConsumedDelivered
  BY DEF Init, NoReservation, ConsumedDelivered, Consumed
<1>3. PickedWithinReserved
  BY DEF Init, NoLine, PickedWithinReserved
<1>4. QED
  BY <1>1, <1>2, <1>3 DEF Agreeing

LEMMA NextAgreeing ==
    ASSUME "dispatch" \notin Endpoints, PlainCalls, Books, Typed', Agreeing, [Next]_vars PROVE Agreeing'
<1>1. NothingSent'
  BY NothingIsSent DEF Books, Agreeing
<1>2. CASE Next
  <2>1. ConsumedDelivered'
    BY <1>2, ConsumedKept DEF Agreeing
  <2>2. PickedWithinReserved'
    BY <1>2, PickedStaysWithin DEF Agreeing
  <2>3. QED
    BY <1>1, <2>1, <2>2 DEF Agreeing
<1>3. CASE UNCHANGED vars
  BY <1>1, <1>3 DEF vars, Agreeing, ConsumedDelivered, Consumed, PickedWithinReserved
<1>4. QED
  BY <1>2, <1>3

\* The lines agree with one another and with the reservations, whatever is ordered,
\* reserved, released, picked, declared short, returned and delivered, as long as
\* nothing is dispatched: a unit that is lost on the road to its order is taken from
\* its line by receiveStockTransfer(), picked or not.
THEOREM LinesAlwaysAgree ==
    ASSUME PlainCalls, "dispatch" \notin Endpoints
    PROVE  Spec => []LinesAgree
<1>1. Books /\ Typed' /\ Agreeing /\ [Next]_vars => Agreeing'
  BY NextAgreeing
<1>2. Books /\ Agreeing /\ ReturnsWithinDelivered => LinesAgree
  BY LinesAreBacked DEF Books, PlainCalls, Agreeing, LinesAgree
<1>3. QED
  BY <1>1, <1>2, InitAgreeing, AlwaysBooks, AlwaysTyped, ReturnsAlwaysDelivered, PTL DEF Spec

-----------------------------------------------------------------------------
(* Every unit is somewhere.                                                   *)

Roads == [t \in XferIds |-> OnTheRoad(t)]
AllRoads == Total(XferIds, Roads)
RoadFacts == \A t \in XferIds : OnTheRoad(t) \in Nat

\* No more of an item arrives than left.
LEMMA RoadsAdded == Typed /\ TransferBalanced => RoadFacts
<1> SUFFICES ASSUME Typed, TransferBalanced, NEW t \in XferIds PROVE OnTheRoad(t) \in Nat
  BY DEF RoadFacts
<1> DEFINE f == [k \in Items(t) |-> xfer[t].items[k].disp - xfer[t].items[k].rec]
<1>1. ASSUME NEW k \in Items(t) PROVE f[k] \in Nat
  <2>1. k \in ItemKeys /\ xfer[t].items[k] \in ItemRow
    BY DEF Items, Typed, TypeOK, TransferRow
  <2>2. xfer[t].items[k].rec + xfer[t].items[k].disc <= xfer[t].items[k].disp
    BY <2>1 DEF TransferBalanced
  <2>3. QED
    BY <2>1, <2>2 DEF ItemRow
<1>2. IsFiniteSet(Items(t)) /\ \A k \in Items(t) : f[k] \in Int
  <2>1. Summed(Items(t), f)
    <3> HIDE DEF f
    <3>1. QED
      BY <1>1, ItemSums
  <2>2. QED
    BY <2>1 DEF Summed
<1>3. Total(Items(t), f) \in Nat
  <2> HIDE DEF f
  <2>1. QED
    BY <1>2, TotalIsNat
<1>4. QED
  BY <1>3 DEF OnTheRoad

LEMMA RoadsAddedNext ==
    ASSUME Typed', TransferBalanced' PROVE RoadFacts'
  BY RoadsAdded, PTL

LEMMA RoadsSummed ==
    ASSUME RoadFacts PROVE Summed(XferIds, Roads) /\ AllRoads \in Nat
<1>1. Summed(XferIds, Roads)
  <2>1. \A t \in XferIds : Roads[t] \in Int
    BY DEF RoadFacts, Roads
  <2>2. QED
    BY <2>1, TransfersAreFinite DEF Summed
<1>2. QED
  BY <1>1, TotalNat DEF AllRoads

LEMMA SameRoad ==
    ASSUME NEW u \in XferIds, xfer'[u] = xfer[u] PROVE OnTheRoad(u)' = OnTheRoad(u)
<1>1. Items(u)' = Items(u)
  BY DEF Items
<1>2. QED
  BY <1>1, Zenon DEF OnTheRoad

\* One transfer moves, or what is on the road stays.
LEMMA RoadMoves ==
    ASSUME RoadFacts, RoadFacts', NEW t \in XferIds, Others({t})
    PROVE  AllRoads' + OnTheRoad(t) = AllRoads + OnTheRoad(t)'
<1>1. PICK f, g : f = Roads /\ g = Roads'
  OBVIOUS
<1>2. Summed(XferIds, f) /\ Summed(XferIds, g)
  <2>1. \A u \in XferIds : f[u] \in Int /\ g[u] \in Int
    BY <1>1 DEF RoadFacts, Roads
  <2>2. QED
    BY <2>1, TransfersAreFinite DEF Summed
<1>3. f[t] \in Nat /\ g[t] \in Nat /\ f[t] = OnTheRoad(t) /\ g[t] = OnTheRoad(t)'
  BY <1>1 DEF RoadFacts, Roads
<1>4. ASSUME NEW u \in XferIds \ {t} PROVE g[u] = f[u]
  <2>1. xfer'[u] = xfer[u]
    BY DEF Others
  <2>2. OnTheRoad(u)' = OnTheRoad(u)
    BY <2>1, SameRoad
  <2>3. QED
    BY <1>1, <2>2 DEF Roads
<1>5. Total(XferIds, g) + f[t] = Total(XferIds, f) + g[t]
  BY <1>2, <1>3, <1>4, OneSummand
<1>6. AllRoads = Total(XferIds, f) /\ AllRoads' = Total(XferIds, g)
  BY <1>1 DEF AllRoads
<1>7. QED
  BY <1>3, <1>5, <1>6

LEMMA RoadsRest ==
    ASSUME \A t \in XferIds : OnTheRoad(t)' = OnTheRoad(t) PROVE AllRoads' = AllRoads
<1>1. Roads' = Roads
  BY DEF Roads
<1>2. QED
  BY <1>1, Zenon DEF AllRoads

\* The units of the lines of the orders that are delivered.
AllDelivered == Total(DeliveredLines, ReservedUnits)

LEMMA DeliveredSummed ==
    ASSUME Typed
    PROVE  /\ \A S : S \subseteq Lines => Summed(S, ReservedUnits)
           /\ DeliveredLines \subseteq Lines /\ AllDelivered \in Nat
<1>1. ASSUME NEW S, S \subseteq Lines PROVE Summed(S, ReservedUnits)
  <2>1. IsFiniteSet(S)
    BY <1>1, LinesAreFinite, FS_Subset
  <2>2. \A l \in S : ReservedUnits[l] \in Int
    BY <1>1, LineType DEF ReservedUnits
  <2>3. QED
    BY <2>1, <2>2 DEF Summed
<1>2. DeliveredLines \subseteq Lines
  BY DEF DeliveredLines
<1>3. QED
  BY <1>1, <1>2, TotalNat DEF AllDelivered

LEMMA DeliveredRest ==
    ASSUME NoneDelivered, \A l \in DeliveredLines : line'[l].reserved = line[l].reserved
    PROVE  AllDelivered' = AllDelivered
<1>1. PICK D, f, g : D = DeliveredLines /\ f = ReservedUnits /\ g = ReservedUnits'
  OBVIOUS
<1>2. DeliveredLines' = D
  BY <1>1, ErpAssumption DEF DeliveredLines, NoneDelivered
<1>3. \A l \in D : f[l] = g[l]
  BY <1>1 DEF ReservedUnits, DeliveredLines
<1>4. Total(D, f) = Total(D, g)
  BY <1>3, TotalSame
<1>5. AllDelivered = Total(D, f) /\ AllDelivered' = Total(D, g)
  BY <1>1, <1>2 DEF AllDelivered
<1>6. QED
  BY <1>4, <1>5

\* An order becomes DELIVERED with the lines L.
LEMMA DeliveredGrows ==
    ASSUME Typed, Typed', NEW o \in Orders, ord[o].status # "DELIVERED", ord'[o].status = "DELIVERED",
           \A p \in Orders \ {o} : ord'[p].status = ord[p].status,
           \A l \in Lines : LineOrder[l] # o => line'[l].reserved = line[l].reserved,
           NEW L, L \subseteq Lines, \A l \in L : LineOrder[l] = o,
           \A l \in Lines \ L : LineOrder[l] = o => line'[l].reserved = 0,
           NEW g, g = ReservedUnits'
    PROVE  AllDelivered' = AllDelivered + Total(L, g) /\ Total(L, g) \in Nat
<1>1. PICK D, N, f : D = DeliveredLines /\ f = ReservedUnits /\ N = {l \in Lines : LineOrder[l] = o}
  OBVIOUS
<1>2. DeliveredLines' = D \union N /\ D \cap N = {} /\ L \subseteq N
  BY <1>1, LineType DEF DeliveredLines
<1>3. \A l \in Lines : g[l] \in Int /\ g[l] = line'[l].reserved
  BY DEF ReservedUnits, Typed, TypeOK, LineRow
<1>4. Summed(D, g) /\ Summed(N, g) /\ Summed(L, g)
  <2>1. D \subseteq Lines /\ N \subseteq Lines
    BY <1>1 DEF DeliveredLines
  <2>2. IsFiniteSet(D) /\ IsFiniteSet(N) /\ IsFiniteSet(L)
    BY <2>1, LinesAreFinite, FS_Subset
  <2>3. QED
    BY <1>3, <2>1, <2>2 DEF Summed
<1>5. Total(D, g) = Total(D, f)
  <2>1. \A l \in D : g[l] = f[l]
    BY <1>1, <1>3 DEF DeliveredLines, ReservedUnits
  <2>2. QED
    BY <2>1, TotalSame
<1>6. Total(N, g) = Total(L, g)
  <2>1. \A l \in N \ L : g[l] <= 0
    BY <1>1, <1>3
  <2>2. QED
    BY <1>2, <1>4, <2>1, TotalPositive
<1>7. Total(D \union N, g) = Total(D, g) + Total(N, g)
  BY <1>2, <1>4, TotalJoin
<1>8. AllDelivered = Total(D, f) /\ AllDelivered' = Total(D \union N, g)
  BY <1>1, <1>2 DEF AllDelivered
<1>9. Total(L, g) \in Nat
  BY <1>4, TotalNat
<1>10. QED
  BY <1>5, <1>6, <1>7, <1>8, <1>9

\* What the tables count: everything is somewhere.
Everything == AllStock + AllRoads + AllDelivered

Counts == AllStock \in Nat /\ AllRoads \in Nat /\ AllDelivered \in Nat /\ RoadFacts

LEMMA CountsNow == TransfersKept => Counts
<1>1. TransfersKept => RoadFacts
  BY RoadsAdded DEF TransfersKept
<1>2. QED
  BY <1>1, RoadsSummed, AllStockIsNat, DeliveredSummed DEF TransfersKept, Counts

LEMMA CountsNext ==
    ASSUME TransfersKept' PROVE Counts'
  BY CountsNow, PTL

LEMMA SellingCounts ==
    ASSUME TransfersKept, TransfersKept', LinesPlaced, ZeroLines,
           NEW o \in Orders, NEW L, NEW q, NEW at, Sells(o, L, q, at)
    PROVE  Everything' = Everything
<1>0. Typed /\ Typed'
  BY DEF TransfersKept
<1>1. /\ ~Placed(o) /\ ord'[o].status = "DELIVERED" /\ \A p \in Orders \ {o} : ord'[p] = ord[p]
      /\ L \subseteq Lines /\ UNCHANGED xfer
      /\ \A l \in L : /\ LineOrder[l] = o /\ q[l] \in Nat /\ line'[l].reserved = q[l]
                      /\ at[l] \in Inventories
      /\ \A l \in Lines \ L : line'[l] = line[l]
  BY DEF Sells, Ordered
<1>2. PICK g : g = ReservedUnits'
  OBVIOUS
<1>3. \A l \in Lines \ L : LineOrder[l] = o => line'[l].reserved = 0
  <2>1. ASSUME NEW l \in Lines \ L, LineOrder[l] = o PROVE line'[l].reserved = 0
    <3>1. line[l].qty \in Nat /\ ~(line[l].qty > 0)
      BY <1>0, <1>1, <2>1, LineType DEF LinesPlaced
    <3>2. QED
      BY <1>1, <3>1 DEF ZeroLines
  <2>2. QED
    BY <2>1
<1>4. AllDelivered' = AllDelivered + Total(L, g)
  <2>1. ord[o].status # "DELIVERED"
    BY <1>1 DEF Placed
  <2>2. \A l \in Lines : LineOrder[l] # o => line'[l].reserved = line[l].reserved
    BY <1>1
  <2>3. \A p \in Orders \ {o} : ord'[p].status = ord[p].status
    BY <1>1
  <2>4. \A l \in L : LineOrder[l] = o
    BY <1>1
  <2>5. QED
    BY <1>0, <1>1, <1>2, <1>3, <2>1, <2>2, <2>3, <2>4, DeliveredGrows
<1>5. Summed(L, q)
  <2>1. IsFiniteSet(L)
    BY <1>1, LinesAreFinite, FS_Subset
  <2>2. \A l \in L : q[l] \in Int
    BY <1>1
  <2>3. QED
    BY <2>1, <2>2 DEF Summed
<1>6. Total(L, g) = Total(L, q) /\ Total(L, q) \in Nat
  <2>1. \A l \in L : g[l] = q[l]
    BY <1>1, <1>2 DEF ReservedUnits
  <2>2. QED
    BY <1>5, <2>1, TotalSame, TotalNat
<1>7. AllStock = AllStock' + Total(L, q)
  <2>1. Leave(L, at, q)
    <3>1. \A i \in Inventories : PerLine(L, at, q)[i] = Total({l \in L : at[l] = i}, q)
      BY DEF PerLine
    <3>2. \A i \in Inventories : inv'[i].stock = inv[i].stock - PerLine(L, at, q)[i]
      BY DEF Sells
    <3>3. QED
      BY <3>1, <3>2 DEF Leave
  <2>2. \A l \in L : at[l] \in Inventories
    BY <1>1
  <2>3. QED
    BY <1>0, <1>5, <2>1, <2>2, StockMoves
<1>8. AllRoads' = AllRoads
  <2>1. \A t \in XferIds : OnTheRoad(t)' = OnTheRoad(t)
    BY <1>1, SameRoad
  <2>2. QED
    BY <2>1, RoadsRest
<1>9. QED
  BY <1>4, <1>6, <1>7, <1>8, CountsNow, CountsNext DEF Everything, Counts

\* What the lines of an order that is READY have reserved is what it holds.
LEMMA OrderHolds ==
    ASSUME OneLine, TransfersKept, Backing, NEW o \in Orders, ord[o].status = "READY"
    PROVE  /\ Total(LinesOf(o), ReservedUnits) = Total(Active(o), Quantities)
           /\ Summed(Active(o), Quantities) /\ Total(Active(o), Quantities) \in Nat
<1>0. Typed
  BY DEF TransfersKept
<1>1. PICK g : g = [r \in Active(o) |-> CHOOSE l \in LinesOf(o) : LineVariant[l] = res[r].inv[2]]
  OBVIOUS
<1>2. ASSUME NEW r \in Active(o) PROVE g[r] \in LinesOf(o) /\ LineVariant[g[r]] = res[r].inv[2]
  <2>1. OfLine(r) /\ res[r].ord = o
    BY DEF Active, Backing, ReservationsOfLines
  <2>2. \E l \in LinesOf(o) : LineVariant[l] = res[r].inv[2]
    BY <2>1 DEF OfLine
  <2>3. QED
    BY <1>1, <2>2
<1>3. Summed(Active(o), Quantities)
  <2>1. Active(o) \subseteq ResIds
    BY DEF Active
  <2>2. IsFiniteSet(Active(o))
    BY <2>1, ReservationsAreFinite, FS_Subset
  <2>3. \A r \in Active(o) : Quantities[r] \in Int
    BY <1>0, <2>1 DEF Quantities, Typed, TypeOK, ReservationRow
  <2>4. QED
    BY <2>2, <2>3 DEF Summed
<1>4. IsFiniteSet(LinesOf(o)) /\ LinesOf(o) \subseteq Lines
  <2>1. LinesOf(o) \subseteq Lines
    BY DEF LinesOf
  <2>2. QED
    BY <2>1, LinesAreFinite, FS_Subset
<1>5. PICK n : n = ByClass(Active(o), Quantities, LinesOf(o), g)
  OBVIOUS
<1>6. Total(LinesOf(o), n) = Total(Active(o), Quantities)
  <2>1. \A r \in Active(o) : g[r] \in LinesOf(o)
    BY <1>2
  <2>2. QED
    BY <1>3, <1>4, <1>5, <2>1, TotalByClass
<1>7. ASSUME NEW l \in LinesOf(o) PROVE ReservedUnits[l] = n[l]
  <2>1. Class(Active(o), g, l) = {r \in Active(o) : res[r].inv[2] = LineVariant[l]}
    <3>1. \A m \in LinesOf(o) : LineVariant[m] = LineVariant[l] => m = l
      BY <1>7 DEF OneLine, LinesOf
    <3>2. QED
      BY <1>2, <3>1 DEF Class
  <2>2. n[l] = Total(Class(Active(o), g, l), Quantities)
    BY <1>5 DEF ByClass
  <2>3. n[l] = HeldFor(o, LineVariant[l])
    BY <2>1, <2>2 DEF HeldFor
  <2>4. line[l].reserved = HeldFor(o, LineVariant[l]) + OnTheWayFor(o, LineVariant[l])
    BY DEF LinesOf, Backing, LineBacked, Backed, Closed
  <2>5. OnTheWayFor(o, LineVariant[l]) = 0
    BY NothingOnTheWay DEF Backing, Gathered
  <2>6. HeldFor(o, LineVariant[l]) \in Nat
    BY <1>0, HeldIsNat
  <2>7. ReservedUnits[l] = line[l].reserved
    BY <1>4 DEF ReservedUnits
  <2>8. QED
    BY <2>3, <2>4, <2>5, <2>6, <2>7
<1>8. Total(LinesOf(o), ReservedUnits) = Total(LinesOf(o), n)
  BY <1>7, TotalSame
<1>9. Total(Active(o), Quantities) \in Nat
  BY <1>3, TotalNat
<1>10. QED
  BY <1>3, <1>6, <1>8, <1>9

LEMMA DeliveringCounts ==
    ASSUME OneLine, TransfersKept, TransfersKept', Backing, NEW o \in Orders, Delivering(o)
    PROVE  Everything' = Everything
<1>0. Typed /\ Typed'
  BY DEF TransfersKept
<1>1. /\ ord[o].status = "READY" /\ ord'[o].status = "DELIVERED" /\ UNCHANGED <<line, xfer>>
      /\ \A p \in Orders \ {o} : ord'[p] = ord[p]
  BY DEF Delivering, Settling, OtherOrders
<1>2. PICK g, place : g = ReservedUnits' /\ place = [r \in Active(o) |-> res[r].inv]
  OBVIOUS
<1>3. \A l \in Lines \ LinesOf(o) : LineOrder[l] = o => line'[l].reserved = 0
  <2>1. ASSUME NEW l \in Lines \ LinesOf(o), LineOrder[l] = o PROVE line'[l].reserved = 0
    <3>1. line[l].qty \in Nat /\ ~(line[l].qty > 0)
      BY <1>0, <2>1, LineType DEF LinesOf
    <3>2. QED
      BY <1>1, <3>1 DEF ZeroLines, Backing
  <2>2. QED
    BY <2>1
<1>4. AllDelivered' = AllDelivered + Total(LinesOf(o), g)
  <2>1. ord[o].status # "DELIVERED"
    BY <1>1
  <2>2. \A l \in Lines : LineOrder[l] # o => line'[l].reserved = line[l].reserved
    BY <1>1
  <2>3. \A p \in Orders \ {o} : ord'[p].status = ord[p].status
    BY <1>1
  <2>4. LinesOf(o) \subseteq Lines /\ \A l \in LinesOf(o) : LineOrder[l] = o
    BY DEF LinesOf
  <2>5. QED
    BY <1>0, <1>1, <1>2, <1>3, <2>1, <2>2, <2>3, <2>4, DeliveredGrows
<1>5. Total(LinesOf(o), g) = Total(Active(o), Quantities)
  <2>1. g = ReservedUnits
    BY <1>1, <1>2 DEF ReservedUnits
  <2>2. QED
    BY <1>1, <2>1, OrderHolds
<1>6. Summed(Active(o), Quantities) /\ Total(Active(o), Quantities) \in Nat
  BY <1>1, OrderHolds
<1>7. AllStock = AllStock' + Total(Active(o), Quantities)
  <2>1. \A r \in Active(o) : place[r] \in Inventories /\ place[r] = res[r].inv
    BY <1>0, <1>2 DEF Active, Typed, ReservationsPlaced
  <2>2. Leave(Active(o), place, Quantities)
    <3>1. \A i \in Inventories : {r \in Active(o) : res[r].inv = i} = {r \in Active(o) : place[r] = i}
      BY <2>1
    <3>2. QED
      BY <3>1 DEF Delivering, Leave
  <2>3. \A r \in Active(o) : place[r] \in Inventories
    BY <2>1
  <2>4. QED
    BY <1>0, <1>6, <2>2, <2>3, StockMoves
<1>8. AllRoads' = AllRoads
  <2>1. \A t \in XferIds : OnTheRoad(t)' = OnTheRoad(t)
    BY <1>1, SameRoad
  <2>2. QED
    BY <2>1, RoadsRest
<1>9. QED
  BY <1>4, <1>5, <1>6, <1>7, <1>8, CountsNow, CountsNext DEF Everything, Counts

\* A step that delivers nothing and changes no stock, line or road to speak of.
LEMMA RestingCounts ==
    ASSUME NoneDelivered, StockRests,
           \A l \in DeliveredLines : line'[l].reserved = line[l].reserved,
           \A t \in XferIds : OnTheRoad(t)' = OnTheRoad(t)
    PROVE  Everything' = Everything
  BY DeliveredRest, RoadsRest, StockSame DEF Everything

LEMMA StockAndRoads ==
    ASSUME NEW t,
           OnTheRoad(t) \in Int, OnTheRoad(t)' \in Int,
           AllStock \in Int, AllRoads \in Int, AllStock' \in Int, AllRoads' \in Int,
           AllStock' + OnTheRoad(t)' = AllStock + OnTheRoad(t),
           AllRoads' + OnTheRoad(t) = AllRoads + OnTheRoad(t)'
    PROVE  AllStock' + AllRoads' = AllStock + AllRoads
<1>1. PICK a, b, x : a = AllStock' /\ b = AllRoads' /\ x = OnTheRoad(t)'
  OBVIOUS
<1>2. a \in Int /\ b \in Int /\ x \in Int
  BY <1>1, Zenon
<1>3. a + x = AllStock + OnTheRoad(t) /\ b + OnTheRoad(t) = AllRoads + x
  BY <1>1, Zenon
<1>4. a + b = AllStock + AllRoads
  BY <1>2, <1>3
<1>5. QED
  BY <1>1, <1>4, Zenon

LEMMA MovingCounts ==
    ASSUME TransfersKept, TransfersKept', NoneDelivered, NEW t \in XferIds, Others({t}),
           \A l \in DeliveredLines : line'[l].reserved = line[l].reserved,
           AllStock' + OnTheRoad(t)' = AllStock + OnTheRoad(t)
    PROVE  Everything' = Everything
<1>1. Counts /\ Counts'
  BY CountsNow, CountsNext
<1>2. AllRoads' + OnTheRoad(t) = AllRoads + OnTheRoad(t)'
  BY <1>1, RoadMoves DEF Counts
<1>3. AllDelivered' = AllDelivered
  BY DeliveredRest
<1>4. OnTheRoad(t) \in Int /\ OnTheRoad(t)' \in Int
  BY <1>1 DEF Counts, RoadFacts
<1>5. AllStock \in Int /\ AllRoads \in Int /\ AllDelivered \in Int
  BY <1>1 DEF Counts
<1>6. AllStock' \in Int /\ AllRoads' \in Int
  BY <1>1 DEF Counts
<1>7. Everything = AllStock + AllRoads + AllDelivered
  BY DEF Everything
<1>8. Everything' = AllStock' + AllRoads' + AllDelivered'
  BY DEF Everything
<1>9. AllStock' + AllRoads' = AllStock + AllRoads
  BY <1>2, <1>4, <1>5, <1>6, StockAndRoads
<1>10. QED
  BY <1>3, <1>5, <1>7, <1>8, <1>9

\* Units are missing of a transfer whose order is not delivered.
LEMMA MissingOfOpen ==
    ASSUME Typed, ItemsOfLines, Gathered, NEW t \in XferIds, NEW disc, Arrives(t, disc),
           NEW l \in DeliveredLines
    PROVE  line'[l].reserved = line[l].reserved
<1> DEFINE lost == {k \in Items(t) : ForOrder(t) /\ xfer[t].items[k].line = l}
<1>1. l \in Lines /\ LineOrder[l] \in Orders /\ ord[LineOrder[l]].status = "DELIVERED"
  BY ErpAssumption DEF DeliveredLines
<1>2. lost = {}
  <2>1. ASSUME NEW k \in lost PROVE FALSE
    <3>1. xfer[t].ord = LineOrder[l]
      BY <2>1 DEF ItemsOfLines, LinesOf
    <3>2. MovingFor(LineOrder[l]) = {}
      BY <1>1 DEF Gathered
    <3>3. QED
      BY <3>1, <3>2 DEF MovingFor, Arrives
  <2>2. QED
    BY <2>1
<1>3. Total(lost, disc) = 0
  BY <1>2, TotalEmpty, Zenon
<1>4. line' = WithShortages(t, disc)
  BY DEF Arrives
<1>5. line'[l].reserved = line[l].reserved - Total(lost, disc)
  BY <1>1, <1>4, ShortagesKeepQuantities
<1>6. QED
  BY <1>1, <1>3, <1>5, LineType

LEMMA DeedCounts ==
    ASSUME PlainCalls, Sealed, Books, Next PROVE Everything' = Everything
<1>0. /\ TransfersKept /\ TransfersKept' /\ Typed /\ Typed' /\ Backing /\ Deed
      /\ LinesPlaced /\ ZeroLines /\ ItemsOfLines /\ Gathered
  BY NextDeeds DEF Keeps, Books, Backing
<1>1. ASSUME NEW o \in Orders, NEW L, NEW q, NEW at, Sells(o, L, q, at) PROVE Everything' = Everything
  BY <1>0, <1>1, SellingCounts
<1>2. ASSUME NEW o \in Orders, Delivering(o) PROVE Everything' = Everything
  BY <1>0, <1>2, DeliveringCounts DEF PlainCalls
<1>3. ASSUME UNCHANGED xfer, NEW t \in XferIds PROVE OnTheRoad(t)' = OnTheRoad(t)
  BY <1>3, SameRoad
<1>4. ASSUME NoneDelivered, Calm PROVE Everything' = Everything
  <2>1. \A l \in DeliveredLines : line'[l].reserved = line[l].reserved
    BY <1>4 DEF Calm, LinesRest, DeliveredLines
  <2>2. StockRests /\ UNCHANGED xfer
    BY <1>4 DEF Calm
  <2>3. QED
    BY <1>3, <1>4, <2>1, <2>2, RestingCounts
<1>5. ASSUME NEW T, NEW o, NEW source, AsksFor(T, o, source), NEW t \in XferIds
      PROVE  OnTheRoad(t)' = OnTheRoad(t)
  <2>1. WayFacts /\ WayFacts'
    BY <1>0, WaysAdded, WaysAddedNext DEF TransfersKept
  <2>2. QED
    BY <1>0, <1>5, <2>1, AskedRest
<1>6. ASSUME NoneDelivered, NEW o \in Orders, NEW L, NEW q, NEW got, NEW at, NEW anchor,
             Promises(o, L, q, got, at, anchor)
      PROVE  Everything' = Everything
  <2>1. \A t \in XferIds : OnTheRoad(t)' = OnTheRoad(t)
    <3>1. CASE UNCHANGED xfer
      BY <1>3, <3>1
    <3>2. CASE EnsureRemoteTransfers(res', o, ord'[o].source)
      BY <1>0, <1>5, <3>2, RemoteTransfersDo
    <3>3. QED
      BY <1>6, <3>1, <3>2 DEF Promises
  <2>2. ASSUME NEW l \in DeliveredLines PROVE line'[l].reserved = line[l].reserved
    <3>1. l \in Lines /\ ord[LineOrder[l]].status = "DELIVERED"
      BY DEF DeliveredLines
    <3>2. l \notin L
      BY <1>6, <3>1 DEF Promises, Ordered, Placed
    <3>3. line'[l] = line[l]
      BY <1>6, <3>1, <3>2 DEF Promises, Ordered
    <3>4. QED
      BY <3>3
  <2>3. QED
    BY <1>6, <2>1, <2>2, RestingCounts DEF Promises
<1>7. ASSUME NoneDelivered, NEW l, NEW n, Reserves(l, n) \/ Releases(l, n),
             ord[LineOrder[l]].status # "DELIVERED"
      PROVE  Everything' = Everything
  <2>1. OtherLines(l) /\ UNCHANGED xfer /\ StockRests
    BY <1>7 DEF Reserves, Releases
  <2>2. \A m \in DeliveredLines : line'[m].reserved = line[m].reserved
    BY <1>7, <2>1 DEF OtherLines, DeliveredLines
  <2>3. QED
    BY <1>3, <1>7, <2>1, <2>2, RestingCounts
<1>8. ASSUME NoneDelivered, NEW o \in Orders, Cancelling(o) PROVE Everything' = Everything
  <2>1. UNCHANGED <<line, xfer>> /\ StockRests
    BY <1>8 DEF Cancelling, Settling
  <2>2. QED
    BY <1>3, <1>8, <2>1, RestingCounts
<1>9. ASSUME NoneDelivered, UNCHANGED <<inv, line, res>>, NEW T, NEW o, NewlyAsked(T, o)
      PROVE  Everything' = Everything
  <2>1. \E source : AsksFor(T, o, source)
    BY <1>9 DEF NewlyAsked
  <2>2. \A t \in XferIds : OnTheRoad(t)' = OnTheRoad(t)
    BY <1>5, <2>1
  <2>3. QED
    BY <1>9, <2>2, RestingCounts DEF StockRests
<1>10. ASSUME NoneDelivered, NEW t \in XferIds, Carries(t) PROVE Everything' = Everything
  <2>1. UNCHANGED line /\ Others({t}) /\ AllStock' + OnTheRoad(t)' = AllStock + OnTheRoad(t)
    BY <1>10 DEF Carries, Follows
  <2>2. QED
    BY <1>0, <1>10, <2>1, MovingCounts
<1>11. ASSUME NoneDelivered, NEW t \in XferIds, NEW disc, Arrives(t, disc)
       PROVE  Everything' = Everything
  <2>1. Others({t}) /\ AllStock' + OnTheRoad(t)' = AllStock + OnTheRoad(t)
    BY <1>11 DEF Arrives, Follows
  <2>2. \A l \in DeliveredLines : line'[l].reserved = line[l].reserved
    BY <1>0, <1>11, MissingOfOpen
  <2>3. QED
    BY <1>0, <1>11, <2>1, <2>2, MovingCounts
<1>12. QED
  BY <1>0, <1>1, <1>2, <1>4, <1>6, <1>7, <1>8, <1>9, <1>10, <1>11 DEF Deed

LEMMA InitCounts == Init => UnitsAccounted
<1> SUFFICES ASSUME Init PROVE UnitsAccounted
  OBVIOUS
<1>1. Typed
  BY InitTyped
<1>2. AllStock = Total(Inventories, InitialStock)
  <2>1. \A i \in Inventories : StockOf[i] = InitialStock[i]
    BY DEF Init, StockOf
  <2>2. QED
    BY <2>1, TotalSame DEF AllStock
<1>3. AllRoads = 0
  <2>1. ASSUME NEW t \in XferIds PROVE OnTheRoad(t) = 0
    <3>1. Items(t) = {} /\ xfer[t].status # "CANCELLED"
      BY DEF Init, Items, NoTransfer, NoItem, Item
    <3>2. QED
      BY <3>1, TotalEmpty, Zenon DEF OnTheRoad
  <2>2. Summed(XferIds, Roads) /\ \A t \in XferIds : Roads[t] <= 0
    BY <2>1, TransfersAreFinite DEF Summed, Roads
  <2>3. QED
    BY <2>2, TotalZero DEF AllRoads
<1>4. AllDelivered = 0
  <2>1. DeliveredLines = {}
    BY ErpAssumption DEF Init, NoOrder, DeliveredLines
  <2>2. QED
    BY <2>1, TotalEmpty, Zenon DEF AllDelivered
<1>5. AllStock \in Nat
  BY <1>1, AllStockIsNat
<1>6. Everything = Total(Inventories, InitialStock)
  BY <1>2, <1>3, <1>4, <1>5 DEF Everything
<1>7. QED
  BY <1>6 DEF UnitsAccounted, Everything, AllStock, StockOf, AllRoads, Roads, AllDelivered

LEMMA NextCounts ==
    ASSUME PlainCalls, Sealed, Books, UnitsAccounted, [Next]_vars PROVE UnitsAccounted'
<1>1. Everything = Total(Inventories, InitialStock)
  BY DEF UnitsAccounted, Everything, AllStock, StockOf, AllRoads, Roads, AllDelivered
<1>2. CASE Next
  <2>1. Everything' = Total(Inventories, InitialStock)
    BY <1>1, <1>2, DeedCounts
  <2>2. QED
    BY <2>1 DEF UnitsAccounted, Everything, AllStock, StockOf, AllRoads, Roads, AllDelivered
<1>3. CASE UNCHANGED vars
  <2>1. UNCHANGED <<inv, ord, line, xfer>>
    BY <1>3 DEF vars
  <2>2. NoneDelivered /\ StockRests
    BY <2>1 DEF NoneDelivered, StockRests
  <2>3. \A t \in XferIds : OnTheRoad(t)' = OnTheRoad(t)
    BY <2>1, SameRoad
  <2>4. Everything' = Everything
    BY <2>1, <2>2, <2>3, RestingCounts
  <2>5. QED
    BY <1>1, <2>4 DEF UnitsAccounted, Everything, AllStock, StockOf, AllRoads, Roads, AllDelivered
<1>4. QED
  BY <1>2, <1>3

\* Units are neither made nor lost, however orders, reservations and transfers mix:
\* what was in the stores at the start is there, on the road or reported missing, or
\* delivered.  createMovement() and registerOrderReturn() are the two calls through
\* which units come from outside and go there.
THEOREM UnitsAlwaysAccounted ==
    ASSUME PlainCalls, Sealed
    PROVE  Spec => []UnitsAccounted
<1>1. Books /\ UnitsAccounted /\ [Next]_vars => UnitsAccounted'
  BY NextCounts
<1>2. QED
  BY <1>1, InitCounts, AlwaysBooks, PTL DEF Spec
=============================================================================
