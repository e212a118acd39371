------------------------------ MODULE Warehouse ------------------------------
(* presentation/services/inventory.service.ts: stock movements, transfers     *)
(* between stores and free reservations.  Each handler is one transaction     *)
(* that claims or locks its row before it reads what it depends on, hence     *)
(* one action.  The TRANSFER_DISPATCH and TRANSFER_RECEIVE tasks of a         *)
(* transfer repeat its status and are left out.                               *)
EXTENDS ErpState

\* An UPDATE of several inventories, by the change of each column.
Booked(stock, reserved) ==
    [i \in Inventories |-> [stock |-> inv[i].stock + stock[i],
                            reserved |-> inv[i].reserved + reserved[i]]]

Nothing == [i \in Inventories |-> 0]

Minus(f) == [i \in Inventories |-> -f[i]]

-----------------------------------------------------------------------------

MovementUnchecked(i, delta) == inv[i].stock + delta <= MaxStock

\* OUT checks the available stock and ADJUSTMENT that the stock covers what is
\* reserved: the same condition.
MovementFits(i, delta) == inv[i].stock + delta \in inv[i].reserved..MaxStock

\* createMovement(): IN, OUT and ADJUSTMENT, under the row lock.
CreateMovement(s, i) ==
    /\ Starts(s, "movement")
    /\ \E delta \in (-MaxQty..MaxQty) \ {0} :
         /\ MovementFits(i, delta)
         /\ inv' = [inv EXCEPT ![i].stock = inv[i].stock + delta]
    /\ UNCHANGED <<ord, line, res, xfer, task, req>>

FitsPhysically(i, q) == inv[i].stock >= q

\* The condition of the UPDATE that reserves q units, re-evaluated under the
\* row lock: "stock" - "reservedStock" >= q.
Fits(i, q) == Available(i) >= q

\* createReservation(): a conditional UPDATE, for an order or for nobody; it is
\* never anchored to a line, and the status of the order is not looked at.
CreateReservation(s, i) ==
    /\ Starts(s, "reservation")
    /\ \E q \in 1..MaxQty, o \in Orders \union {Null} :
         /\ Fits(i, q)
         /\ o # Null => Placed(o) /\ Unlocked(o, s)
         /\ inv' = [inv EXCEPT ![i].reserved = inv[i].reserved + q]
         /\ \E new \in NewReservations({1}) :
              res' = Inserted([r \in DOMAIN new |-> Reservation(o, Null, i, q)])
    /\ UNCHANGED <<ord, line, xfer, task, req>>

\* reconcileReservedStock(): all inventories or one, under their row locks.
ReconcileReservedStock(s) ==
    /\ Starts(s, "reconcile")
    /\ \E S \in {Inventories} \union {{i} : i \in Inventories} :
         inv' = [i \in Inventories |->
                   IF i \in S THEN [inv[i] EXCEPT !.reserved = Total(ActiveOn(i), Quantities)]
                   ELSE inv[i]]
    /\ Sound(inv')
    /\ UNCHANGED <<ord, line, res, xfer, task, req>>

-----------------------------------------------------------------------------
(* Transfers.                                                                *)

Items(t) == {k \in ItemKeys : xfer[t].items[k].qty > 0}
Origin(t) == [k \in Items(t) |-> <<xfer[t].from, xfer[t].items[k].variant>>]
Destination(t) == [k \in Items(t) |-> <<xfer[t].to, xfer[t].items[k].variant>>]
ForOrder(t) == xfer[t].ord # Null

LeftOfArrived(item) == item.disp - item.rec

\* The units of an item that are still on the road.
Left(item) == item.disp - item.rec - item.disc

\* The sum over the items of t at each inventory place[k] of their quantity f[k].
PerInventory(t, place, f) ==
    [i \in Inventories |-> Total({k \in Items(t) : place[k] = i}, f)]

Asked(t) == [k \in Items(t) |-> xfer[t].items[k].qty]

\* createStockTransfer(): PENDING, it moves nothing and belongs to no order.
CreateStockTransfer(s) ==
    /\ Starts(s, "transfer")
    /\ UsedXfer < MaxTransfers
    /\ \E from, to \in Stores, n \in 1..MaxItems :
         /\ from # to
         /\ \E v \in [1..n -> Variants], q \in [1..n -> 1..MaxQty] :
              xfer' = [xfer EXCEPT ![UsedXfer + 1] =
                         [status |-> "PENDING", from |-> from, to |-> to, ord |-> Null,
                          items |-> [k \in ItemKeys |-> IF k \in 1..n THEN Item(Null, v[k], q[k])
                                                       ELSE NoItem]]]
    /\ UNCHANGED <<inv, ord, line, res, task, req>>

DispatchableAgain(t) == xfer[t].status \notin {"ABSENT", "CANCELLED"}

\* The status that the claiming UPDATE of dispatchStockTransfer asks for.
Dispatchable(t) == xfer[t].status = "PENDING"

\* What an item needs: available stock, or the very reservation that the
\* transfer was created for, untouched.
ItemReady(t, k) ==
    LET item == xfer[t].items[k]
        i == Origin(t)[k]
    IN  IF ForOrder(t)
        THEN /\ res[k].status = "ACTIVE"
             /\ res[k].ord = xfer[t].ord
             /\ res[k].inv = i
             /\ res[k].qty = item.qty
             /\ inv[i].stock >= item.qty /\ inv[i].reserved >= item.qty
        ELSE Available(i) >= item.qty

\* dispatchStockTransfer(): an order transfer waits for the remote picking task
\* of its store, consumes the reservation and takes the units out.
DispatchStockTransfer(s, t) ==
    /\ Starts(s, "dispatch")
    /\ Dispatchable(t)
    /\ ForOrder(t) => task[xfer[t].ord].picking[xfer[t].from] # "OPEN"
    /\ \A k \in Items(t) : ItemReady(t, k)
    /\ LET out == Minus(PerInventory(t, Origin(t), Asked(t)))
       IN  inv' = Booked(out, IF ForOrder(t) THEN out ELSE Nothing)
    /\ Sound(inv')
    /\ res' = [r \in ResIds |->
                 IF ForOrder(t) /\ r \in Items(t) THEN [res[r] EXCEPT !.status = "COMPLETED"] ELSE res[r]]
    /\ xfer' = [xfer EXCEPT ![t].status = "IN_TRANSIT",
                            ![t].items = [k \in ItemKeys |->
                               [xfer[t].items[k] EXCEPT !.disp = xfer[t].items[k].qty]]]
    /\ UNCHANGED <<ord, line, task, req>>

ReservingNothing(t, f) == {}

\* The items of an order's transfer that have units to reserve again, and the
\* reservations that new gives them.
Reserving(t, f) == {k \in Items(t) : ForOrder(t) /\ f[k] > 0}

Anchored(t, place, f, new) ==
    [r \in DOMAIN new |->
       Reservation(xfer[t].ord, xfer[t].items[new[r]].line, place[new[r]], f[new[r]])]

Outstanding(o, t) ==
    {u \in XferIds \ {t} : xfer[u].ord = o /\ xfer[u].status \notin {"ABSENT", "RECEIVED", "CANCELLED"}}

\* The lines of an order lose the units that did not arrive.
WithShortages(t, disc) ==
    [l \in Lines |->
       LET lost == Total({k \in Items(t) : ForOrder(t) /\ xfer[t].items[k].line = l}, disc)
       IN  [line[l] EXCEPT !.shortage = line[l].shortage + lost,
                           !.reserved = line[l].reserved - lost]]

\* The CHECK constraint on OrderItem that guards returns.
ReturnsSound(table) ==
    \A l \in Lines : table[l].returned <= Greatest(0, table[l].qty - table[l].shortage)

\* receiveStockTransfer(): under the lock of the transfer, some units arrive
\* and some are reported missing.  The units of an order are reserved for it at
\* the destination, whatever its status; its last transfer lets it go on.
ReceiveStockTransfer(s, t) ==
    /\ Starts(s, "receive")
    /\ xfer[t].status \in {"IN_TRANSIT", "PARTIALLY_RECEIVED"}
    /\ \E rec, disc \in [Items(t) -> 0..MaxQty] :
         LET o == xfer[t].ord
             items == [k \in ItemKeys |->
                         IF k \in Items(t)
                         THEN [xfer[t].items[k] EXCEPT !.rec = xfer[t].items[k].rec + rec[k],
                                                       !.disc = xfer[t].items[k].disc + disc[k]]
                         ELSE NoItem]
             complete == \A k \in Items(t) : Left(items[k]) = 0
             arrived == PerInventory(t, Destination(t), rec)
         IN  /\ \A k \in Items(t) : rec[k] + disc[k] <= Greatest(0, Left(xfer[t].items[k]))
             /\ \E k \in Items(t) : rec[k] + disc[k] > 0
             /\ ForOrder(t) /\ (Reserving(t, rec) # {} \/ complete) => Unlocked(o, s)
             /\ inv' = Booked(arrived, IF ForOrder(t) THEN arrived ELSE Nothing)
             /\ \E new \in NewReservations(Reserving(t, rec)) :
                  res' = Inserted(Anchored(t, Destination(t), rec, new))
             /\ line' = WithShortages(t, disc)
             /\ ReturnsSound(line')
             /\ xfer' = [xfer EXCEPT
                           ![t].status = IF complete THEN "RECEIVED" ELSE "PARTIALLY_RECEIVED",
                           ![t].items = items]
             /\ ord' = IF /\ ForOrder(t) /\ complete /\ Outstanding(o, t) = {}
                          /\ ord[o].status = "WAITING_TRANSFER"
                       THEN [ord EXCEPT ![o].status = "PREPARING"]
                       ELSE ord
    /\ UNCHANGED <<task, req>>

RecallableWhileMoving(t) == xfer[t].status \in {"IN_TRANSIT", "PARTIALLY_RECEIVED"}

\* The status, besides PENDING, that cancelStockTransfer() claims.
Recallable(t) == xfer[t].status = "IN_TRANSIT"

\* cancelStockTransfer(): claims the status it read.  Nothing left the origin
\* of a PENDING one; the units of one IN_TRANSIT come back to it, and are
\* reserved again for their order, whatever its status.
CancelStockTransfer(s, t) ==
    /\ Starts(s, "cancelTransfer")
    /\ \/ /\ xfer[t].status = "PENDING"
          /\ UNCHANGED <<inv, res>>
       \/ /\ Recallable(t)
          /\ Reserving(t, Asked(t)) # {} => Unlocked(xfer[t].ord, s)
          /\ LET back == PerInventory(t, Origin(t), Asked(t))
             IN  inv' = Booked(back, IF ForOrder(t) THEN back ELSE Nothing)
          /\ \E new \in NewReservations(Reserving(t, Asked(t))) :
               res' = Inserted(Anchored(t, Origin(t), Asked(t), new))
    /\ xfer' = [xfer EXCEPT ![t].status = "CANCELLED"]
    /\ UNCHANGED <<ord, line, task, req>>

-----------------------------------------------------------------------------

WarehouseNext ==
    \E s \in Slots :
        \/ \E i \in Inventories : CreateMovement(s, i) \/ CreateReservation(s, i)
        \/ ReconcileReservedStock(s)
        \/ CreateStockTransfer(s)
        \/ \E t \in XferIds : \/ DispatchStockTransfer(s, t)
                              \/ ReceiveStockTransfer(s, t)
                              \/ CancelStockTransfer(s, t)
=============================================================================
