------------------------------ MODULE OrderDesk ------------------------------
(* presentation/services/order.service.ts: the creation of orders, and the    *)
(* transfers and tasks that an order brings with it.                          *)
EXTENDS Warehouse

\* inv as the constants of an UPDATE: f[l] units of line l at inventory at[l].
PerLine(L, at, f) == [i \in Inventories |-> Total({l \in L : at[l] = i}, f)]

-----------------------------------------------------------------------------
(* Transfers and tasks that an order brings with it.                         *)

RemoteReservations(table, o, from) ==
    {r \in ResIds : table[r].status = "ACTIVE" /\ table[r].ord = o /\ table[r].inv[1] = from}

RemoteStores(table, o, source) ==
    {from \in Stores \ {source} :
        /\ RemoteReservations(table, o, from) # {}
        /\ ~ \E t \in XferIds : /\ xfer[t].ord = o /\ xfer[t].from = from /\ xfer[t].to = source
                                /\ xfer[t].status \notin {"ABSENT", "CANCELLED"}}

\* ensureRemoteTransfersForOrder(), against the reservations in table: one new
\* transfer for each of those stores.  The unique index on reservationId aborts
\* the transaction when a cancelled transfer still names one of its
\* reservations.
EnsureRemoteTransfers(table, o, source) ==
    LET from == RemoteStores(table, o, source)
        held(store) == RemoteReservations(table, o, store)
    IN  /\ \A store \in from, t \in XferIds : ForOrder(t) => Items(t) \intersect held(store) = {}
        /\ \E new \in [UsedXfer + 1 .. UsedXfer + Cardinality(from) -> from] :
             /\ DOMAIN new \subseteq XferIds
             /\ \A store \in from : \E t \in DOMAIN new : new[t] = store
             /\ xfer' = [t \in XferIds |->
                           IF t \in DOMAIN new
                           THEN [status |-> "PENDING", from |-> new[t], to |-> source, ord |-> o,
                                 items |-> [r \in ItemKeys |->
                                              IF r \in held(new[t])
                                              THEN Item(table[r].line, table[r].inv[2], table[r].qty)
                                              ELSE NoItem]]
                           ELSE xfer[t]]

\* createPickingTasksForOrder(): one task per store, once; the review ends.
WithPickingTasks(row, stores) ==
    [row EXCEPT !.picking = [s \in Stores |-> IF s \in stores /\ row.picking[s] = "NONE"
                                              THEN "OPEN" ELSE row.picking[s]],
                !.review = IF row.review = "OPEN" THEN "COMPLETED" ELSE row.review]

\* closeDeliveryTasksForOrder(): the picking tasks are not touched.
WithoutDeliveryTasks(row, outcome) ==
    LET closed(status) == IF status = "OPEN" THEN outcome ELSE status
    IN  [row EXCEPT !.packing = closed(row.packing), !.delivery = closed(row.delivery)]

-----------------------------------------------------------------------------
(* New orders.                                                               *)

\* The transaction of createOrder(), for the lines L of o.  Under the row locks
\* of its inventories, a POS sale from the store itself takes the stock at once;
\* otherwise the units are reserved line by line, and transfers are opened for
\* other stores.
PlaceOrder(o, channel, source, L, q, store, chosen) ==
    LET stores == {store[l] : l \in L}
        remote == stores # {source}
        direct == channel = "POS" /\ ~remote
        fulfil == IF Cardinality(stores) = 1 THEN CHOOSE f \in stores : TRUE ELSE chosen
        at == [l \in L |-> <<store[l], LineVariant[l]>>]
        asked == PerLine(L, at, q)
    IN  /\ Cardinality(stores) = 1 => chosen = Null
        /\ \A i \in Inventories : asked[i] > 0 => Available(i) >= asked[i]
        /\ inv' = IF direct THEN Booked(Minus(asked), Nothing) ELSE Booked(Nothing, asked)
        /\ \E new \in NewReservations(IF direct THEN {} ELSE L) :
             res' = Inserted([r \in DOMAIN new |->
                                Reservation(o, new[r], at[new[r]], q[new[r]])])
        /\ line' = [l \in Lines |->
                      IF l \in L
                      THEN [NoLine EXCEPT !.qty = q[l], !.reserved = q[l], !.store = store[l],
                                          !.picked = IF direct THEN q[l] ELSE 0]
                      ELSE line[l]]
        /\ ord' = [ord EXCEPT ![o] =
                     [NoOrder EXCEPT !.status = IF direct THEN "DELIVERED"
                                                ELSE IF remote THEN "WAITING_TRANSFER"
                                                ELSE "PENDING",
                                     !.channel = channel, !.source = source,
                                     !.fulfil = fulfil]]
        /\ IF remote
           THEN /\ EnsureRemoteTransfers(res', o, source)
                /\ task' = [task EXCEPT ![o] = WithPickingTasks(task[o], stores)]
           ELSE UNCHANGED <<xfer, task>>

\* createOrder(): o stands for the idempotency key of the sale: a replay, found
\* before the transaction or by the unique index inside it, returns the order
\* that exists and changes nothing.
CreateOrder(s, o) ==
    /\ Starts(s, "place")
    /\ ~Placed(o)
    /\ \E channel \in {"POS", "INTERNAL"}, source \in Stores,
          L \in (SUBSET {l \in Lines : LineOrder[l] = o}) \ {{}} :
       \E q \in [L -> 1..MaxQty], store \in [L -> Stores], chosen \in Stores \union {Null} :
         PlaceOrder(o, channel, source, L, q, store, chosen)
    /\ UNCHANGED req

\* The transaction of createMarketplaceOrder(): under the row locks of the
\* store, it reserves what there is, line by line, without anchoring it to the
\* line.
PlaceMarketplaceOrder(o, source, L, q, autoReserveStock) ==
    LET at == [l \in L |-> <<source, LineVariant[l]>>]
        before(l) == Total({m \in L : m < l /\ LineVariant[m] = LineVariant[l]}, q)
        got == [l \in L |-> IF autoReserveStock
                            THEN Least(q[l], Greatest(0, Available(at[l]) - before(l)))
                            ELSE 0]
    IN  /\ inv' = Booked(Nothing, PerLine(L, at, got))
        /\ Sound(inv')
        /\ \E new \in NewReservations({l \in L : got[l] > 0}) :
             res' = Inserted([r \in DOMAIN new |->
                                Reservation(o, Null, at[new[r]], got[new[r]])])
        /\ line' = [l \in Lines |->
                      IF l \in L THEN [NoLine EXCEPT !.qty = q[l], !.reserved = got[l]]
                      ELSE line[l]]
        /\ ord' = [ord EXCEPT ![o] =
                     [NoOrder EXCEPT !.status = "PENDING", !.channel = "ECOMMERCE",
                                     !.source = source, !.fulfil = source]]

CreateMarketplaceOrder(s, o) ==
    /\ Starts(s, "checkout")
    /\ ~Placed(o)
    /\ \E source \in Stores, L \in (SUBSET {l \in Lines : LineOrder[l] = o}) \ {{}},
          autoReserveStock \in BOOLEAN :
       \E q \in [L -> 1..MaxQty] : PlaceMarketplaceOrder(o, source, L, q, autoReserveStock)
    /\ Continue(s, [op |-> "checkout", phase |-> "review", ord |-> o])
    /\ UNCHANGED <<xfer, task>>

\* ... and, after the commit, createOrderReview().
CreateOrderReview(s) ==
    /\ At(s, "checkout", "review")
    /\ LET o == req[s].ord
       IN  /\ Unlocked(o, s)
           /\ task' = [task EXCEPT ![o].review = IF task[o].review = "NONE" THEN "OPEN"
                                                 ELSE task[o].review]
    /\ Finish(s)
    /\ UNCHANGED <<inv, ord, line, res, xfer>>
=============================================================================
