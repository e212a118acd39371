------------------------------ MODULE Fulfilment ------------------------------
(* The order fulfilment of one tenant: every handler of order.service.ts and  *)
(* inventory.service.ts that is modelled, interleaved, and what it promises.  *)
EXTENDS Picking

DeskNext(s) ==
    \E o \in Orders : CreateOrder(s, o) \/ CreateMarketplaceOrder(s, o)

StatusNext(s) ==
    \/ \E o \in Orders, target \in OrderStatus : UpdateStatusRead(s, o, target)
    \/ UpdateStatusLock(s)
    \/ ConfirmOrder(s)
    \/ CancelOrder(s)
    \/ CompleteReturn(s)
    \/ DeliverOrder(s)
    \/ MoveOrder(s)

LineNext(s) ==
    \/ \E l \in Lines :
          \/ \E store \in Stores : ReserveRead(s, l, store)
          \/ \E store \in Stores \union {Null} : ReleaseRead(s, l, store)
          \/ ShortageRead(s, l)
    \/ ReserveWrite(s)
    \/ ReleaseWrite(s)
    \/ ShortageWrite(s)
    \/ \E o \in Orders : RegisterOrderReturn(s, o)

PickingNext(s) ==
    \/ \E o \in Orders : StartPickingRead(s, o) \/ PickAllRead(s, o) \/ CompletePickingRead(s, o)
    \/ \E l \in Lines : PickLineRead(s, l)
    \/ StartPickingSession(s)
    \/ StartPickingStatus(s)
    \/ PickWrite(s)
    \/ SyncRead(s)
    \/ SyncWrite(s)
    \/ CompletePickingWrite(s)
    \/ FinishPickingTask(s)
    \/ CountOpenPickingTasks(s)
    \/ \E o \in Orders :
          \/ \E store \in Stores : TaskRead(s, o, store)
          \/ CompletePacking(s, o)

Next ==
    \/ WarehouseNext
    \/ \E s \in Slots :
          \/ DeskNext(s)
          \/ CreateOrderReview(s)
          \/ StatusNext(s)
          \/ LineNext(s)
          \/ PickingNext(s)
          \/ Abort(s)

Spec == Init /\ [][Next]_vars

-----------------------------------------------------------------------------
(* Types.                                                                    *)

TaskStatus == {"NONE", "OPEN", "COMPLETED", "CANCELLED"}

InventoryRow == [stock : Nat, reserved : Nat]
OrderRow == [status : OrderStatus \union {"ABSENT"}, channel : {"POS", "INTERNAL", "ECOMMERCE"},
             source : Stores \union {Null}, fulfil : Stores \union {Null},
             session : {"NONE", "IN_PROGRESS", "COMPLETED", "CANCELLED"}]
LineRow == [qty : Nat, reserved : Int, picked : Nat, shortage : Nat, returned : Nat,
            store : Stores \union {Null}]
ReservationRow == [status : {"ABSENT", "ACTIVE", "COMPLETED", "RELEASED"},
                   ord : Orders \union {Null}, line : Lines \union {Null},
                   inv : Inventories \union {Null}, qty : Nat]
ItemRow == [line : Lines \union {Null}, variant : Variants \union {Null},
            qty : Nat, disp : Nat, rec : Nat, disc : Nat]
TransferRow == [status : {"ABSENT", "PENDING", "IN_TRANSIT", "PARTIALLY_RECEIVED", "RECEIVED",
                          "CANCELLED"},
                from : Stores \union {Null}, to : Stores \union {Null},
                ord : Orders \union {Null}, items : [ItemKeys -> ItemRow]]
TaskRow == [review : TaskStatus, picking : [Stores -> TaskStatus], packing : TaskStatus,
            delivery : TaskStatus]

\* The columns of the tables have their types; the quantities of OrderItem that
\* no CHECK constraint guards may be any integer.
TypeOK ==
    /\ inv \in [Inventories -> InventoryRow]
    /\ ord \in [Orders -> OrderRow]
    /\ line \in [Lines -> LineRow]
    /\ res \in [ResIds -> ReservationRow]
    /\ xfer \in [XferIds -> TransferRow]
    /\ task \in [Orders -> TaskRow]
    /\ DOMAIN req = Slots

-----------------------------------------------------------------------------
(* Properties of the stock.                                                  *)

\* The reserved units of an inventory are those of its ACTIVE reservations:
\* the ledger that auditReservedStock() audits.
LedgerBalanced == \A i \in Inventories : inv[i].reserved = Total(ActiveOn(i), Quantities)

\* No sequence of requests reserves more of an inventory than there is, with
\* the conditional updates alone (order-reservation.queries.ts), before the
\* CHECK constraint has anything to reject.
NeverOversold == Sound(inv)

\* What an item of a transfer has been through agrees with the status of the
\* transfer, and no more of it arrives or is missing than left.
TransferBalanced ==
    \A t \in XferIds : \A k \in ItemKeys :
        LET item == xfer[t].items[k]
            status == xfer[t].status
        IN  /\ item.rec + item.disc <= item.disp
            /\ status = "ABSENT" => item.qty = 0
            /\ status \in {"ABSENT", "PENDING"} => item.disp = 0
            /\ status \in {"IN_TRANSIT", "PARTIALLY_RECEIVED", "RECEIVED"} => item.disp = item.qty
            /\ status \in {"IN_TRANSIT", "CANCELLED"} => item.rec + item.disc = 0
            /\ status = "RECEIVED" => item.rec + item.disc = item.disp

\* inventory.service.ts keeps the contract of a transfer, in every interleaving.
Phase == [ABSENT |-> "NONE", PENDING |-> "ASKED", IN_TRANSIT |-> "MOVING",
          PARTIALLY_RECEIVED |-> "MOVING", RECEIVED |-> "OVER", CANCELLED |-> "CALLED_OFF"]
Contract == INSTANCE TransferContract WITH
    Transfers <- XferIds, Keys <- ItemKeys,
    phase <- [t \in XferIds |-> Phase[xfer[t].status]],
    asked <- [t \in XferIds |-> [k \in ItemKeys |-> xfer[t].items[k].qty]],
    sent <- [t \in XferIds |-> [k \in ItemKeys |-> xfer[t].items[k].disp]],
    arrived <- [t \in XferIds |-> [k \in ItemKeys |-> xfer[t].items[k].rec]],
    missing <- [t \in XferIds |-> [k \in ItemKeys |-> xfer[t].items[k].disc]]

\* The transfers of the program do what TransferContract allows, and no more:
\* each goes forward only, leaves once and is settled once, whoever races.
TransfersKeepContract == Contract!Spec

\* Every unit is somewhere: in a store, on the road or reported missing (what
\* left and did not arrive), or delivered (the reserved units of its lines).
OnTheRoad(t) ==
    IF xfer[t].status = "CANCELLED" THEN 0
    ELSE Total(Items(t), [k \in Items(t) |-> xfer[t].items[k].disp - xfer[t].items[k].rec])
ReservedUnits == [l \in Lines |-> line[l].reserved]
DeliveredLines == {l \in Lines : ord[LineOrder[l]].status = "DELIVERED"}

\* Units are neither made nor lost by orders and transfers, however these mix:
\* "conserva las unidades".
UnitsAccounted ==
    Total(Inventories, [i \in Inventories |-> inv[i].stock])
        + Total(XferIds, [t \in XferIds |-> OnTheRoad(t)])
        + Total(DeliveredLines, ReservedUnits)
    = Total(Inventories, InitialStock)

-----------------------------------------------------------------------------
(* Properties of an order.                                                   *)

\* An order that is over holds no stock: cancelling it released its
\* reservations, delivering it consumed them.
ClosedHoldsNothing ==
    \A o \in Orders : ord[o].status \in Closed => Active(o) = {}

\* An order that is over stays over: validTransitions lets nothing out of
\* DELIVERED and CANCELLED, and no other handler should.
ClosedIsFinal ==
    [][\A o \in Orders : ord[o].status \in Closed => ord'[o].status = ord[o].status]_ord

\* G1, C1: an order that is over is not completed, confirmed, delivered or
\* cancelled again by a request that had looked at it before.
ClosedIsNotCompleted ==
    [][\A o \in Orders : ord[o].status \in Closed =>
           ord'[o].status \in {ord[o].status, "PREPARING"}]_ord

\* G3: nothing more is picked of an order that is over or being returned.
NothingPickedAfterClose ==
    [][\A l \in Lines : ord[LineOrder[l]].status \in Closed \union {"RETURN_PENDING"} =>
           line'[l].picked <= line[l].picked]_<<line, ord>>

\* What the guards under the lock are for: a request that looked at the order
\* before it was closed changes nothing of it.
ClosedIsLeftAlone == ClosedIsNotCompleted /\ NothingPickedAfterClose

\* G2: an order with picked goods is not CANCELLED before they are returned.
PickedGoodsComeBack ==
    [][\A o \in Orders :
           ord'[o].status = "CANCELLED" /\ ord[o].status \notin {"CANCELLED", "RETURN_PENDING"} =>
               \A l \in LinesOf(o) : line[l].picked = 0]_ord

\* G5: the stock pays for what is delivered.
Stock(table, v) == Total(Stores, [z \in Stores |-> table[<<z, v>>].stock])
LinesWith(o, v) == {l \in LinesOf(o) : LineVariant[l] = v}

\* Whenever an order becomes DELIVERED, the physical stock of each variant
\* drops by at least what its lines owe the customer.
DeliveryIsPaid ==
    [][\A o \in Orders, v \in Variants :
           ord'[o].status = "DELIVERED" /\ ord[o].status \notin {"ABSENT", "DELIVERED"} =>
               Stock(inv, v) - Stock(inv', v) >=
                   Total(LinesWith(o, v), [l \in Lines |-> Demand(l)])]_<<inv, ord>>

\* No more of a line comes back from the customer than was delivered.
ReturnsWithinDelivered ==
    \A l \in Lines : line[l].returned <= Demand(l)

-----------------------------------------------------------------------------
(* Properties of the lines.                                                  *)

\* C4: nobody has picked more of a line than is reserved for it.
PickedWithinReserved ==
    \A l \in Lines : line[l].picked <= line[l].reserved

\* C6: two reservations for one line never exceed what was ordered.
LinesNotOverReserved ==
    \A l \in Lines : line[l].reserved <= line[l].qty

HeldFor(o, v) == Total({r \in Active(o) : res[r].inv[2] = v}, Quantities)
MovingItems(o, v) ==
    {p \in XferIds \X ItemKeys : /\ xfer[p[1]].ord = o /\ p[2] \in Items(p[1])
                                 /\ xfer[p[1]].items[p[2]].variant = v
                                 /\ xfer[p[1]].status # "CANCELLED"}
OnTheWayFor(o, v) ==
    Total(MovingItems(o, v), [p \in MovingItems(o, v) |-> Left(xfer[p[1]].items[p[2]])])

\* What the lines of an order that goes on believe to be reserved for them is
\* reserved for their order, or on the road to it, variant by variant.
LinesBacked ==
    \A o \in Orders, v \in Variants :
        ord[o].status \notin Closed =>
            Total(LinesWith(o, v), ReservedUnits) = HeldFor(o, v) + OnTheWayFor(o, v)

\* The lines agree with one another and with the reservations.
LinesAgree == PickedWithinReserved /\ ReturnsWithinDelivered /\ LinesBacked

\* What is reserved exists, and is what somebody ordered.
NothingOversold == NeverOversold /\ LinesNotOverReserved
=============================================================================
