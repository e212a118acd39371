----------------------------- MODULE OrderStatus -----------------------------
(* presentation/services/order.service.ts, updateOrderStatus(): three steps.  *)
(* It reads the order, validates the transition; then, in a transaction, it   *)
(* locks the order row, checks that the status is still the one it read and   *)
(* lists the ACTIVE reservations; and it writes.  Other requests may act      *)
(* between two steps, as far as the lock of the order row lets them.          *)
EXTENDS OrderDesk

Cancellable == {"CANCELLED", "RETURN_PENDING"}

ValidTransitions ==
    [PENDING          |-> {"CONFIRMED", "WAITING_STOCK"} \union Cancellable,
     CONFIRMED        |-> {"PREPARING", "WAITING_TRANSFER"} \union Cancellable,
     WAITING_STOCK    |-> {"CONFIRMED"} \union Cancellable,
     WAITING_TRANSFER |-> {"PREPARING"} \union Cancellable,
     PREPARING        |-> Cancellable,
     READY            |-> {"DELIVERED"} \union Cancellable,
     DELIVERED        |-> {},
     RETURN_PENDING   |-> {"CANCELLED"},
     CANCELLED        |-> {}]

\* isEcommerceGuideConfirmationRetry: CONFIRMED again.
ConfirmationRetry(o, target) ==
    /\ ord[o].status = "CONFIRMED" /\ target = "CONFIRMED"
    /\ ord[o].channel = "ECOMMERCE"
    /\ Active(o) = {}

\* reserveMarketplaceGuideForConfirmation(): looks at the lines as first read.
GuideReserved(o) ==
    ord[o].channel = "ECOMMERCE" => \A l \in LinesOf(o) : line[l].reserved >= line[l].qty

\* The stores of the lines, as first read, for the picking tasks.
LineStores(o) ==
    {IF line[l].store = Null THEN ord[o].source ELSE line[l].store : l \in LinesOf(o)}

UpdateStatusRead(s, o, target) ==
    /\ Starts(s, "status")
    /\ Placed(o)
    /\ target \in ValidTransitions[ord[o].status] \/ ConfirmationRetry(o, target)
    /\ target = "CONFIRMED" => GuideReserved(o)
    /\ Continue(s, [op |-> "status", phase |-> "lock", ord |-> o, target |-> target,
                    seen |-> ord[o].status, stores |-> LineStores(o)])
    /\ UNCHANGED tables

StatusNotRechecked(s) == TRUE

\* C1: the status is still the one the request was validated against.
StatusUnchanged(s) == ord[req[s].ord].status = req[s].seen

NothingPicked(o) == FALSE

\* G2: hasPickedUnits, of the lines as they are under the lock.
HasPicked(o) == \E l \in LinesOf(o) : line[l].picked > 0

\* SELECT ... FOR UPDATE, the status re-checked, the reservations and the
\* picked units read again.
UpdateStatusLock(s) ==
    /\ At(s, "status", "lock")
    /\ Unlocked(req[s].ord, s)
    /\ StatusUnchanged(s)
    /\ Continue(s, [op |-> "status", phase |-> "commit", ord |-> req[s].ord,
                    target |-> req[s].target, seen |-> req[s].seen, stores |-> req[s].stores,
                    held |-> [r \in Active(req[s].ord) |-> res[r].qty],
                    picked |-> HasPicked(req[s].ord)])
    /\ UNCHANGED tables

\* The reservations of the list that are still ACTIVE, updateMany's condition.
Held(s) == {r \in DOMAIN req[s].held : res[r].status = "ACTIVE"}

StillOn(s) == [i \in Inventories |-> Total({r \in Held(s) : res[r].inv = i}, req[s].held)]

Settled(s, status) ==
    [r \in ResIds |-> IF r \in Held(s) THEN [res[r] EXCEPT !.status = status] ELSE res[r]]

\* releaseActiveReservations(), by the quantities of the list.
ReleaseHeld(s) ==
    /\ inv' = Booked(Nothing, Minus(StillOn(s)))
    /\ Sound(inv')
    /\ res' = Settled(s, "RELEASED")

WithSessionCancelled(row) ==
    [row EXCEPT !.session = IF row.session = "IN_PROGRESS" THEN "CANCELLED" ELSE row.session]

-----------------------------------------------------------------------------

\* CONFIRMED: the order waits for the transfers that had to be opened.
ConfirmOrder(s) ==
    /\ At(s, "status", "commit")
    /\ req[s].target = "CONFIRMED"
    /\ LET o == req[s].ord
           source == ord[o].source
       IN  /\ EnsureRemoteTransfers(res, o, source)
           /\ ord' = [ord EXCEPT ![o].status = IF RemoteStores(res, o, source) # {}
                                               THEN "WAITING_TRANSFER" ELSE "CONFIRMED"]
           /\ task' = [task EXCEPT ![o] = WithPickingTasks(task[o], req[s].stores)]
    /\ Finish(s)
    /\ UNCHANGED <<inv, line, res>>

\* CANCELLED or RETURN_PENDING asked of an open order: what was picked must
\* come back first, and keeps its reservations until then.
CancelOrder(s) ==
    /\ At(s, "status", "commit")
    /\ req[s].target \in Cancellable /\ req[s].seen # "RETURN_PENDING"
    /\ LET o == req[s].ord
           row == WithSessionCancelled(ord[o])
       IN  \/ /\ req[s].picked
              /\ ord' = [ord EXCEPT ![o] = [row EXCEPT !.status = "RETURN_PENDING"]]
              /\ UNCHANGED <<inv, res, task>>
           \/ /\ ~req[s].picked
              /\ ReleaseHeld(s)
              /\ ord' = [ord EXCEPT ![o] = [row EXCEPT !.status = "CANCELLED"]]
              /\ task' = [task EXCEPT ![o] = WithoutDeliveryTasks(task[o], "CANCELLED")]
    /\ Finish(s)
    /\ UNCHANGED <<line, xfer>>

\* The picked goods are back: RETURN_PENDING becomes CANCELLED.
CompleteReturn(s) ==
    /\ At(s, "status", "commit")
    /\ req[s].target = "CANCELLED" /\ req[s].seen = "RETURN_PENDING"
    /\ LET o == req[s].ord
       IN  /\ ReleaseHeld(s)
           /\ ord' = [ord EXCEPT ![o] = [WithSessionCancelled(ord[o]) EXCEPT !.status = "CANCELLED"]]
           /\ task' = [task EXCEPT ![o] = WithoutDeliveryTasks(task[o], "CANCELLED")]
    /\ Finish(s)
    /\ UNCHANGED <<line, xfer>>

CoveredNotChecked(o) == TRUE

\* G5: no line may be short of the reservations that pay for it.
Covered(o) ==
    \A l \in LinesOf(o) : line[l].reserved >= Demand(l)

\* DELIVERED: the listed reservations that are still ACTIVE are consumed.
DeliverOrder(s) ==
    /\ At(s, "status", "commit")
    /\ req[s].target = "DELIVERED"
    /\ Covered(req[s].ord)
    /\ inv' = Booked(Minus(StillOn(s)), Minus(StillOn(s)))
    /\ Sound(inv')
    /\ res' = Settled(s, "COMPLETED")
    /\ ord' = [ord EXCEPT ![req[s].ord].status = "DELIVERED"]
    /\ task' = [task EXCEPT ![req[s].ord] = WithoutDeliveryTasks(task[req[s].ord], "COMPLETED")]
    /\ Finish(s)
    /\ UNCHANGED <<line, xfer>>

\* WAITING_STOCK, WAITING_TRANSFER or PREPARING: the status only.
MoveOrder(s) ==
    /\ At(s, "status", "commit")
    /\ req[s].target \in {"WAITING_STOCK", "WAITING_TRANSFER", "PREPARING"}
    /\ ord' = [ord EXCEPT ![req[s].ord].status = req[s].target]
    /\ Finish(s)
    /\ UNCHANGED <<inv, line, res, xfer, task>>
=============================================================================
