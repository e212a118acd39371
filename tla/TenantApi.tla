------------------------------- MODULE TenantApi ------------------------------
(* A request to the API of a tenant (presentation/order, inventory, tasks): it  *)
(* is authorised, changes something, is noted in the history of the user, is    *)
(* announced to the screens, is answered, is noted in the audit log and only    *)
(* then committed, all in the one transaction that validateJWT opened.  What a  *)
(* service changes is the subject of the other modules; here a change is kept   *)
(* or not, and so are the three records that speak of it.                       *)
EXTENDS Naturals

CONSTANT MaxApiFaults   \* bound on refused statements, crashes and lost clients

ASSUME TenantApiAssumption == MaxApiFaults \in Nat

VARIABLES
    call,       \* the request: handler, history it asks for, rights and plan of the caller
    stage,      \* the step of the request that comes next
    status,     \* the status that the client received, 0 before
    txn,        \* what the open transaction holds
    kept,       \* what is committed
    news,       \* events dispatched to the screens
    apiFaults

apiVars == <<call, stage, status, txn, kept, news, apiFaults>>

-----------------------------------------------------------------------------
(* The handlers: the benefit of the plan and the rights (one is enough) that    *)
(* the router asks for, the history a handler writes (one of them) and the      *)
(* events it publishes.  A handler that reads writes nothing.                   *)

Route(feature, rights, history, events) ==
    [feature |-> feature, rights |-> rights, history |-> history, events |-> events, changes |-> TRUE]

Reads(feature, rights) == [Route(feature, rights, {}, {}) EXCEPT !.changes = FALSE]
PickingChange(plan, right, history) == Route(plan, {right}, history, {"ORDER_PICKING_UPDATED"})
OrderChange(plan, right, history) == Route(plan, {right}, {history}, {"ORDER_UPDATED"})
TransferChange(right, history) == Route("", {right}, {history}, {"INVENTORY_UPDATED", "TRANSFER_UPDATED"})
StockChange(right, history) == Route("", {right}, {history}, {"INVENTORY_UPDATED"})
\* A task changes without any history of the user.
TaskChange(right) == Route("tasks.operational", {right}, {}, {"TASK_UPDATED"})

createOrder == Route("", {"orders.create", "pos.sell"}, {"ORDER_CREATED", "POS_ORDER_CREATED"}, {"ORDER_CREATED"})
listOrders == Reads("", {"orders.view"})
getOrderById == Reads("", {"orders.detail.view"})
updateOrderStatus == Route("", {"orders.status.update"}, {"ORDER_STATUS_UPDATED"}, {"ORDER_STATUS_UPDATED"})
assignResponsible == Route("", {"orders.assign"}, {"ORDER_RESPONSIBLE_ASSIGNED"}, {"ORDER_RESPONSIBLE_ASSIGNED"})
getVariantStock == Reads("", {"pos.view", "inventory.view"})
getRemoteStock == Reads("fulfillment.remote", {"orders.fulfillment.manage", "inventory.view"})
getOrderReservations == Reads("", {"orders.detail.view", "inventory.view"})

Shared == "picking.collaborative"
requestPickingResponsibility == PickingChange(Shared, "picking.update", {"PICKING_RESPONSIBILITY_REQUESTED"})
delegatePickingResponsibility ==
    PickingChange(Shared, "orders.assign", {"PICKING_RESPONSIBILITY_SHARED", "PICKING_RESPONSIBILITY_TRANSFERRED"})
resolvePickingResponsibilityRequest ==
    PickingChange(Shared, "orders.assign", {"PICKING_RESPONSIBILITY_REQUEST_APPROVED", "PICKING_RESPONSIBILITY_REQUEST_REJECTED"})
requestPickingUnpickAction == PickingChange(Shared, "picking.update", {"PICKING_UNPICK_ACTION_REQUESTED"})
resolvePickingUnpickAction ==
    PickingChange(Shared, "picking.complete", {"PICKING_UNPICK_ACTION_APPROVED", "PICKING_UNPICK_ACTION_REJECTED"})

Basic == "picking.basic"
getOrderPicking == Reads(Basic, {"picking.view"})
startOrderPicking == PickingChange(Basic, "picking.start", {"PICKING_STARTED"})
updateOrderPicking == PickingChange(Basic, "picking.update", {"PICKING_UPDATED"})
updatePickingItem == PickingChange(Basic, "picking.update", {"PICKING_ITEM_UPDATED"})
updatePickingOrderItem == PickingChange(Basic, "picking.update", {"PICKING_ORDER_ITEM_UPDATED"})
completeOrderPicking == PickingChange(Basic, "picking.complete", {"PICKING_COMPLETED"})
pickAllOrderPicking == PickingChange(Basic, "picking.update", {"PICKING_ORDER_ITEM_UPDATED"})

Remote == "fulfillment.remote"
reserveRemoteStock == OrderChange(Remote, "orders.fulfillment.manage", "REMOTE_STOCK_RESERVED")
reserveAllRecommended == OrderChange(Remote, "orders.fulfillment.manage", "REMOTE_STOCK_RESERVED")
releaseRemoteStock == OrderChange(Remote, "orders.fulfillment.manage", "REMOTE_STOCK_RELEASED")
addOrderItem == OrderChange("", "orders.fulfillment.manage", "ORDER_ITEM_ADDED")
removeOrderItem == OrderChange("", "orders.fulfillment.manage", "ORDER_ITEM_REMOVED")
restoreOrderItem == OrderChange("", "orders.fulfillment.manage", "ORDER_ITEM_RESTORED")
markOrderItemShortage == OrderChange("", "orders.fulfillment.manage", "ORDER_ITEM_SHORTAGE_MARKED")

delegateReturnResponsibility ==
    Route("", {"orders.return.manage"}, {"ORDER_RETURN_DELEGATED"}, {"ORDER_RETURN_UPDATED"})
acceptReturnResponsibility ==
    Route("", {"orders.return.manage"}, {"ORDER_RETURN_ACCEPTED"}, {"ORDER_RETURN_UPDATED"})
registerOrderReturn == OrderChange("", "orders.return.manage", "ORDER_RETURN_REGISTERED")
getOrderReturns == Reads("", {"orders.detail.view"})

OrderHandlers == {
    createOrder, listOrders, getOrderById, updateOrderStatus, assignResponsible, getVariantStock,
    getRemoteStock, getOrderReservations, requestPickingResponsibility, delegatePickingResponsibility,
    resolvePickingResponsibilityRequest, requestPickingUnpickAction, resolvePickingUnpickAction,
    getOrderPicking, startOrderPicking, updateOrderPicking, updatePickingItem, updatePickingOrderItem,
    completeOrderPicking, pickAllOrderPicking, reserveRemoteStock, reserveAllRecommended,
    releaseRemoteStock, addOrderItem, removeOrderItem, restoreOrderItem, markOrderItemShortage,
    delegateReturnResponsibility, acceptReturnResponsibility, registerOrderReturn, getOrderReturns}

listInventories == Reads("", {"inventory.view"})
listMovements == Reads("", {"inventory.history.view"})
listTransfers == Reads("", {"transfers.view"})
listReservations == Reads("", {"inventory.view"})
auditReservedStock == Reads("", {"inventory.reconcile"})
\* An adjustment asks for a right of its own.
createMovement(right) == StockChange(right, "INVENTORY_MOVEMENT_CREATED")
\* Only a new transfer needs the benefit of the plan; the others close it.
createStockTransfer ==
    Route("transfers", {"transfers.create"}, {"TRANSFER_CREATED"}, {"TRANSFER_CREATED", "TASK_CREATED"})
dispatchStockTransfer == TransferChange("transfers.dispatch", "TRANSFER_DISPATCHED")
receiveStockTransfer == TransferChange("transfers.receive", "TRANSFER_RECEIVED")
cancelStockTransfer == TransferChange("transfers.cancel", "TRANSFER_CANCELLED")
createReservation == StockChange("inventory.reservation.manage", "RESERVATION_CREATED")
reconcileReservedStock == StockChange("inventory.reconcile", "RESERVED_STOCK_RECONCILED")

InventoryHandlers == {
    listInventories, listMovements, listTransfers, listReservations, auditReservedStock,
    createMovement("inventory.movement.create"), createMovement("inventory.adjustment.create"),
    createStockTransfer, dispatchStockTransfer, receiveStockTransfer, cancelStockTransfer,
    createReservation, reconcileReservedStock}

listTasks == Reads("tasks.operational", {"tasks.view.own", "tasks.view.all"})
assignTask == TaskChange("tasks.assign")
moveTask == TaskChange("tasks.view.own")
\* The task moves the stock of its transfer, and the screens of the inventory
\* are not told.
completeTransferTask ==
    Route("tasks.operational", {"tasks.view.own"}, {}, {"TASK_UPDATED", "TRANSFER_UPDATED"})
listAssignments == Reads("", {"store_assignments.view"})
changeAssignment == Route("", {"store_assignments.manage"}, {}, {})

TaskHandlers == {listTasks, assignTask, moveTask, completeTransferTask, listAssignments, changeAssignment}

Handlers == OrderHandlers \union InventoryHandlers \union TaskHandlers

-----------------------------------------------------------------------------
(* The transaction of the request.                                            *)

NoHistory == "none"
Unwritten == [change |-> "none", history |-> NoHistory, events |-> {}, audit |-> 0]
NoTxn == [open |-> FALSE, broken |-> FALSE, rows |-> Unwritten]
NoCall == [handler |-> listOrders, history |-> NoHistory, held |-> {}, planned |-> FALSE, readOnly |-> FALSE]

ApiInit ==
    /\ call = NoCall /\ stage = "idle" /\ status = 0
    /\ txn = NoTxn /\ kept = Unwritten /\ news = {} /\ apiFaults = 0

ApiFault == apiFaults < MaxApiFaults /\ apiFaults' = apiFaults + 1

\* A refused statement aborts the transaction: the later ones fail as well.
Broken == [txn EXCEPT !.broken = TRUE]

Answer(code) == status' = code /\ stage' = "answered"

\* The handler that a request reaches, what its caller holds of what is asked.
Receive ==
    /\ stage = "idle"
    /\ \E h \in Handlers, planned, readOnly \in BOOLEAN : \E held \in SUBSET h.rights :
          \E history \in IF h.history = {} THEN {NoHistory} ELSE h.history :
             call' = [handler |-> h, history |-> history, held |-> held,
                      planned |-> planned \/ h.feature = "", readOnly |-> readOnly]
    /\ stage' = "received"
    /\ UNCHANGED <<status, txn, kept, news, apiFaults>>

\* No valid session: nothing is known of the tenant, the line of the audit log
\* goes to the quarantine at once, or is lost.
Unauthenticated ==
    /\ stage = "received"
    /\ status' = 401 /\ stage' = "over"
    /\ \E audit \in {0, 401} : kept' = [kept EXCEPT !.audit = audit]
    /\ UNCHANGED <<call, txn, news, apiFaults>>

\* Before the transaction is open the audit log cannot be written.
ReadOnlyRefused ==
    /\ stage = "received" /\ call.readOnly /\ call.handler.changes
    /\ status' = 403 /\ stage' = "over"
    /\ UNCHANGED <<call, txn, kept, news, apiFaults>>

Open ==
    /\ stage = "received" /\ (call.readOnly => ~call.handler.changes)
    /\ txn' = [txn EXCEPT !.open = TRUE]
    /\ stage' = "open"
    /\ UNCHANGED <<call, status, kept, news, apiFaults>>

-----------------------------------------------------------------------------
(* requirePlanFeature, requirePermission, then the handler.                    *)

Allowed == call.planned /\ call.held # {}

Forbid ==
    /\ stage = "open" /\ ~Allowed
    /\ Answer(403)
    /\ UNCHANGED <<call, txn, kept, news, apiFaults>>

\* A route lets whoever sells or creates orders pass; the handler asks for the
\* right of the channel.  A mutant: the route was enough.
AnyChannel == TRUE

FitsChannel ==
    /\ call.history = "POS_ORDER_CREATED" => "pos.sell" \in call.held
    /\ (call.handler = createOrder /\ call.history = "ORDER_CREATED") => "orders.create" \in call.held

Refuse ==
    /\ stage = "open" /\ Allowed
    /\ \/ FitsChannel /\ Answer(400)
       \/ ~FitsChannel /\ Answer(403)
    /\ UNCHANGED <<call, txn, kept, news, apiFaults>>

\* What the service did: everything, nothing (a repeated request), or a part
\* before it threw.  Which services can stop halfway is left open.
Serve ==
    /\ stage = "open" /\ Allowed /\ FitsChannel
    /\ \/ /\ call.handler.changes
          /\ \E change \in {"none", "whole"} : txn' = [txn EXCEPT !.rows.change = change]
          /\ stage' = "changed" /\ UNCHANGED status
       \/ /\ call.handler.changes
          /\ \E change \in {"none", "part"} : txn' = [txn EXCEPT !.rows.change = change]
          /\ Answer(409)
       \/ ~call.handler.changes /\ (Answer(200) \/ Answer(404)) /\ UNCHANGED txn
    /\ UNCHANGED <<call, kept, news, apiFaults>>

\* A statement of the service is refused: a constraint, a deadlock, a timeout.
ServeFails ==
    /\ stage = "open" /\ Allowed /\ FitsChannel /\ ApiFault
    /\ txn' = Broken /\ Answer(500)
    /\ UNCHANGED <<call, kept, news>>

\* The history of the user; nobody waits for it and its error is swallowed.
Note ==
    /\ stage = "changed"
    /\ stage' = "noted"
    /\ \/ txn' = [txn EXCEPT !.rows.history = call.history] /\ UNCHANGED apiFaults
       \/ call.history # NoHistory /\ txn' = Broken /\ ApiFault
    /\ UNCHANGED <<call, status, kept, news>>

\* A mutant: the screens are told at once.
ToldAtOnce == call.handler.events

ToldLater == {}

\* publish(): rows of the outbox in the same transaction, awaited.
Announce ==
    /\ stage = "noted"
    /\ \/ /\ ~txn.broken
          /\ txn' = [txn EXCEPT !.rows.events = call.handler.events]
          /\ news' = news \union ToldLater
          /\ stage' = "announced" /\ UNCHANGED <<status, apiFaults>>
       \/ /\ txn.broken
          /\ Answer(500) /\ UNCHANGED <<txn, news, apiFaults>>
       \/ /\ ~txn.broken /\ call.handler.events # {} /\ ApiFault
          /\ txn' = Broken /\ Answer(500) /\ UNCHANGED news
    /\ UNCHANGED <<call, kept>>

\* A sale of the shop reads its quota again before it answers.
Succeed ==
    /\ stage = "announced"
    /\ \/ Answer(200) /\ UNCHANGED <<txn, apiFaults>>
       \/ call.history = "POS_ORDER_CREATED" /\ ApiFault /\ txn' = Broken /\ Answer(500)
    /\ UNCHANGED <<call, kept, news>>

-----------------------------------------------------------------------------
(* After the answer.                                                          *)

\* The line of the audit log is written on `finish' by the same transaction,
\* with the status that was sent; its error is swallowed.
Audit ==
    /\ stage = "answered"
    /\ stage' = "audited"
    /\ \/ ~txn.broken /\ txn' = [txn EXCEPT !.rows.audit = status] /\ UNCHANGED apiFaults
       \/ txn.broken /\ UNCHANGED <<txn, apiFaults>>
       \/ ~txn.broken /\ txn' = Broken /\ ApiFault
    /\ UNCHANGED <<call, status, kept, news>>

\* The commit of a transaction that was aborted undoes it, and says so to nobody.
Committed == IF txn.broken THEN kept ELSE txn.rows

CommitRequest ==
    /\ stage = "audited"
    /\ kept' = Committed
    /\ txn' = NoTxn /\ stage' = "over"
    /\ UNCHANGED <<call, status, news, apiFaults>>

\* The client hangs up before the answer, the process dies, 120 s go by.
Lose ==
    /\ txn.open /\ ApiFault
    /\ txn' = NoTxn /\ stage' = "over"
    /\ UNCHANGED <<call, status, kept, news>>

\* The tasks after the commit, or the timer: a row that is not there is nobody's.
Dispatch ==
    /\ stage = "over" /\ news # kept.events
    /\ \E e \in kept.events \ news : news' = news \union {e}
    /\ UNCHANGED <<call, stage, status, txn, kept, apiFaults>>

ApiNext ==
    \/ Receive \/ Unauthenticated \/ ReadOnlyRefused \/ Open
    \/ Forbid \/ Refuse \/ Serve \/ ServeFails \/ Note \/ Announce \/ Succeed
    \/ Audit \/ CommitRequest \/ Lose \/ Dispatch

ApiSpec == ApiInit /\ [][ApiNext]_apiVars

-----------------------------------------------------------------------------
ApiTypeOK ==
    /\ call.handler \in Handlers /\ call.held \subseteq call.handler.rights
    /\ stage \in {"idle", "received", "open", "changed", "noted", "announced", "answered", "audited", "over"}
    /\ status \in {0, 200, 400, 401, 403, 404, 409, 500}
    /\ \A rows \in {txn.rows, kept} :
          /\ rows.change \in {"none", "part", "whole"}
          /\ rows.history \in call.handler.history \union {NoHistory}
          /\ rows.events \subseteq call.handler.events /\ rows.audit \in {0, status}

\* The three records of a request agree with each other and with what it did:
\* nothing is kept without a line of the audit log, a line that says success has
\* the history and all the events of the handler beside it, a line that says
\* failure has neither.
RecordsAgree ==
    /\ kept.change # "none" => kept.audit # 0
    /\ (kept.audit = 200 /\ call.handler.changes) =>
          /\ kept.change # "part"
          /\ kept.history = call.history /\ kept.events = call.handler.events
    /\ kept.audit # 200 => kept.history = NoHistory /\ kept.events = {} /\ kept.change # "whole"

\* The screens hear only of what is committed, however the request ends.
NewsOfKept == news \subseteq kept.events

\* An order is created by whoever has the right of its channel, though the route
\* takes either; nothing changes in a tenant that may only read.
CreatedByRight ==
    kept.change # "none" =>
        /\ ~call.readOnly /\ call.planned
        /\ kept.history = "POS_ORDER_CREATED" => "pos.sell" \in call.held
        /\ (call.handler = createOrder /\ kept.history = "ORDER_CREATED") => "orders.create" \in call.held

\* What a request told the screens, the history and the audit log is what it kept.
NewsIsTrue == RecordsAgree /\ NewsOfKept /\ CreatedByRight
=============================================================================
