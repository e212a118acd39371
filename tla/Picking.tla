-------------------------------- MODULE Picking --------------------------------
(* presentation/services/order.service.ts: the picking of an order, and the   *)
(* tasks (modules/tasks) that lead from picking to delivery.                  *)
(*                                                                            *)
(* The PickingOrderItemDetail row of a line and OrderItem.picked are written  *)
(* together and are one field here.  startOrderPicking() is a series of       *)
(* separate commits; the handlers that pick end with                          *)
(* syncPickingAndOrderStatus(), which has no transaction at all.              *)
EXTENDS OrderLines

Startable == {"CONFIRMED", "PREPARING", "WAITING_TRANSFER"}
Pickable == Startable \union {"READY"}

\* getReservedQuantityForVariant(): consumed reservations count as well.
ReservedForVariant(o, v) ==
    Total({r \in ResIds : /\ res[r].status \in {"ACTIVE", "COMPLETED"}
                          /\ res[r].ord = o /\ res[r].inv[2] = v}, Quantities)

\* getOrderItemMaxPickableQuantity().
MaxPickable(l) ==
    Least(line[l].qty, IF line[l].reserved > 0 THEN line[l].reserved
                       ELSE ReservedForVariant(LineOrder[l], LineVariant[l]))

-----------------------------------------------------------------------------
(* startOrderPicking().                                                      *)

StartPickingRead(s, o) ==
    /\ Starts(s, "startPicking")
    /\ ord[o].status \in Startable
    /\ ord[o].session # "COMPLETED"
    /\ Active(o) # {}
    /\ Continue(s, [op |-> "start", phase |-> "session", ord |-> o])
    /\ UNCHANGED tables

\* The session is upserted, then the picked units are cut to what the lines can
\* hold now ...
StartPickingSession(s) ==
    /\ At(s, "start", "session")
    /\ ord' = [ord EXCEPT ![req[s].ord].session = "IN_PROGRESS"]
    /\ line' = [l \in Lines |-> IF l \in LinesOf(req[s].ord)
                                THEN [line[l] EXCEPT !.picked = Least(line[l].picked, MaxPickable(l))]
                                ELSE line[l]]
    /\ ord[req[s].ord].session = "NONE" => Unlocked(req[s].ord, s)
    /\ Continue(s, [op |-> "start", phase |-> "status", ord |-> req[s].ord])
    /\ UNCHANGED <<inv, res, xfer, task>>

\* ... and the order becomes PREPARING, whatever it is by now.
StartPickingStatus(s) ==
    /\ At(s, "start", "status")
    /\ Unlocked(req[s].ord, s)
    /\ ord' = [ord EXCEPT ![req[s].ord].status = "PREPARING"]
    /\ Finish(s)
    /\ UNCHANGED <<inv, line, res, xfer, task>>

-----------------------------------------------------------------------------
(* updatePickingOrderItem() and pickAllAvailableForOrder().                  *)

Limits(o) == [l \in LinesOf(o) |-> MaxPickable(l)]

\* One line: the client's target, as a change of the quantity it saw.
PickLineRead(s, l) ==
    LET o == LineOrder[l]
        now == Least(line[l].picked, MaxPickable(l))
    IN  /\ Starts(s, "pick")
        /\ l \in LinesOf(o)
        /\ ord[o].session # "NONE"
        /\ ord[o].status \in Startable
        /\ \E target \in (0..MaxPickable(l)) \ {now} :
             Continue(s, [op |-> "pick", phase |-> "write", ord |-> o, limit |-> Limits(o),
                          delta |-> [k \in LinesOf(o) |-> IF k = l THEN target - now ELSE 0]])
        /\ UNCHANGED tables

\* Every line with something left to pick, up to its limit.
PickAllRead(s, o) ==
    /\ Starts(s, "pickAll")
    /\ ord[o].session # "NONE"
    /\ ord[o].status \in Pickable
    /\ \E l \in LinesOf(o) : line[l].picked < MaxPickable(l)
    /\ Continue(s, [op |-> "pick", phase |-> "write", ord |-> o, limit |-> Limits(o),
                    delta |-> [k \in LinesOf(o) |->
                                 IF line[k].picked < MaxPickable(k) THEN MaxPickable(k) ELSE 0]])
    /\ UNCHANGED tables

PickableUnchecked(o) == TRUE

\* G3: assertPickableUnderLock().
PickableUnderLock(o) == ord[o].status \in Pickable

PickedAfterUnbounded(s, l) == Least(req[s].limit[l], line[l].picked + req[s].delta[l])

\* The picked units of line l: the change is applied to the quantity of the row,
\* within the limit that was read.
PickedAfter(s, l) ==
    Greatest(0, Least(req[s].limit[l], line[l].picked + req[s].delta[l]))

\* The transaction of both, under the lock of the order.
PickWrite(s) ==
    /\ At(s, "pick", "write")
    /\ LET o == req[s].ord
       IN  /\ Unlocked(o, s)
           /\ PickableUnderLock(o)
           /\ line' = [l \in Lines |-> IF l \in DOMAIN req[s].limit
                                       THEN [line[l] EXCEPT !.picked = PickedAfter(s, l)]
                                       ELSE line[l]]
           /\ Continue(s, [op |-> "sync", phase |-> "read", ord |-> o])
    /\ UNCHANGED <<inv, ord, res, xfer, task>>

\* syncPickingAndOrderStatus(): reads the order, reopens the session ...
SyncRead(s) ==
    /\ At(s, "sync", "read")
    /\ ord' = [ord EXCEPT ![req[s].ord].session = "IN_PROGRESS"]
    /\ Continue(s, [op |-> "sync", phase |-> "write", ord |-> req[s].ord,
                    seen |-> ord[req[s].ord].status])
    /\ UNCHANGED <<inv, line, res, xfer, task>>

\* ... and makes an order that it did not see closed PREPARING.
SyncWrite(s) ==
    /\ At(s, "sync", "write")
    /\ IF req[s].seen \in Closed \union {"RETURN_PENDING", "PREPARING"}
       THEN UNCHANGED ord
       ELSE /\ Unlocked(req[s].ord, s)
            /\ ord' = [ord EXCEPT ![req[s].ord].status = "PREPARING"]
    /\ Finish(s)
    /\ UNCHANGED <<inv, line, res, xfer, task>>

-----------------------------------------------------------------------------
(* completeOrderPicking() and the tasks.                                     *)

\* Every line of getOrderPicking() is COMPLETED: picked up to what was ordered.
AllPicked(o) ==
    \A l \in LinesOf(o) : Least(line[l].reserved, line[l].picked) >= line[l].qty

MovingFor(o) ==
    {t \in XferIds : xfer[t].ord = o /\ xfer[t].status \notin {"ABSENT", "RECEIVED", "CANCELLED"}}

\* The checks, of the client's own request or of the one that ended the last
\* picking task.
CompletePickingRead(s, o) ==
    /\ \/ Starts(s, "completePicking")
       \/ At(s, "complete", "read") /\ req[s].ord = o
    /\ ord[o].session # "NONE"
    /\ AllPicked(o)
    /\ MovingFor(o) = {}
    /\ Continue(s, [op |-> "complete", phase |-> "write", ord |-> o])
    /\ UNCHANGED tables

StillStartableUnchecked(o) == TRUE

\* G1: the status, again, under the lock of the order.
StillStartable(o) == ord[o].status \in Startable

CompletePickingWrite(s) ==
    /\ At(s, "complete", "write")
    /\ LET o == req[s].ord
           done(status) == IF status = "OPEN" THEN "COMPLETED" ELSE status
       IN  /\ Unlocked(o, s)
           /\ StillStartable(o)
           /\ ord' = [ord EXCEPT ![o].status = "READY", ![o].session = "COMPLETED"]
           /\ task' = [task EXCEPT
                         ![o].picking = [z \in Stores |-> done(task[o].picking[z])],
                         ![o].packing = IF task[o].packing = "NONE" THEN "OPEN" ELSE task[o].packing]
    /\ Finish(s)
    /\ UNCHANGED <<inv, line, res, xfer>>

\* The controller's check before a picking task of a store is completed: its
\* lines are picked, except for what was declared short.
StorePicked(o, store) ==
    \A l \in LinesOf(o) :
        (IF line[l].store = Null THEN ord[o].source ELSE line[l].store) = store =>
            line[l].picked >= Demand(l)

TaskRead(s, o, store) ==
    /\ Starts(s, "task")
    /\ task[o].picking[store] = "OPEN"
    /\ StorePicked(o, store)
    /\ Continue(s, [op |-> "task", phase |-> "write", ord |-> o, store |-> store])
    /\ UNCHANGED tables

\* The picking task is completed, if nobody else was faster (its version) ...
FinishPickingTask(s) ==
    /\ At(s, "task", "write")
    /\ LET o == req[s].ord
           store == req[s].store
       IN  /\ task[o].picking[store] = "OPEN"
           /\ task' = [task EXCEPT ![o].picking[store] = "COMPLETED"]
           /\ Continue(s, [op |-> "task", phase |-> "count", ord |-> o])
    /\ UNCHANGED <<inv, ord, line, res, xfer>>

\* ... and when no other one is open by then, the picking is completed.
CountOpenPickingTasks(s) ==
    /\ At(s, "task", "count")
    /\ LET o == req[s].ord
       IN  IF \E store \in Stores : task[o].picking[store] = "OPEN"
           THEN Finish(s)
           ELSE Continue(s, [op |-> "complete", phase |-> "read", ord |-> o])
    /\ UNCHANGED tables

\* completePackingAndCreateDelivery(): the status of the order is not read.
CompletePacking(s, o) ==
    /\ Starts(s, "task")
    /\ task[o].packing = "OPEN"
    /\ Unlocked(o, s)
    /\ task' = [task EXCEPT ![o].packing = "COMPLETED",
                            ![o].delivery = IF task[o].delivery = "NONE" THEN "OPEN"
                                            ELSE task[o].delivery]
    /\ UNCHANGED <<inv, ord, line, res, xfer, req>>
=============================================================================
