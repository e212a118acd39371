---------------------------- MODULE RequestCommit ----------------------------
(* The handlers of Fulfilment as HTTP runs them.                              *)
(*                                                                            *)
(* validateJWT and PublicTenantMiddleware open one database transaction for   *)
(* the whole request (data/prisma.ts, runTenantDatabaseTransaction), and the  *)
(* $transaction of a service only calls its callback inside it: there is no   *)
(* savepoint.  continueThroughResponse() resolves when the response has been  *)
(* sent, whatever its status, so what a service wrote before it threw a       *)
(* CustomError, which the controller turns into a 4xx answer, is committed.   *)
(* The handlers of Warehouse that write before their last check are added     *)
(* here in the form they have when that check fails.                          *)
EXTENDS Fulfilment

\* The quantities f of the items that the request had booked when it stopped.
Of(t, done, f) == [k \in Items(t) |-> IF k \in done THEN f[k] ELSE 0]

\* The items are booked one by one, in the order of their ids.
Earlier(t, k) == {m \in Items(t) : m < k}

\* dispatchStockTransfer() refuses the first item that is not ready, or every
\* one while the remote picking is open: 400 or 409, with the transfer claimed
\* IN_TRANSIT and the earlier items sent.
RefusedDispatch(s, t) ==
    /\ Starts(s, "dispatch")
    /\ Dispatchable(t)
    /\ \E done \in SUBSET Items(t) :
         /\ \/ /\ ForOrder(t) /\ task[xfer[t].ord].picking[xfer[t].from] = "OPEN"
               /\ done = {}
            \/ \E k \in Items(t) : ~ItemReady(t, k) /\ done = Earlier(t, k)
         /\ \A k \in done : ItemReady(t, k)
         /\ LET sent == Of(t, done, Asked(t))
                out == Minus(PerInventory(t, Origin(t), sent))
            IN  /\ inv' = Booked(out, IF ForOrder(t) THEN out ELSE Nothing)
                /\ Sound(inv')
                /\ xfer' = [xfer EXCEPT ![t].status = "IN_TRANSIT",
                              ![t].items = [k \in ItemKeys |->
                                 IF k \in done THEN [@[k] EXCEPT !.disp = sent[k]] ELSE @[k]]]
         /\ res' = [r \in ResIds |->
                      IF ForOrder(t) /\ r \in done THEN [res[r] EXCEPT !.status = "COMPLETED"]
                      ELSE res[r]]
    /\ UNCHANGED <<ord, line, task, req>>

\* receiveStockTransfer() refuses an item that brings more than is on the road,
\* after it has booked the earlier ones: the status stays what it was.
RefusedReceive(s, t) ==
    /\ Starts(s, "receive")
    /\ xfer[t].status \in {"IN_TRANSIT", "PARTIALLY_RECEIVED"}
    /\ \E over \in Items(t), rec, disc \in [Items(t) -> 0..MaxQty] :
         LET room(k) == Greatest(0, Left(xfer[t].items[k]))
             took == Of(t, Earlier(t, over), rec)
             lost == Of(t, Earlier(t, over), disc)
             arrived == PerInventory(t, Destination(t), took)
         IN  /\ rec[over] + disc[over] > room(over)
             /\ \A k \in Earlier(t, over) : rec[k] + disc[k] <= room(k)
             /\ inv' = Booked(arrived, IF ForOrder(t) THEN arrived ELSE Nothing)
             /\ \E new \in NewReservations(Reserving(t, took)) :
                  res' = Inserted(Anchored(t, Destination(t), took, new))
             /\ line' = WithShortages(t, lost)
             /\ ReturnsSound(line')
             /\ xfer' = [xfer EXCEPT ![t].items = [k \in ItemKeys |->
                           IF k \in Items(t)
                           THEN [@[k] EXCEPT !.rec = @ + took[k], !.disc = @ + lost[k]]
                           ELSE @[k]]]
    /\ UNCHANGED <<ord, task, req>>

RequestNext ==
    \/ Next
    \/ \E s \in Slots, t \in XferIds : RefusedDispatch(s, t) \/ RefusedReceive(s, t)

RequestSpec == Init /\ [][RequestNext]_vars
=============================================================================
