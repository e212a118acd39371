------------------------------ MODULE OrderLines ------------------------------
(* presentation/services/order.service.ts: the reservations of the lines of   *)
(* an order, their shortages and their returns.  reserveRemoteStock(),        *)
(* releaseRemoteStock() and markOrderItemShortage() read the order without a  *)
(* lock (...Read) and write later, over whatever the rows have become.        *)
EXTENDS OrderStatus

OpenUnlessDelivered(o) == ord[o].status # "DELIVERED"

\* An order whose lines can still change.
Open(o) == ord[o].status \notin Closed \union {"RETURN_PENDING"}

\* reserveRemoteStock(), the checks: the line has something left to reserve,
\* whatever was declared short.
ReserveRead(s, l, store) ==
    LET o == LineOrder[l]
        pending == line[l].qty - line[l].reserved
    IN  /\ Starts(s, "reserve")
        /\ l \in LinesOf(o)
        /\ Open(o)
        /\ pending > 0
        /\ \E q \in 1..pending, allowPartial \in BOOLEAN :
             Continue(s, [op |-> "reserve", phase |-> "write", line |-> l, store |-> store, qty |-> q,
                          partial |-> allowPartial, fulfil |-> ord[o].fulfil])
        /\ UNCHANGED tables

LineTakesAll(l, take) == TRUE

\* The condition of reserveOrderItemConditional().
LineHasRoom(l, take) == line[l].reserved + take <= line[l].qty

\* ... and the writes: two conditional UPDATEs and the reservation, anchored to
\* the line; the first reservation decides the store of the line and the order.
\* allowPartial takes what is available, if anything.
ReserveWrite(s) ==
    /\ At(s, "reserve", "write")
    /\ LET l == req[s].line
           o == LineOrder[l]
           i == <<req[s].store, LineVariant[l]>>
           take == IF req[s].partial THEN Least(req[s].qty, Available(i)) ELSE req[s].qty
       IN  /\ take > 0 /\ Fits(i, take)
           /\ LineHasRoom(l, take)
           /\ Unlocked(o, s)
           /\ inv' = [inv EXCEPT ![i].reserved = inv[i].reserved + take]
           /\ line' = [line EXCEPT ![l].reserved = line[l].reserved + take,
                                   ![l].store = IF line[l].store = Null THEN req[s].store
                                                ELSE line[l].store]
           /\ \E new \in NewReservations({l}) :
                res' = Inserted([r \in DOMAIN new |-> Reservation(o, l, i, take)])
           /\ ord' = IF req[s].fulfil \in {Null, ord[o].source}
                     THEN [ord EXCEPT ![o].fulfil = req[s].store] ELSE ord
    /\ Finish(s)
    /\ UNCHANGED <<xfer, task>>

-----------------------------------------------------------------------------

\* What releaseRemoteStock() may release for line l: its own reservations, and
\* the unanchored ones of its variant, in a store or everywhere.
Releasable(l, store) ==
    {r \in Active(LineOrder[l]) : /\ res[r].inv[2] = LineVariant[l]
                                  /\ store = Null \/ res[r].inv[1] = store
                                  /\ res[r].line \in {Null, l}}

\* The sort: own reservations before the others, newest first.
Sooner(l, a, b) ==
    IF res[a].line = res[b].line THEN a > b ELSE res[a].line = l

\* releaseRemoteStock(), the reads: how many units of each reservation go, and
\* what it will be left with.
ReleaseRead(s, l, store) ==
    LET o == LineOrder[l]
        R == Releasable(l, store)
    IN  /\ Starts(s, "release")
        /\ l \in LinesOf(o)
        /\ ord[o].status \notin {"DELIVERED", "RETURN_PENDING"}
        /\ R # {}
        /\ \E n \in 1..line[l].reserved :
             LET before(r) == Total({p \in R : Sooner(l, p, r)}, Quantities)
                 take == [r \in R |-> Least(res[r].qty, Greatest(0, n - before(r)))]
             IN  Continue(s, [op |-> "release", phase |-> "write", line |-> l,
                              take |-> [r \in {p \in R : take[p] > 0} |-> take[r]],
                              left |-> [r \in {p \in R : take[p] > 0} |-> res[r].qty - take[r]]])
        /\ UNCHANGED tables

WholeLineReleased(l, take) == 0

\* releaseOrderItemReservation().
LeftOfLine(l, take) == Greatest(0, line[l].reserved - Total(DOMAIN take, take))

PickedKept(l, left) == line[l].picked

\* C4: clampOrderItemPickedToReserved().
PickedClamped(l, left) == Least(line[l].picked, left)

\* ... and the writes, with no condition on the reservations or the order.
ReleaseWrite(s) ==
    /\ At(s, "release", "write")
    /\ LET l == req[s].line
           take == req[s].take
           released(i) == Total({r \in DOMAIN take : res[r].inv = i}, take)
           left == LeftOfLine(l, take)
       IN  /\ inv' = [i \in Inventories |->
                        [inv[i] EXCEPT !.reserved = Greatest(0, inv[i].reserved - released(i))]]
           /\ res' = [r \in ResIds |->
                        IF r \notin DOMAIN take THEN res[r]
                        ELSE IF req[s].left[r] = 0 THEN [res[r] EXCEPT !.status = "RELEASED"]
                        ELSE [res[r] EXCEPT !.qty = req[s].left[r]]]
           /\ line' = [line EXCEPT ![l].reserved = left,
                                   ![l].picked = PickedClamped(l, left)]
    /\ Finish(s)
    /\ UNCHANGED <<ord, xfer, task>>

-----------------------------------------------------------------------------

\* markOrderItemShortage(), the checks.
ShortageRead(s, l) ==
    LET o == LineOrder[l]
    IN  /\ Starts(s, "shortage")
        /\ l \in LinesOf(o)
        /\ ord[o].channel = "ECOMMERCE"
        /\ Open(o)
        /\ ord[o].session = "NONE"
        /\ \E q \in 0..MaxQty :
             Continue(s, [op |-> "shortage", phase |-> "write", line |-> l, qty |-> q,
                          seen |-> ord[o].status,
                          others |-> \E m \in LinesOf(o) \ {l} : line[m].shortage > 0])
        /\ UNCHANGED tables

\* ... and the writes: the line under its lock, the order from the status read.
ShortageWrite(s) ==
    /\ At(s, "shortage", "write")
    /\ LET l == req[s].line
           o == LineOrder[l]
           short == Least(req[s].qty, Greatest(0, line[l].qty - line[l].reserved))
           any == short > 0 \/ req[s].others
           next == IF any /\ req[s].seen \in {"PENDING", "CONFIRMED"} THEN "WAITING_STOCK"
                   ELSE IF ~any /\ req[s].seen = "WAITING_STOCK" THEN "PENDING"
                   ELSE req[s].seen
       IN  /\ line' = [line EXCEPT ![l].shortage = short]
           /\ ReturnsSound(line')
           /\ \/ next = req[s].seen /\ UNCHANGED ord
              \/ /\ next # req[s].seen /\ Unlocked(o, s)
                 /\ ord' = [ord EXCEPT ![o].status = next]
    /\ Finish(s)
    /\ UNCHANGED <<inv, res, xfer, task>>

ReturnableAsOrdered(l) == line[l].qty - line[l].returned

\* What was delivered of a line and not returned yet.
Returnable(l) == Demand(l) - line[l].returned

\* registerOrderReturn(): under the lock of the order; the units go back to the
\* store of the order, not to that of the line, unless they are scrapped.
RegisterOrderReturn(s, o) ==
    /\ Starts(s, "return")
    /\ ord[o].status = "DELIVERED" /\ Unlocked(o, s)
    /\ \E L \in (SUBSET LinesOf(o)) \ {{}}, restock \in BOOLEAN :
       \E q \in [L -> 1..MaxQty] :
         LET store == IF ord[o].fulfil = Null THEN ord[o].source ELSE ord[o].fulfil
             at == [l \in L |-> <<store, LineVariant[l]>>]
         IN  /\ \A l \in L : q[l] <= Returnable(l)
             /\ inv' = IF restock THEN Booked(PerLine(L, at, q), Nothing) ELSE inv
             /\ \A i \in Inventories : inv'[i].stock <= MaxStock
             /\ line' = [l \in Lines |-> IF l \in L
                                         THEN [line[l] EXCEPT !.returned = line[l].returned + q[l]]
                                         ELSE line[l]]
    /\ UNCHANGED <<ord, res, xfer, task, req>>
=============================================================================
