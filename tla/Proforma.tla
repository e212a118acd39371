-------------------------------- MODULE Proforma -------------------------------
(* The lines of an open e-commerce order (presentation/services/order.service   *)
(* .ts): they are added, removed, restored and reserved while the customer      *)
(* makes up his mind.  A request is one READ COMMITTED transaction: it reads    *)
(* what is committed and what it wrote itself, a row that it has written stays  *)
(* locked until it ends, and an UPDATE looks at the row again once it has it.   *)
EXTENDS Naturals, Sequences, FiniteSets, FiniteSetsExt, Functions

CONSTANTS
    Items,      \* lines, in the order of their ids
    Depots,     \* inventories of the one variant that is ordered
    Editors,    \* requests at work at once
    Ordered,    \* OrderItem.quantity; a unit costs one
    Stock,      \* Inventory.stock of each
    ReleasesRun,\* bound: how many requests that release one line may run at once
    MaxWork     \* bound on requests

ASSUME ProformaAssumption ==
    /\ Items \subseteq Nat /\ {Ordered, Stock, MaxWork, ReleasesRun} \subseteq Nat
    /\ IsFiniteSet(Items) /\ IsFiniteSet(Depots) /\ IsFiniteSet(Editors)

VARIABLES
    open,       \* Order.status is one in which the proforma may be edited
    total,      \* Order.total
    item,       \* OrderItem and its ACTIVE reservations
    taken,      \* Inventory.reservedStock
    editor,     \* the request of each editor
    work

proformaVars == <<open, total, item, taken, editor, work>>

Empty == [d \in Depots |-> 0]
NoItem == [here |-> FALSE, removed |-> FALSE, reserved |-> 0, at |-> Empty]
NewItem == [NoItem EXCEPT !.here = TRUE]
Unwritten == [x \in {} |-> 0]

\* A request: the rows it has written, what it reads and what it has to do.
Waiting == [kind |-> "none", stage |-> "idle", locked |-> FALSE, items |-> Unwritten, taken |-> Unwritten,
            todo |-> <<>>, stores |-> <<>>, nth |-> 1, lack |-> Unwritten, take |-> 0,
            line |-> 0, free |-> Empty, depots |-> {}, total |-> 0]

\* One line that counts; the others were removed or are not there yet.
ProformaInit ==
    /\ open = TRUE
    /\ \E l \in Items, m \in Items :
          /\ l < m
          /\ item = [i \in Items |-> CASE i = l -> NewItem [] i = m -> [NewItem EXCEPT !.removed = TRUE]
                                        [] OTHER -> NoItem]
    /\ total = Ordered
    /\ taken = Empty
    /\ editor = [e \in Editors |-> Waiting]
    /\ work = 0

\* Rows that were written, over those that are committed; one more is written.
Over(written, rows) ==
    [x \in DOMAIN written \union DOMAIN rows |-> IF x \in DOMAIN written THEN written[x] ELSE rows[x]]
Writes(written, x, row) == [y \in DOMAIN written \union {x} |-> IF y = x THEN row ELSE written[y]]

\* What a request sees.
ItemsOf(e) == Over(editor[e].items, item)
TakenOf(e) == Over(editor[e].taken, taken)

\* Rows that no other request has written; the row of the order has its own lock.
ItemFree(e, l) == \A f \in Editors \ {e} : l \notin DOMAIN editor[f].items
DepotFree(e, d) == \A f \in Editors \ {e} : d \notin DOMAIN editor[f].taken

\* A mutant: the edits of an order do not wait for each other.
NoOrderLock(e) == TRUE

OrderFree(e) == \A f \in Editors \ {e} : ~editor[f].locked

Cost(rows) == Ordered * Quantify(Items, LAMBDA l : rows[l].here /\ ~rows[l].removed)

AtStage(e, stage) == editor[e].stage = stage
Goes(e, rec) == editor' = [editor EXCEPT ![e] = rec] /\ UNCHANGED <<open, total, item, taken, work>>

-----------------------------------------------------------------------------
(* Requests; what they read first is not locked.                              *)

Ask(e, rec) ==
    /\ AtStage(e, "idle") /\ work < MaxWork /\ work' = work + 1
    /\ editor' = [editor EXCEPT ![e] = rec]
    /\ UNCHANGED <<open, total, item, taken>>

\* The row a request adds has an id of its own.
AddOrderItem(e) == \E l \in Items :
    /\ open /\ ~item[l].here
    /\ \A f \in Editors : ~(editor[f].kind = "add" /\ editor[f].line = l)
    /\ Ask(e, [Waiting EXCEPT !.kind = "add", !.stage = "lock", !.line = l])

RestoreOrderItem(e) == \E l \in Items :
    /\ open /\ item[l].here /\ item[l].removed
    /\ Ask(e, [Waiting EXCEPT !.kind = "restore", !.stage = "lock", !.line = l])

Releasing(l) == {e \in Editors : editor[e].kind \in {"remove", "release"} /\ editor[e].line = l}
MayRelease(l) == Cardinality(Releasing(l)) < ReleasesRun

\* Whether anything is reserved is read before; what is, is read again.
RemoveOrderItem(e) == \E l \in Items :
    /\ open /\ item[l].here /\ ~item[l].removed /\ MayRelease(l)
    /\ Ask(e, [Waiting EXCEPT !.kind = "remove", !.line = l,
                              !.stage = IF item[l].reserved > 0 THEN "read" ELSE "lock"])

ReleaseRemoteStock(e) == \E l \in Items :
    /\ item[l].here /\ MayRelease(l)
    /\ Ask(e, [Waiting EXCEPT !.kind = "release", !.line = l, !.stage = "read"])

\* reserveRemoteStock(): one line, also a removed one, from one store.
ReserveRemoteStock(e) == \E l \in Items, d \in Depots :
    /\ item[l].here /\ item[l].reserved < Ordered
    /\ Ask(e, [Waiting EXCEPT !.kind = "reserve", !.stage = "take", !.todo = <<l>>, !.stores = <<d>>,
                              !.lack = [m \in {l} |-> Ordered - item[l].reserved]])

\* The stores, the one with most to offer first.
Recommended ==
    {s \in [1..Cardinality(Depots) -> Depots] :
        /\ IsInjective(s)
        /\ \A i, j \in DOMAIN s : i < j => taken[s[i]] <= taken[s[j]]}

\* The lines, the oldest first.
Sorted(lines) ==
    {s \in [1..Cardinality(lines) -> lines] : \A i, j \in DOMAIN s : i < j => s[i] < s[j]}

\* reserveAllRecommendedForOrder(): the lines that are not removed, one after the
\* other, each from one store after the other.
ReserveAllRecommended(e) ==
    LET pending == {l \in Items : item[l].here /\ ~item[l].removed /\ item[l].reserved < Ordered}
    IN  /\ pending # {} /\ Depots # {}
        /\ \E lines \in Sorted(pending), stores \in Recommended :
              Ask(e, [Waiting EXCEPT !.kind = "reserveAll", !.stage = "take",
                        !.todo = lines, !.stores = stores,
                        !.lack = [l \in pending |-> Ordered - item[l].reserved]])

\* completeOrderPicking(): the order is READY, under its lock.
Close ==
    /\ open /\ (\A e \in Editors : OrderFree(e))
    /\ open' = FALSE
    /\ UNCHANGED <<total, item, taken, editor, work>>

-----------------------------------------------------------------------------
(* Reserving: an UPDATE of the inventory, one of the line, the reservation.   *)

Line(e) == Head(editor[e].todo)
Depot(e) == editor[e].stores[editor[e].nth]

\* On to the next store or line.
Onward(rec) ==
    LET next == IF rec.nth < Len(rec.stores) THEN [rec EXCEPT !.nth = @ + 1]
                ELSE [rec EXCEPT !.nth = 1, !.todo = Tail(@)]
    IN  [next EXCEPT !.take = 0, !.stage = IF next.todo = <<>> THEN "fulfil" ELSE "take"]

\* What is left in the store is read before the UPDATE.  Who reserves one line
\* may ask for less, and without allowPartial for more than there is.
ReadOffer(e) ==
    LET lack == editor[e].lack[Line(e)]
        most == Min({lack, Stock - TakenOf(e)[Depot(e)]})
    IN  /\ AtStage(e, "take")
        /\ \E take \in IF editor[e].kind = "reserve" THEN {most} \union 1..lack ELSE {most} :
              Goes(e, IF take = 0 THEN Onward(editor[e])
                      ELSE [editor[e] EXCEPT !.stage = "depot", !.take = take])

\* A mutant: the count is not looked at again.
TakesAnyway(e) == TRUE

\* reserveInventoryConditional().
DepotHas(e) == TakenOf(e)[Depot(e)] + editor[e].take <= Stock

\* A mutant: a line may be given more than was ordered.
AlwaysRoom(e) == TRUE

\* reserveOrderItemConditional().
ItemHasRoom(e) == ItemsOf(e)[Line(e)].reserved + editor[e].take <= Ordered

\* With allowPartial one line is tried again.
TakeFromDepot(e) ==
    /\ AtStage(e, "depot") /\ DepotFree(e, Depot(e))
    /\ IF DepotHas(e)
       THEN Goes(e, [editor[e] EXCEPT !.stage = "line",
                       !.taken = Writes(@, Depot(e), TakenOf(e)[Depot(e)] + editor[e].take)])
       ELSE \/ Goes(e, Onward(editor[e]))
            \/ editor[e].kind = "reserve" /\ Goes(e, [editor[e] EXCEPT !.stage = "take", !.take = 0])

\* A mutant: what was taken stays taken when the line turns out to be full.
KeepsTaken(e) == editor[e].taken

\* revertInventoryReservation().
GivesBack(e) == Writes(editor[e].taken, Depot(e), TakenOf(e)[Depot(e)] - editor[e].take)

TakeForLine(e) ==
    LET l == Line(e)
        d == Depot(e)
        units == editor[e].take
        row == ItemsOf(e)[l]
    IN  /\ AtStage(e, "line") /\ ItemFree(e, l)
        /\ Goes(e, IF ItemHasRoom(e)
                   THEN Onward([editor[e] EXCEPT
                            !.items = Writes(@, l, [row EXCEPT !.reserved = @ + units, !.at[d] = @ + units]),
                            !.lack[l] = @ - units])
                   ELSE Onward([editor[e] EXCEPT !.taken = GivesBack(e)]))

\* Order.fulfillmentStoreId, when something was reserved and it is not known yet.
Fulfil(e) ==
    /\ AtStage(e, "fulfil")
    /\ \/ Goes(e, [editor[e] EXCEPT !.stage = "end"])
       \/ /\ DOMAIN editor[e].items # {} /\ OrderFree(e)
          /\ Goes(e, [editor[e] EXCEPT !.stage = "end", !.locked = TRUE])

-----------------------------------------------------------------------------
(* Releasing: releaseRemoteStock() of a whole line, without a lock.           *)

\* With nothing reserved it refuses, and the request ends with nothing written.
ReadReservations(e) ==
    LET row == ItemsOf(e)[editor[e].line]
    IN  /\ AtStage(e, "read")
        /\ Goes(e, IF row.reserved = 0 THEN Waiting
                   ELSE [editor[e] EXCEPT !.stage = "free", !.free = row.at,
                                          !.depots = {d \in Depots : row.at[d] > 0}])

ReleaseDepot(e) ==
    /\ AtStage(e, "free")
    /\ \E d \in editor[e].depots :
          /\ DepotFree(e, d)
          /\ Goes(e, [editor[e] EXCEPT !.depots = @ \ {d},
                        !.taken = Writes(@, d, Max({0, TakenOf(e)[d] - editor[e].free[d]}))])

ReleaseLine(e) ==
    LET l == editor[e].line
        row == ItemsOf(e)[l]
        free == editor[e].free
        freed == MapThenSumSet(LAMBDA d : free[d], Depots)
    IN  /\ AtStage(e, "free") /\ editor[e].depots = {} /\ ItemFree(e, l)
        /\ Goes(e, [editor[e] EXCEPT !.stage = IF editor[e].kind = "remove" THEN "lock" ELSE "end",
                      !.items = Writes(@, l, [row EXCEPT !.reserved = Max({0, @ - freed}),
                                                        !.at = [d \in Depots |-> @[d] - free[d]]])])

-----------------------------------------------------------------------------
(* Editing under the lock of the order; nothing is looked at again.           *)

LockOrder(e) ==
    /\ AtStage(e, "lock") /\ OrderFree(e)
    /\ Goes(e, [editor[e] EXCEPT !.stage = "mark", !.locked = TRUE])

MarkLine(e) ==
    LET l == editor[e].line
        row == CASE editor[e].kind = "add" -> NewItem
                 [] editor[e].kind = "remove" -> [ItemsOf(e)[l] EXCEPT !.removed = TRUE]
                 [] editor[e].kind = "restore" -> [ItemsOf(e)[l] EXCEPT !.removed = FALSE]
    IN  /\ AtStage(e, "mark") /\ ItemFree(e, l)
        /\ Goes(e, [editor[e] EXCEPT !.stage = "total", !.items = Writes(@, l, row)])

\* recomputeOrderTotals().
RecomputeOrderTotals(e) ==
    /\ AtStage(e, "total")
    /\ Goes(e, [editor[e] EXCEPT !.stage = "end", !.total = Cost(ItemsOf(e))])

EndRequest(e) ==
    /\ AtStage(e, "end")
    /\ item' = ItemsOf(e) /\ taken' = TakenOf(e)
    /\ total' = IF editor[e].kind \in {"add", "remove", "restore"} THEN editor[e].total ELSE total
    /\ editor' = [editor EXCEPT ![e] = Waiting]
    /\ UNCHANGED <<open, work>>

\* The process dies, the database refuses or aborts one of two requests that wait
\* for each other.
AbortRequest(e) ==
    /\ ~AtStage(e, "idle")
    /\ editor' = [editor EXCEPT ![e] = Waiting]
    /\ UNCHANGED <<open, total, item, taken, work>>

ProformaNext ==
    \/ Close
    \/ \E e \in Editors :
          \/ AddOrderItem(e) \/ RestoreOrderItem(e) \/ RemoveOrderItem(e) \/ ReleaseRemoteStock(e)
          \/ ReserveRemoteStock(e) \/ ReserveAllRecommended(e)
          \/ ReadOffer(e) \/ TakeFromDepot(e) \/ TakeForLine(e) \/ Fulfil(e)
          \/ ReadReservations(e) \/ ReleaseDepot(e) \/ ReleaseLine(e)
          \/ LockOrder(e) \/ MarkLine(e) \/ RecomputeOrderTotals(e)
          \/ EndRequest(e) \/ AbortRequest(e)

ProformaSpec == ProformaInit /\ [][ProformaNext]_proformaVars

-----------------------------------------------------------------------------
ProformaTypeOK ==
    /\ open \in BOOLEAN /\ work \in 0..MaxWork /\ total \in Nat
    /\ item \in [Items -> [here : BOOLEAN, removed : BOOLEAN, reserved : Nat, at : [Depots -> Nat]]]
    /\ taken \in [Depots -> Nat]

\* The customer pays for the lines that were not removed, whoever edited them at
\* the same time.
TotalIsTheLines == total = Cost(item)

\* What a line counts as reserved, and what an inventory does, are the reservations
\* that stand behind them, though two requests reserve the same line, one of them
\* gives back what it had taken, or a line is released from what was read before.
ReservationsAgree ==
    /\ \A l \in Items : item[l].reserved = MapThenSumSet(LAMBDA d : item[l].at[d], Depots)
    /\ \A d \in Depots : taken[d] = MapThenSumSet(LAMBDA l : item[l].at[d], Items)

\* However the reads of two requests were overtaken, no store promises more than
\* it has and no line is promised more than was ordered.
PromisesKept ==
    /\ \A d \in Depots : taken[d] <= Stock
    /\ \A l \in Items : item[l].reserved <= Ordered

\* The three above.
EditsAgree == TotalIsTheLines /\ ReservationsAgree /\ PromisesKept
=============================================================================
