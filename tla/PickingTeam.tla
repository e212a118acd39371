------------------------------ MODULE PickingTeam ------------------------------
(* Several people pick one order: who answers for the picking, who may join,  *)
(* whose units are whose, who may take a unit back, and who answers for the   *)
(* goods of an order that was called off.  order.service.ts with the flow     *)
(* picking_responsibility_flow_enabled, order-responsibility.queries.ts and   *)
(* order-picking.queries.ts.                                                  *)
(*                                                                            *)
(* The order has one line, all of whose units are reserved.  A request reads  *)
(* (Begin...), and later writes and commits (the rest): what it writes was    *)
(* decided on what it read, which may be stale by then.                       *)
EXTENDS Integers, FiniteSets, FiniteSetsExt

CONSTANTS
    Pickers,    \* users
    Nobody,     \* no user
    Slots,      \* requests that may be in flight together
    Quantity,   \* units of the line
    PerPicker,  \* requests of one user in flight
    Overlap,    \* endpoints whose requests may overlap; the others run alone
    MaxPending  \* bound on the pending requests of each of the two kinds

Units == 0..Quantity
Modes == {"SHARED", "TRANSFER"}

ASSUME PickingTeamAssumption ==
    /\ Nobody \notin Pickers
    /\ IsFiniteSet(Pickers) /\ IsFiniteSet(Slots)
    /\ {Quantity, PerPicker, MaxPending} \subseteq Nat

VARIABLES
    stage,      \* Order.status
    session,    \* PickingSession.status, or NONE
    primary,    \* Order.pickerUserId
    handler,    \* PickingSession.assignedUserId
    team,       \* active rows of PickingSharedResponsibility
    picked,     \* PickingOrderItemDetail = PickingItem = OrderItem.picked
    units,      \* PickingItemContribution, by user
    asked,      \* PENDING rows of PickingResponsibilityRequest
    wanted,     \* PENDING rows of PickingUnpickRequest
    goods,      \* who answers for the goods to bring back
    flight      \* requests between their reads and their writes

teamVars == <<stage, session, primary, handler, team, picked, units, asked, wanted, goods, flight>>
orderVars == <<stage, session, primary, handler, team, picked, units, asked, wanted, goods>>

NoGoods == [who |-> Nobody, from |-> Nobody, delegated |-> Nobody, status |-> "NONE"]
None == [op |-> "none"]

PickingTeamInit ==
    /\ stage = "CONFIRMED"
    /\ session = "NONE"
    /\ primary \in Pickers \union {Nobody}     \* who confirmed the order
    /\ handler = Nobody
    /\ team = {}
    /\ picked = 0
    /\ units = [u \in Pickers |-> 0]
    /\ asked = {}
    /\ wanted = {}
    /\ goods = NoGoods
    /\ flight = [s \in Slots |-> None]

Working == {"CONFIRMED", "PREPARING"}
Pickable == Working \union {"READY"}
Closed == {"CANCELLED", "DELIVERED"}

First(u, v) == IF u # Nobody THEN u ELSE v          \* resolvePreferredResponsibleUserId()
MayOperate(u) == u = First(primary, handler) \/ u \in team

Holds(u) == {s \in Slots : flight[s] # None /\ flight[s].by = u}

\* A request arrives, is handled alone or beside others, and keeps its plan.
Begin(s, request) ==
    /\ flight[s] = None
    /\ Cardinality(Holds(request.by)) < PerPicker
    /\ \A t \in Slots : flight[t] = None \/ {flight[t].op, request.op} \subseteq Overlap
    /\ flight' = [flight EXCEPT ![s] = request]
    /\ UNCHANGED orderVars

Is(s, op) == flight[s].op = op
End(s) == flight' = [flight EXCEPT ![s] = None]

\* The guard under the lock fails: the request is refused.
Refuse(s) == End(s) /\ UNCHANGED orderVars

-----------------------------------------------------------------------------
(* Who picks.                                                                 *)

Total == MapThenSumSet(LAMBDA u : units[u], Pickers)

BeginStart(s, u) ==
    /\ stage \in Working /\ session # "COMPLETED"
    /\ primary # Nobody => MayOperate(u)
    /\ Begin(s, [op |-> "start", by |-> u, who |-> First(primary, u)])

\* Units picked before anybody was credited go to who picks.
StartOrderPicking(s) ==
    LET who == flight[s].who
    IN  /\ Is(s, "start")
        /\ session' = "IN_PROGRESS"
        /\ handler' = who
        /\ primary' = who
        /\ units' = IF Total = 0 THEN [units EXCEPT ![who] = picked]
                    ELSE units
        /\ stage' = "PREPARING"
        /\ End(s)
        /\ UNCHANGED <<team, picked, asked, wanted, goods>>

\* A user takes over: no longer one who helps.  A mutant: the session keeps its user.
TakesOverOrderOnly(u) ==
    /\ primary' = u
    /\ handler' = handler
    /\ team' = team \ {u}

TakesOver(u) ==
    /\ primary' = u
    /\ handler' = IF session = "NONE" THEN handler ELSE u
    /\ team' = team \ {u}

BeginAssign(s, u, v) ==
    /\ primary \in {Nobody, u}
    /\ Begin(s, [op |-> "assign", by |-> u, to |-> v])

AssignResponsible(s) ==
    /\ Is(s, "assign")
    /\ TakesOver(flight[s].to)
    /\ End(s)
    /\ UNCHANGED <<stage, session, picked, units, asked, wanted, goods>>

\* The two modes of a request are looked up apart.
BeginAsk(s, u, mode) ==
    /\ stage \in Pickable
    /\ primary # u /\ u \notin team
    /\ <<u, mode>> \notin asked /\ Cardinality(asked) < MaxPending
    /\ Begin(s, [op |-> "ask", by |-> u, mode |-> mode])

RequestPickingResponsibility(s) ==
    /\ Is(s, "ask")
    /\ asked' = asked \union {<<flight[s].by, flight[s].mode>>}
    /\ End(s)
    /\ UNCHANGED <<stage, session, primary, handler, team, picked, units, wanted, goods>>

\* No look at the status of the order.
BeginDelegate(s, u, v, mode) ==
    /\ primary = u
    /\ mode = "SHARED" => v # u
    /\ Begin(s, [op |-> "delegate", by |-> u, to |-> v, mode |-> mode])

Joins(v) == team' = team \union {v} /\ UNCHANGED <<primary, handler>>

DelegatePickingResponsibility(s) ==
    LET v == flight[s].to
    IN  /\ Is(s, "delegate")
        /\ IF flight[s].mode = "TRANSFER" THEN TakesOver(v) ELSE Joins(v)
        /\ asked' = asked \ {<<v, m>> : m \in Modes}
        /\ End(s)
        /\ UNCHANGED <<stage, session, picked, units, wanted, goods>>

BeginResolve(s, u, ask, approved) ==
    /\ primary = u
    /\ ask \in asked
    /\ Begin(s, [op |-> "resolve", by |-> u, ask |-> ask, approved |-> approved])

ResolvePickingResponsibilityRequest(s) ==
    LET ask == flight[s].ask
    IN  /\ Is(s, "resolve")
        /\ IF ~flight[s].approved THEN UNCHANGED <<primary, handler, team>>
           ELSE IF ask[2] = "TRANSFER" THEN TakesOver(ask[1]) ELSE Joins(ask[1])
        /\ asked' = asked \ {ask}
        /\ End(s)
        /\ UNCHANGED <<stage, session, picked, units, wanted, goods>>

-----------------------------------------------------------------------------
(* Units.                                                                     *)

\* The write of a line applies what the user meant to what is there now.  A
\* mutant: without the ceiling.
MovedUnbounded(delta) == Max({0, picked + delta})

Moved(delta) == Max({0, Min({Quantity, picked + delta})})

\* Only units of one's own are taken back without asking.  A mutant: any units.
MayTakeAny(u, quantity) == quantity <= picked

MayTake(u, quantity) == quantity <= units[u]

\* What the user is credited with: what the write changed.  A mutant: what the
\* user meant when it read.
CreditMeant(s) == flight[s].delta
Credit(s) == picked' - picked

Credited(u, delta) == [units EXCEPT ![u] = Max({0, @ + delta})]

\* syncPickingAndOrderStatus()
Reopened ==
    /\ session' = "IN_PROGRESS"
    /\ stage' = IF stage \in Closed \union {"RETURN_PENDING"} THEN stage ELSE "PREPARING"

\* The user of the order, of the session, or this one: written only where it
\* is not what was read.  A mutant: the present picker takes the order over.
NextPickerActs(u) == u
NextPicker(u) == First(primary, First(handler, u))

Written(now, read, next) == IF next = read THEN now ELSE next

Plan(op, u, want) ==
    [op |-> op, by |-> u, want |-> want, delta |-> want - picked, next |-> NextPicker(u),
     order |-> primary, session |-> handler]

PickerWritten(s) ==
    /\ handler' = Written(handler, flight[s].session, flight[s].next)
    /\ primary' = Written(primary, flight[s].order, flight[s].next)

BeginPick(s, u, want) ==
    /\ session # "NONE" /\ stage \in Working /\ MayOperate(u)
    /\ want # picked
    /\ want < picked => MayTake(u, picked - want)
    /\ Begin(s, Plan("pick", u, want))

\* assertPickableUnderLock()
PickableNow == stage \in Pickable

UpdatePickingOrderItem(s) ==
    /\ Is(s, "pick")
    /\ IF ~PickableNow THEN Refuse(s) ELSE
        /\ picked' = Moved(flight[s].delta)
        /\ units' = Credited(flight[s].by, Credit(s))
        /\ PickerWritten(s)
        /\ Reopened
        /\ End(s)
        /\ UNCHANGED <<team, asked, wanted, goods>>

BeginPickAll(s, u) ==
    /\ session # "NONE" /\ stage \in Pickable /\ MayOperate(u)
    /\ picked < Quantity
    /\ Begin(s, Plan("pickAll", u, Quantity))

PickAllAvailableForOrder(s) ==
    /\ Is(s, "pickAll")
    /\ IF ~PickableNow THEN Refuse(s) ELSE
        /\ picked' = Quantity
        /\ units' = Credited(flight[s].by, Credit(s))
        /\ PickerWritten(s)
        /\ Reopened
        /\ End(s)
        /\ UNCHANGED <<team, asked, wanted, goods>>

\* By variant: the write is the number that was asked for, the credit what it
\* was to change when it was read.
BeginPickVariant(s, u, want) ==
    /\ session # "NONE" /\ stage \in Working /\ MayOperate(u)
    /\ want < picked => MayTake(u, picked - want)
    /\ Begin(s, Plan("pickVariant", u, want))

UpdatePickingItem(s) ==
    /\ Is(s, "pickVariant")
    /\ IF ~PickableNow THEN Refuse(s) ELSE
        /\ picked' = flight[s].want
        /\ units' = Credited(flight[s].by, flight[s].delta)
        /\ PickerWritten(s)
        /\ Reopened
        /\ End(s)
        /\ UNCHANGED <<team, asked, wanted, goods>>

-----------------------------------------------------------------------------
(* A unit of somebody else is taken back on request.                          *)

BeginAskUnpick(s, u, quantity) ==
    /\ session # "NONE" /\ stage \in Pickable /\ MayOperate(u)
    /\ quantity <= picked - units[u]
    /\ \A w \in wanted : w.by # u
    /\ Cardinality(wanted) < MaxPending
    /\ Begin(s, [op |-> "askUnpick", by |-> u, quantity |-> quantity])

RequestPickingUnpickAction(s) ==
    /\ Is(s, "askUnpick")
    /\ wanted' = wanted \union {[by |-> flight[s].by, quantity |-> flight[s].quantity]}
    /\ End(s)
    /\ UNCHANGED <<stage, session, primary, handler, team, picked, units, asked, goods>>

\* From whom the units are taken: the primary picker takes its own first, then
\* those of who has most; another one can only give its own.
Reductions(u, w) ==
    {cut \in [Pickers -> 0..w.quantity] :
        /\ cut[w.by] = 0
        /\ \A v \in Pickers : cut[v] <= units[v]
        /\ MapThenSumSet(LAMBDA v : cut[v], Pickers) = w.quantity
        /\ u = primary \/ cut[u] = w.quantity
        /\ u # w.by => cut[u] = Min({units[u], w.quantity})
        /\ \A v, x \in Pickers \ {u, w.by} :
              cut[v] > 0 /\ units[x] > units[v] => cut[x] = units[x]}

BeginResolveUnpick(s, u, w, approved) ==
    /\ w \in wanted
    /\ w.by # u /\ MayOperate(u)
    /\ IF approved
       THEN /\ w.quantity <= picked - units[w.by]
            /\ \E cut \in Reductions(u, w) :
                  Begin(s, [op |-> "resolveUnpick", by |-> u, w |-> w, approved |-> TRUE,
                            cut |-> cut, next |-> picked - w.quantity])
       ELSE Begin(s, [op |-> "resolveUnpick", by |-> u, w |-> w, approved |-> FALSE])

\* The order is not locked, its status is not looked at.
ResolvePickingUnpickAction(s) ==
    /\ Is(s, "resolveUnpick")
    /\ wanted' = wanted \ {flight[s].w}
    /\ IF flight[s].approved
       THEN /\ picked' = flight[s].next
            /\ units' = [u \in Pickers |-> Max({0, units[u] - flight[s].cut[u]})]
            /\ Reopened
       ELSE UNCHANGED <<picked, units, session, stage>>
    /\ End(s)
    /\ UNCHANGED <<primary, handler, team, asked, goods>>

-----------------------------------------------------------------------------
(* The end of the order.                                                      *)

\* Every item is complete when it is read; the lock only re-checks the status.
BeginComplete(s, u) ==
    /\ session # "NONE" /\ picked = Quantity /\ MayOperate(u)
    /\ Begin(s, [op |-> "complete", by |-> u, who |-> First(handler, First(primary, u))])

CompleteOrderPicking(s) ==
    /\ Is(s, "complete")
    /\ IF stage \notin Working THEN Refuse(s) ELSE
        /\ session' = "COMPLETED"
        /\ stage' = "READY"
        /\ handler' = flight[s].who
        /\ primary' = flight[s].who
        /\ End(s)
        /\ UNCHANGED <<team, picked, units, asked, wanted, goods>>

\* cancelPickingArtifactsOnOrderClose().  A mutant: unpick requests stay.
ArtifactsHalfCancelled == team' = {} /\ asked' = {} /\ wanted' = wanted

ArtifactsCancelled == team' = {} /\ asked' = {} /\ wanted' = {}

SessionStopped == session' = IF session = "IN_PROGRESS" THEN "CANCELLED" ELSE session

BeginCancel(s, u) ==
    /\ stage \in Pickable
    /\ Begin(s, [op |-> "cancel", by |-> u, stage |-> stage])

\* With picked units the goods have to come back, and who called it off answers.
CancelOrder(s) ==
    LET u == flight[s].by
    IN  /\ Is(s, "cancel")
        /\ IF stage # flight[s].stage THEN Refuse(s) ELSE
            /\ SessionStopped
            /\ IF picked = 0
               THEN stage' = "CANCELLED" /\ goods' = [NoGoods EXCEPT !.from = u] /\ ArtifactsCancelled
               ELSE /\ stage' = "RETURN_PENDING"
                    /\ goods' = [NoGoods EXCEPT !.who = u, !.from = u, !.status = "ACCEPTED"]
                    /\ UNCHANGED <<team, asked, wanted>>
            /\ End(s)
            /\ UNCHANGED <<primary, handler, picked, units>>

BeginDeliver(s, u) ==
    /\ stage = "READY"
    /\ Begin(s, [op |-> "deliver", by |-> u])

DeliverOrder(s) ==
    /\ Is(s, "deliver")
    /\ IF stage # "READY" THEN Refuse(s) ELSE
        /\ stage' = "DELIVERED"
        /\ goods' = [NoGoods EXCEPT !.from = goods.from]
        /\ ArtifactsCancelled
        /\ End(s)
        /\ UNCHANGED <<session, primary, handler, picked, units>>

\* The responsible is the one that was read before the lock.
BeginReturned(s, u) ==
    /\ stage = "RETURN_PENDING"
    /\ u = First(goods.who, goods.from)
    /\ goods.status = "ACCEPTED" \/ goods.delegated = Nobody
    /\ Begin(s, [op |-> "returned", by |-> u])

CompleteReturn(s) ==
    /\ Is(s, "returned")
    /\ IF stage # "RETURN_PENDING" THEN Refuse(s) ELSE
        /\ stage' = "CANCELLED"
        /\ SessionStopped
        /\ ArtifactsCancelled
        /\ End(s)
        /\ UNCHANGED <<primary, handler, picked, units, goods>>

BeginDelegateReturn(s, u, v) ==
    /\ stage = "RETURN_PENDING"
    /\ u \in {First(goods.who, goods.from), goods.from}
    /\ Begin(s, [op |-> "delegateReturn", by |-> u, to |-> v])

DelegateReturnResponsibility(s) ==
    LET u == flight[s].by
        v == flight[s].to
    IN  /\ Is(s, "delegateReturn")
        /\ goods' = [goods EXCEPT !.who = v, !.delegated = u,
                                  !.status = IF u = v THEN "ACCEPTED" ELSE "PENDING"]
        /\ End(s)
        /\ UNCHANGED <<stage, session, primary, handler, team, picked, units, asked, wanted>>

BeginAcceptReturn(s, u) ==
    /\ stage = "RETURN_PENDING"
    /\ u = First(goods.who, goods.from)
    /\ Begin(s, [op |-> "acceptReturn", by |-> u])

AcceptReturnResponsibility(s) ==
    /\ Is(s, "acceptReturn")
    /\ goods' = [goods EXCEPT !.who = flight[s].by, !.status = "ACCEPTED"]
    /\ End(s)
    /\ UNCHANGED <<stage, session, primary, handler, team, picked, units, asked, wanted>>

-----------------------------------------------------------------------------
Arrive(s, u) ==
    \/ BeginStart(s, u) \/ BeginPickAll(s, u) \/ BeginComplete(s, u)
    \/ BeginCancel(s, u) \/ BeginDeliver(s, u) \/ BeginReturned(s, u)
    \/ BeginAcceptReturn(s, u)
    \/ \E want \in Units : BeginPick(s, u, want) \/ BeginPickVariant(s, u, want)
    \/ \E quantity \in Units \ {0} : BeginAskUnpick(s, u, quantity)
    \/ \E v \in Pickers : BeginAssign(s, u, v) \/ BeginDelegateReturn(s, u, v)
    \/ \E mode \in Modes :
          BeginAsk(s, u, mode) \/ \E v \in Pickers : BeginDelegate(s, u, v, mode)
    \/ \E ask \in asked, approved \in BOOLEAN : BeginResolve(s, u, ask, approved)
    \/ \E w \in wanted, approved \in BOOLEAN : BeginResolveUnpick(s, u, w, approved)

Commit(s) ==
    \/ StartOrderPicking(s) \/ AssignResponsible(s)
    \/ RequestPickingResponsibility(s) \/ DelegatePickingResponsibility(s)
    \/ ResolvePickingResponsibilityRequest(s)
    \/ UpdatePickingOrderItem(s) \/ PickAllAvailableForOrder(s) \/ UpdatePickingItem(s)
    \/ RequestPickingUnpickAction(s) \/ ResolvePickingUnpickAction(s)
    \/ CompleteOrderPicking(s) \/ CancelOrder(s) \/ DeliverOrder(s) \/ CompleteReturn(s)
    \/ DelegateReturnResponsibility(s) \/ AcceptReturnResponsibility(s)

\* The requests that may begin.
FreeSlots == {s \in Slots : flight[s] = None}

PickingTeamNext ==
    \/ \E s \in Slots : Commit(s)
    \/ \E s \in FreeSlots, u \in Pickers : Arrive(s, u)

PickingTeamSpec == PickingTeamInit /\ [][PickingTeamNext]_teamVars

-----------------------------------------------------------------------------
(* Types: what was picked is within what was reserved, whatever overlaps.     *)
PickingTeamTypeOK ==
    /\ stage \in Pickable \union Closed \union {"RETURN_PENDING"}
    /\ session \in {"NONE", "IN_PROGRESS", "COMPLETED", "CANCELLED"}
    /\ {primary, handler, goods.who, goods.from, goods.delegated} \subseteq Pickers \union {Nobody}
    /\ picked \in Units
    /\ units \in [Pickers -> Units]
    /\ team \subseteq Pickers
    /\ asked \subseteq Pickers \X Modes
    /\ wanted \subseteq [by : Pickers, quantity : Units]

\* Every picked unit is credited to exactly one user, also when two users pick
\* the same line together (order.service.ts:3226-3240), as long as nobody sends
\* two requests at once.
UnitsCredited == Total = picked

\* A closed order leaves no request open that nobody could ever resolve
\* (cancelPickingArtifactsOnOrderClose).
NothingLeftOpen == stage \in Closed => asked = {} /\ wanted = {}

\* The order and its session name the same user.
SamePicker == session # "NONE" => handler = primary

\* The rows about who picks an order agree with the order: with its picker while
\* it is worked on, and with its end.
DeskAgrees == NothingLeftOpen /\ SamePicker

\* Work never takes an order over: only a start, a delegation, an approved
\* request or an assignment changes who answers for it.
HandedOver ==
    [][primary' # primary => \E s \in Slots :
          flight[s].op \in {"start", "assign", "delegate", "resolve"} /\ flight'[s] = None]_teamVars
=============================================================================
