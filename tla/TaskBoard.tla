------------------------------- MODULE TaskBoard -------------------------------
(* The operational tasks of one order that is served from two stores, and of  *)
(* the transfer between them: modules/tasks/operational-task.service.ts and   *)
(* controller.ts.                                                             *)
(*                                                                            *)
(* A request reads its task (Take...), and later writes and commits.  The     *)
(* version of a row is kept as what it is for: a request whose row was        *)
(* written since it was read is stale.                                        *)
EXTENDS Integers, FiniteSets

CONSTANTS
    Staff,      \* users with the permissions of tasks
    Vacant,     \* no user
    Calls,      \* requests that may be in flight together
    Hands       \* bounds: in a behaviour the tasks of one of these records are
                \* given by hand, so often (most), and of the operations only
                \* those of one set of `beside' overlap (a set of one: with itself)

Picks == {"local", "remote"}
Shipping == {"packing", "delivery"}
Moves == {"dispatch", "receive"}
Kinds == {"review"} \union Picks \union Shipping \union Moves

ASSUME TaskBoardAssumption ==
    /\ Vacant \notin Staff
    /\ \A h \in Hands : h.most \in Nat /\ h.tasks \subseteq Kinds

VARIABLES
    phase,      \* Order.status
    board,      \* table OperationalTask
    gathered,   \* stores all of whose lines are picked, by their task
    truck,      \* StockTransfer.status
    helpers,    \* active rows of PickingSharedResponsibility
    chief,      \* Order.pickerUserId
    given,      \* assignments so far
    hands,      \* what this behaviour is about
    call        \* requests in flight

boardVars == <<phase, board, gathered, truck, helpers, chief, given, hands, call>>

NoTask == [status |-> "NONE", who |-> Vacant]
NoCall == [op |-> "none"]
New(u) == [status |-> "PENDING_ACCEPTANCE", who |-> u]

\* The order waits for its review.
TaskBoardInit ==
    /\ phase = "PENDING"
    /\ board = [k \in Kinds |-> IF k = "review" THEN New(Vacant) ELSE NoTask]
    /\ gathered = {}
    /\ truck = "NONE"
    /\ helpers = {}
    /\ chief = Vacant
    /\ given = 0
    /\ hands \in Hands
    /\ call = [c \in Calls |-> NoCall]

activeStatuses == {"PENDING_ACCEPTANCE", "ACCEPTED", "IN_PROGRESS", "WAITING_CONFIRMATION"}
Open(k) == board[k].status \in activeStatuses
Preparing == {"CONFIRMED", "WAITING_TRANSFER", "PREPARING"}
Ended == {"DELIVERED", "CANCELLED"}
Moving == truck \in {"PENDING", "IN_TRANSIT"}
MayPick(u) == chief \in {Vacant, u} \/ u \in helpers

\* A request of a user about the row of a task, or about the order.
Take(c, op, kind, u, to) ==
    /\ call[c] = NoCall
    /\ \A d \in Calls : call[d] = NoCall \/ {call[d].op, op} \in hands.beside
    /\ call' = [call EXCEPT ![c] = [op |-> op, kind |-> kind, by |-> u, to |-> to,
                                    stale |-> FALSE, held |-> FALSE, last |-> FALSE]]
    /\ UNCHANGED <<phase, board, gathered, truck, helpers, chief, given, hands>>

Serves(c, op) == call[c].op = op

\* A row that another request has updated and not committed makes others wait.
Unheld(c, K) == \A d \in Calls \ {c} : call[d] # NoCall /\ call[d].held => call[d].kind \notin K

\* The request commits; requests that read a row of K before are stale.
Done(c, K) ==
    /\ Unheld(c, K)
    /\ call' = [d \in Calls |->
                  IF d = c THEN NoCall
                  ELSE IF call[d] # NoCall /\ call[d].kind \in K THEN [call[d] EXCEPT !.stale = TRUE]
                  ELSE call[d]]

\* "La tarea cambio": updateMany() with the version that was read matched nothing.
\* A mutant: the version is not in the WHERE.
ChangedIgnored(c) == FALSE

Changed(c) == call[c].stale

Set(k, status) == [board EXCEPT ![k].status = status]
SetAll(K, status) == [k \in Kinds |-> IF k \in K THEN [board[k] EXCEPT !.status = status] ELSE board[k]]

-----------------------------------------------------------------------------
(* assign() and the transitions of who holds a task.                          *)

TakeAssign(c, k, v) ==
    /\ k \in hands.tasks /\ board[k] # NoTask /\ given < hands.most
    /\ Take(c, "assign", k, board[k].who, v)

\* Who gave a task away keeps its right while it holds another picking task.
KeepsRight(u, k) == \E other \in Picks \ {k} : board[other].who = u /\ Open(other)

\* A mutant: it always loses the right.
LosesRight(u, k) == FALSE

StillPicks(u, k) == KeepsRight(u, k)

\* The status of the task is not looked at: an ended task is new for its new
\* assignee.
Assign(c) ==
    LET k == call[c].kind
        u == call[c].by
        v == call[c].to
    IN  /\ Serves(c, "assign")
        /\ IF Changed(c)
           THEN Done(c, {}) /\ UNCHANGED <<board, helpers>>
           ELSE /\ board' = [board EXCEPT ![k] = IF u = v THEN @ ELSE New(v)]
                /\ helpers' = IF k \notin Picks THEN helpers
                              ELSE IF u # v /\ ~StillPicks(u, k) THEN (helpers \union {v}) \ {u}
                              ELSE helpers \union {v}
                /\ Done(c, {k})
        /\ given' = given + 1
        /\ UNCHANGED <<phase, gathered, truck, chief, hands>>

Steps == [accept |-> {"PENDING_ACCEPTANCE"},
          reject |-> {"PENDING_ACCEPTANCE", "ACCEPTED"},
          start |-> {"PENDING_ACCEPTANCE", "ACCEPTED"},
          fail |-> {"ACCEPTED", "IN_PROGRESS", "WAITING_CONFIRMATION"},
          complete |-> {"ACCEPTED", "IN_PROGRESS", "WAITING_CONFIRMATION"}]

Becomes == [accept |-> "ACCEPTED", reject |-> "REJECTED", start |-> "IN_PROGRESS",
            fail |-> "WAITING_CONFIRMATION", complete |-> "COMPLETED"]

\* Only who holds a task moves it.
\* A mutant: the user is not compared.
HoldsUnchecked(u, k) == TRUE

HoldsTask(u, k) == board[k].who = u

TakeStep(c, u, k, op) ==
    /\ HoldsTask(u, k)
    /\ board[k].status \in Steps[op]
    /\ Take(c, op, k, u, Vacant)

\* transitionWithClient()
Advanced(c, k) ==
    IF Changed(c) THEN Done(c, {}) /\ UNCHANGED board
    ELSE Done(c, {k}) /\ board' = Set(k, Becomes[call[c].op])

\* accept and reject of any task, start of one that is no picking.
TakeSimpleStep(c, u, k) ==
    \/ \E op \in {"accept", "reject"} : TakeStep(c, u, k, op)
    \/ k \notin Picks /\ TakeStep(c, u, k, "start")
    \/ k = "delivery" /\ TakeStep(c, u, k, "fail")     \* reportDeliveryFailure()

SimpleStep(c) ==
    /\ call[c].op \in {"accept", "reject", "start", "fail"}
    /\ call[c].kind \notin Picks \/ call[c].op # "start"
    /\ Advanced(c, call[c].kind)
    /\ UNCHANGED <<phase, gathered, truck, helpers, chief, given, hands>>

\* Starting a picking task first starts the picking of the order.
TakeStartPicking(c, u, k) ==
    /\ k \in Picks
    /\ phase \in Preparing /\ MayPick(u)
    /\ TakeStep(c, u, k, "start")

StartPicking(c) ==
    /\ Serves(c, "start") /\ call[c].kind \in Picks
    /\ phase' = "PREPARING"
    /\ chief' = IF chief = Vacant THEN call[c].by ELSE chief
    /\ Advanced(c, call[c].kind)
    /\ UNCHANGED <<gathered, truck, helpers, given, hands>>

\* Lines of one store are picked, up or down: pickItem() for a task that is
\* IN_PROGRESS, or the page of the order, which asks for no task.
PickItem(u, k, complete) ==
    /\ k \in Picks
    /\ phase \in Preparing /\ MayPick(u)
    /\ call = [c \in Calls |-> NoCall]
    /\ gathered' = IF complete THEN gathered \union {k} ELSE gathered \ {k}
    /\ phase' = "PREPARING"
    /\ UNCHANGED <<board, truck, helpers, chief, given, hands, call>>

-----------------------------------------------------------------------------
(* The picking of the order ends with its last picking task.                  *)

TakeCompletePicking(c, u, k) ==
    /\ k \in Picks /\ k \in gathered
    /\ TakeStep(c, u, k, "complete")

\* transition() updates its row, then countOpenPickingTasks() counts the others
\* as they are committed.
CompletePicking(c) ==
    LET k == call[c].kind
    IN  /\ Serves(c, "complete") /\ k \in Picks /\ ~call[c].held
        /\ Unheld(c, {k})
        /\ IF Changed(c)
           THEN Done(c, {})
           ELSE call' = [call EXCEPT ![c].held = TRUE,
                                     ![c].last = \A other \in Picks \ {k} : ~Open(other)]
        /\ UNCHANGED <<phase, board, gathered, truck, helpers, chief, given, hands>>

\* completeOrderPicking(): every line is picked, no transfer is on its way.
\* A mutant: the transfers are not asked.
CompletableEarly(u) == gathered = Picks /\ MayPick(u) /\ phase \in Preparing

Completable(u) == gathered = Picks /\ ~Moving /\ MayPick(u) /\ phase \in Preparing

\* Its writes on top of the board B.
PickingDone(B) ==
    /\ phase' = "READY"
    /\ board' = [k \in Kinds |->
                   IF k \in Picks /\ B[k].status \in activeStatuses
                   THEN [B[k] EXCEPT !.status = "COMPLETED"]
                   ELSE IF k = "packing" /\ B[k] = NoTask THEN New(chief)
                   ELSE B[k]]

\* Refused, the request still commits the task that it completed.
PickingTaskCompleted(c) ==
    LET B == Set(call[c].kind, "COMPLETED")
    IN  /\ Serves(c, "complete") /\ call[c].held
        /\ IF call[c].last /\ Completable(call[c].by)
           THEN PickingDone(B) /\ Done(c, Picks)
           ELSE board' = B /\ Done(c, {call[c].kind}) /\ UNCHANGED phase
        /\ UNCHANGED <<gathered, truck, helpers, chief, given, hands>>

\* From the page of the order.
TakeCompleteOrder(c, u) ==
    /\ Completable(u)
    /\ Take(c, "completeOrder", "order", u, Vacant)

CompleteOrder(c) ==
    /\ Serves(c, "completeOrder")
    /\ IF phase \in Preparing THEN PickingDone(board) /\ Done(c, Picks)
       ELSE Done(c, {}) /\ UNCHANGED <<phase, board>>
    /\ UNCHANGED <<gathered, truck, helpers, chief, given, hands>>

-----------------------------------------------------------------------------
(* The other tasks: completing them does what they stand for.                 *)

\* updateOrderStatus(CONFIRMED), by the review task or from the page: the local
\* picking goes to the user if eligible for the store.
Confirm(u) ==
    /\ call = [c \in Calls |-> NoCall]
    /\ phase = "PENDING"
    /\ phase' = "WAITING_TRANSFER"
    /\ truck' = "PENDING"
    /\ chief' = u
    /\ \E picker \in {u, Vacant} :
          board' = [SetAll({k \in {"review"} : Open(k)}, "COMPLETED") EXCEPT
                      !["local"] = New(picker), !["remote"] = New(Vacant),
                      !["dispatch"] = New(Vacant), !["receive"] = New(Vacant)]
    /\ UNCHANGED <<gathered, helpers, given, hands, call>>

\* createDeliveryTaskForOrder(), on top of the board B: an order has one.
\* A mutant: any other task of the shipping counts as the delivery task.
WithDeliveryIfNone(B, u) ==
    IF \E k \in Shipping : B[k] # NoTask THEN B ELSE [B EXCEPT !["delivery"] = New(u)]

WithDelivery(B, u) == IF B["delivery"] # NoTask THEN B ELSE [B EXCEPT !["delivery"] = New(u)]

TakeCompletePacking(c, u) == TakeStep(c, u, "packing", "complete")

\* completePackingAndCreateDelivery(): the status of the order is not looked at.
CompletePacking(c) ==
    LET B == Set("packing", "COMPLETED")
    IN  /\ Serves(c, "complete") /\ call[c].kind = "packing"
        /\ IF Changed(c) THEN Done(c, {}) /\ UNCHANGED board
           ELSE board' = WithDelivery(B, call[c].by) /\ Done(c, Shipping)
        /\ UNCHANGED <<phase, gathered, truck, helpers, chief, given, hands>>

\* closeDeliveryTasksForOrder()
ShippingClosed(status) == board' = SetAll({k \in Shipping : Open(k)}, status)

\* By who holds the delivery task, in whatever status it is, or from the page.
TakeDeliver(c) ==
    /\ phase = "READY"
    /\ Take(c, "deliver", "order", Vacant, Vacant)

Deliver(c) ==
    /\ Serves(c, "deliver")
    /\ IF phase # "READY" THEN Done(c, {}) /\ UNCHANGED <<phase, board, helpers>>
       ELSE /\ phase' = "DELIVERED"
            /\ ShippingClosed("COMPLETED")
            /\ helpers' = {}
            /\ Done(c, Shipping)
    /\ UNCHANGED <<gathered, truck, chief, given, hands>>

\* With picked lines the order waits for its goods, with its tasks open.
TakeCancel(c) ==
    /\ phase \notin Ended
    /\ Take(c, "cancel", "order", Vacant, phase)

Cancel(c) ==
    /\ Serves(c, "cancel")
    /\ IF phase # call[c].to THEN Done(c, {}) /\ UNCHANGED <<phase, board, helpers>>
       ELSE IF gathered # {} /\ phase # "RETURN_PENDING"
       THEN phase' = "RETURN_PENDING" /\ Done(c, {}) /\ UNCHANGED <<board, helpers>>
       ELSE /\ phase' = "CANCELLED"
            /\ ShippingClosed("CANCELLED")
            /\ helpers' = {}
            /\ Done(c, Shipping)
    /\ UNCHANGED <<gathered, truck, chief, given, hands>>

\* syncTransferStatus()
MovesClosed(K, status) == board' = SetAll({k \in K : Open(k)}, status)

\* Dispatching by the task completes the task twice: the second time is refused
\* (409), but the goods have left.  Dispatching from the page is the same step.
TruckLeaves ==
    /\ call = [c \in Calls |-> NoCall]
    /\ truck = "PENDING"
    /\ truck' = "IN_TRANSIT"
    /\ MovesClosed({"dispatch"}, "COMPLETED")
    /\ UNCHANGED <<phase, gathered, helpers, chief, given, hands, call>>

TruckArrives ==
    /\ call = [c \in Calls |-> NoCall]
    /\ truck = "IN_TRANSIT"
    /\ truck' = "RECEIVED"
    /\ MovesClosed(Moves, "COMPLETED")
    /\ UNCHANGED <<phase, gathered, helpers, chief, given, hands, call>>

TruckCalledOff ==
    /\ call = [c \in Calls |-> NoCall]
    /\ Moving
    /\ truck' = "CANCELLED"
    /\ MovesClosed(Moves, "CANCELLED")
    /\ UNCHANGED <<phase, gathered, helpers, chief, given, hands, call>>

\* Where there is nothing to dispatch or to receive the task is just completed.
TakeCompleteMove(c, u, k) ==
    /\ k = "dispatch" => truck # "PENDING"
    /\ k = "receive" => truck # "IN_TRANSIT"
    /\ k \in Moves
    /\ TakeStep(c, u, k, "complete")

CompleteMove(c) ==
    /\ Serves(c, "complete") /\ call[c].kind \in Moves
    /\ Advanced(c, call[c].kind)
    /\ UNCHANGED <<phase, gathered, truck, helpers, chief, given, hands>>

-----------------------------------------------------------------------------
\* The requests that may begin, and the tasks that a user may move.
Free == {c \in Calls : call[c] = NoCall}
HeldBy(u) == {k \in Kinds : HoldsTask(u, k)}

TaskBoardNext ==
    \/ \E u \in Staff :
          \/ Confirm(u)
          \/ \E k \in Picks, complete \in BOOLEAN : PickItem(u, k, complete)
    \/ TruckLeaves \/ TruckArrives \/ TruckCalledOff
    \/ \E c \in Calls :
          \/ Assign(c) \/ SimpleStep(c) \/ StartPicking(c) \/ CompletePicking(c)
          \/ PickingTaskCompleted(c) \/ CompleteOrder(c) \/ CompletePacking(c)
          \/ Deliver(c) \/ Cancel(c) \/ CompleteMove(c)
    \/ \E c \in Free :
          \/ TakeDeliver(c) \/ TakeCancel(c)
          \/ \E u \in Staff :
                \/ TakeCompleteOrder(c, u) \/ TakeCompletePacking(c, u)
                \/ \E k \in hands.tasks : TakeAssign(c, k, u)
                \/ \E k \in HeldBy(u) :
                      \/ TakeSimpleStep(c, u, k) \/ TakeStartPicking(c, u, k)
                      \/ TakeCompletePicking(c, u, k) \/ TakeCompleteMove(c, u, k)

TaskBoardSpec == TaskBoardInit /\ [][TaskBoardNext]_boardVars

-----------------------------------------------------------------------------
(* Types; a task that nobody holds has not been taken up.                     *)
TaskBoardTypeOK ==
    /\ phase \in Preparing \union Ended \union {"PENDING", "READY", "RETURN_PENDING"}
    /\ board \in [Kinds -> [status : activeStatuses \union
                        {"NONE", "COMPLETED", "REJECTED", "CANCELLED"}, who : Staff \union {Vacant}]]
    /\ \A k \in Kinds : board[k].who = Vacant =>
          board[k].status \in {"NONE", "PENDING_ACCEPTANCE", "COMPLETED", "CANCELLED"}
    /\ gathered \subseteq Picks
    /\ helpers \subseteq Staff
    /\ chief \in Staff \union {Vacant}

\* "Solo el usuario asignado puede ejecutar esta tarea" (operational-task.service.ts:332),
\* also when the task is given to somebody else while the request runs.
MovedByHolder ==
    [][\A c \in Calls : call[c].op \in DOMAIN Steps =>
          \/ board'[call[c].kind].status = board[call[c].kind].status
          \/ call'[c] # NoCall
          \/ board[call[c].kind].who = call[c].by]_boardVars

\* An order that was packed has somebody to hand it over.
PackedIsShipped == board["packing"].status = "COMPLETED" /\ phase = "READY" => board["delivery"] # NoTask

\* Who holds an open picking task of an order that is being prepared may pick it.
HolderMayPick ==
    phase \in Preparing =>
        \A k \in Picks : Open(k) /\ board[k].who # Vacant => board[k].who \in helpers \union {chief}

\* The goods that a READY order was made of do not move any more.
ReadyIsGathered == phase = "READY" => gathered = Picks /\ ~Moving

\* The tasks and the order they belong to agree, whoever works on which of them.
BoardFollowsOrder == PackedIsShipped /\ HolderMayPick /\ ReadyIsGathered
=============================================================================
