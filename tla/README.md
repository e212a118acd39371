# Formal models of the ERP backend

This directory holds TLA+ models of the backend under `src/src` (a multi-tenant
ERP: orders, stock, picking, electronic vouchers for the Peruvian tax authority
SUNAT, a shared inbox over WhatsApp, and the life of a tenant as a customer of
the platform), the TLC runs that check them on small instances, and proofs,
checked by TLAPS, that some of the properties hold for every instance. Paths
below are relative to `src/src/` unless they start with another directory of the
repository; `OS` stands for `presentation/services/order.service.ts`, `INV` for
`presentation/services/inventory.service.ts`, `Q` for
`modules/platform/sunat-job-queue.ts`.

Contents

1. The system: processes, transactions, components
2. The modules
3. How the models correspond to the code
4. Properties
5. Runs, bounds, fairness
6. Proofs
7. Where the code and its documents disagree
8. Hazards that no property covers
9. What is not modelled

`PROJECT.json` has the same information in tables: the components, the source
lines of every definition, the hazards with the properties that guard them, the
runs, the mutations that show that each property can fail, and the theorems.

---

## 1. The system

Express routes validate a request, put the tenant in an async context, and call
a service. A service reads and writes PostgreSQL through Prisma. Several
processes of the API run side by side, and workers (`scripts/`) run next to
them; the database is all they share. Only a migration script asks for an
isolation level, so every transaction of a service runs under READ COMMITTED: a
plain `SELECT` sees what was committed when it ran, an `UPDATE ... WHERE`
re-evaluates its condition under the lock of the row, and only
`SELECT ... FOR UPDATE` makes another request wait.

### 1.1 The transaction of a request

This decides what a crash, an error and a race can do, and it is easy to miss:

- `validateJWT` and `PublicTenantMiddleware` open *one* transaction for the whole
  HTTP request (`data/prisma.ts:234-282`, limit 120 s). A `$transaction` of a
  service called inside it only runs its callback on the outer transaction
  (`data/prisma.ts:204-216`): there is no savepoint.
- `continueThroughResponse` (`presentation/response-tasks.ts`) resolves, and so
  commits, when the response has been *sent*, whatever its status. Hence a
  service that writes and then throws a `CustomError` (a 4xx answer) commits what
  it wrote; an error of the database aborts everything the request did,
  also what an earlier `$transaction` seemed to have committed; and a client can
  receive 200 for a commit that fails.
- A job of the worker runs in one such transaction. The WhatsApp webhook opens
  one for each shop, committed before its 200. The scripts
  `reconcile-tenant-*` open none: each of their queries is a commit.
  `CommercialAssetService` and the services of passwords and registration use the
  connection of the platform: their queries commit on their own.

`Fulfilment` models the services as they are called outside a request (their
`$transaction`s are their commits): every behaviour of a request that ends well
is one of its behaviours, with more interleavings. `RequestCommit` adds what a
request does when a service throws after it wrote. The other modules model a
request as the one transaction it is.

### 1.2 Components

What each keeps, what makes it hard, and when it is right. The module that models
it is in brackets.

**Warehouse** (`INV`) [`Warehouse`]. Inventories (stock and reserved units per
store and variant), reservations, transfers between stores. Receptions are
partial; reception, cancellation and dispatch race; a transfer may outlive its
order. Right when nothing is oversold, the ledger of reservations balances, and a
transfer leaves once, is settled once and its units add up.

**Order desk, status, lines** (`OS`) [`OrderDesk`, `OrderStatus`, `OrderLines`,
`Proforma`]. Orders are created against the stock of several stores, confirmed,
cancelled, returned, delivered; lines are reserved, released, declared short,
returned, and edited while an e-commerce order is still open. Most handlers
decide on a read without a lock. Right when lines, reservations and stock agree,
an order that is over stays over and holds nothing, and what is delivered was paid
for by stock.

**Picking** (`OS`) [`Picking`, `PickingTeam`]. Several people pick one order,
share it, hand it over, take units back; who answers for the goods of a cancelled
order. Right when every picked unit is credited to one person, the order and its
session name the same person, and nothing is picked of a closed order.

**Operational tasks** (`modules/tasks`) [`TaskBoard`]. Review, picking, packing,
delivery, dispatch and reception, with an optimistic version; completing one
moves the order or the transfer. Right when the tasks follow the order and only
their holder moves them.

**SUNAT jobs** (`Q`, `scripts/sunat-worker.ts`) [`SunatJobQueue`]. Workers die
with a job in their hands, locks grow stale while their owners are alive, jobs are
enqueued again. Right when every job is settled, once.

**Vouchers** (`modules/sunat/services`) [`Vouchers`]. A number is taken, the
document is sent and the answer noted in one transaction; boletas are declared by
a daily summary, voided by a communication, both polled with a ticket. SUNAT keeps
what it was told when the transaction is undone. Right when numbers are dense
and the rows say what SUNAT said.

**Registration, invitations, passwords** (`modules/registration`,
`modules/invitations`, `modules/auth`, `presentation/services`) [`Registration`,
`Office`, `Credentials`]. Codes and letters that are resent, expire, are used
concurrently and whose delivery fails; limits and quotas. Right when limits hold,
one code sets one password, one identity is one user, and members come and rise
by the rules.

**Catalogue** (`presentation/services/product.service.ts`,
`modules/commercial-assets`) [`Catalogue`]. Products, variants and pictures within
the places of the plan; pictures live at a provider and their rows in commits of
their own.

**Inbox** (`modules/attention`, `modules/whatsapp`) [`Attention`]. Meta delivers
batches until it is answered 200; clerks reply through Meta and settle
conversations; shops connect numbers. Right when what was answered is stored, in
the shop it was sent to, and counted.

**Tenant lifecycle and billing** (`modules/lifecycle`) [`Tenancy`]. Trials expire,
subscriptions fail and are paid, webhooks are late, repeated and reordered, a job
purges an expired trial and may fail or die halfway. Right when who pays works,
nothing is deleted before the grace period ends, and a purge that has begun comes to
an end.

**Admin events** (`presentation/admin-events`) [`EventFeed`]. An outbox, several
dispatchers that crash, streams that resume. **HTTP handlers** of orders, stock
and tasks [`TenantApi`]: authorisation, change, history, announcement, answer, audit,
commit.

**Take-over scripts** (`scripts/reconcile-tenant-*`, `modules/tenant`)
[`Backfill`]. Each story inspects the tables and seals the baseline in a
checkpoint while the shop works on; stories build on one another.

Components that are not modelled are in section 9.

---

## 2. The modules

    ErpState            tables, requests, sums            TransferContract
      Warehouse         inventory.service.ts                    ^
        OrderDesk       creation of orders                      |
          OrderStatus   updateOrderStatus                       |
            OrderLines  reserve, release, shortage, return      | implemented by
              Picking   sessions, units, tasks                  |
                Fulfilment   all of it interleaved, properties -+
                  FulfilmentTypes > FulfilmentProofs
                    > FulfilmentDeeds > FulfilmentUnits
                  MCFulfilment                             instances
                  RequestCommit > MCRequestCommit          as HTTP runs it

    PickingTeam, TaskBoard, Proforma                > MCTeam > TeamProofs
    Registration, Office, Catalogue, Credentials    > MCAccounts > AccountsProofs
    Vouchers, SunatJobQueue, Backfill, Attention    > MCFiscal > FiscalProofs
    Tenancy, EventFeed, TenantApi                   > MCPlatform > PlatformProofs

A module of the first tree EXTENDS the one above it, because a handler of one
file writes the rows of another. `Fulfilment` composes them: its `Next` is the
disjunction of every handler in every request slot.

**Parts.** The components joined by `MCTeam`, `MCAccounts`, `MCFiscal` and
`MCPlatform` do not read each other's rows. Their product would multiply the
states and say nothing more, so the joining module has a variable `part`, chosen
initially and never changed: in a behaviour only that component moves, the others
stay in one initial state. A run therefore explores the union of the components'
state spaces, and a property of one is checked in the behaviours where it moves.

**Where components that meet are modelled together.** Orders, stock, transfers and
tasks in `Fulfilment`; picking, responsibility and returned goods in `PickingTeam`;
tasks, order and transfer in `TaskBoard` (with the order and the transfer reduced
to the statuses that tasks look at); letters, members, stores and quotas in
`Office`; subscription, tenant, sweeps and the purge job in `Tenancy`; a
voucher and the jobs about it in `Vouchers` (a job is a task that may come
at any time, and come again: what `SunatJobQueue` promises of a job, and no
more).

**The abstract specification.** `TransferContract` states what a transfer is,
without tables: it is asked for, leaves, arrives in parts, is over or is called
off. `Fulfilment` implements it under a refinement mapping
(`Contract == INSTANCE TransferContract WITH ...`), checked by `order_race` and
proved in `FulfilmentTypes`.

---

## 3. How the models correspond to the code

Two conventions hold everywhere. A step the code would reject is a step that is
not enabled, or one that ends the request; the wording of the error is left out.
And a read that is used later is kept in the record of its request (`req`,
`flight`, `call`, `editor`, `desk`, `client`, `hook`, `task`, `clerk`): the action
that reads and the action that writes are two, and whatever other actors do in
between is done to the rows, not to what was read.

### 3.1 Fulfilment

Tables are functions from ids to records; columns no handler reads back are left
out.

| variable | table | columns kept |
|---|---|---|
| `inv` | `Inventory` | `stock`, `reserved` (`reservedStock`) |
| `ord` | `Order`, `PickingSession` | `status`, `channel`, `source`, `fulfil` (`fulfillmentStoreId`), `session` |
| `line` | `OrderItem`, `PickingOrderItemDetail` | `qty`, `reserved`, `picked`, `shortage`, `returned`, `store` |
| `res` | `Reservation` | `status`, `ord`, `line` (`orderItemId`), `inv`, `qty` |
| `xfer` | `StockTransfer`, `StockTransferItem` | `status`, `from`, `to`, `ord`, and per item `line`, `variant`, `qty`, `disp`, `rec`, `disc` |
| `task` | `OperationalTask` | the status of the review, picking (per store), packing and delivery task of an order |
| `req` | - | what a request in flight has read so far |

**Requests.** A request occupies one of `Slots`. A handler that locks or claims
the rows it decides on before it reads them is one action (every handler of
`INV`, the creation of orders, `registerOrderReturn`). A handler that reads first
and writes later has two actions or more: `ReserveRead` checks what the code
checks and remembers in `req[s]` what the code keeps in variables;
`ReserveWrite` does what the transaction does to the rows *as they are by then*.
`UpdateStatusRead`, `UpdateStatusLock` and the five final actions are the three
steps of `updateOrderStatus`; `StartPickingRead`, `StartPickingSession` and
`StartPickingStatus` the commits of `startOrderPicking`; `SyncRead` and
`SyncWrite` the halves of `syncPickingAndOrderStatus`.

**Locks.** Only `updateOrderStatus` holds `SELECT ... FOR UPDATE` on an order
across two steps. `Unlocked(o, s)` is the guard of every action that would wait
for that lock: an `UPDATE` of the row, a `FOR UPDATE` of it, and an `INSERT` whose
foreign key references it. Actions that need no such lock, for instance a release,
go through, as they do in PostgreSQL.

**Aborts.** `Abort(s)` ends a request between two steps and changes no table: a
thrown error, a violated CHECK constraint, a deadlock that PostgreSQL breaks, a
lost connection, a crash.

**Constraints.** `Sound` and `ReturnsSound` are the CHECK constraints of
`prisma/migrations/20260729120000_formalize_startup_schema` and
`20260729190000_guard_return_quantities`. They are guards where a statement could
break them, because a transaction that does is rolled back. The models follow the
migrations, not `schema.prisma`, where the two differ: `schema.prisma:1828`
declares `Reservation.orderId` unique, no migration does, and an order has many
reservations.

**Idempotency keys.** The id of an order stands for the key of its sale: a replay
finds the order and changes nothing, so `CreateOrder(s, o)` has the guard
`~Placed(o)`.

**Sums.** `Total(S, f)` is `SELECT SUM`: the cardinality of a disjoint union
instead of a recursion, so that theorems about finite sets apply to it.

**RequestCommit.** `RefusedDispatch` and `RefusedReceive` are
`dispatchStockTransfer` and `receiveStockTransfer` inside a request, when a later
item is refused after earlier ones were written: the request answers 4xx and
commits.

### 3.2 The people of an order: `PickingTeam`, `TaskBoard`, `Proforma`

`PickingTeam`. The order has one line, all of it reserved. `Arrive(s, u)` is any
request of user `u`: it reads what the handler reads before it writes and goes in
flight; `Commit(s)` is the transaction of that request, over the rows as they have
become. The operations are the values of the field `op` of a request (start, assign,
ask, delegate, share, resolve, pick by line and by variant, pick everything,
unpick, complete, cancel, deliver, delegate and accept the return, finish it); each
has an operator of its own. `picked` is the one quantity that the code
keeps in three columns, `units` what `PickingItemContribution` credits to a user.

`TaskBoard`. One order served from two stores and one transfer. `Take...` reads the
task and its version, the action of the same name writes. The version of a row is
kept as what it is for: a request whose row was written since is `stale`, and the
claim with the old version fails. What the completion of a task does to its order
or transfer is part of the action.

`Proforma`. Lines of an open e-commerce order are added, removed, restored,
reserved and released, each by one transaction of several statements. What a
request has written stays invisible and locked until `EndRequest`; `AbortRequest`
undoes it.

### 3.3 Accounts: `Registration`, `Office`, `Credentials`, `Catalogue`

`Registration`. The clock is `window`: rate limits, codes and tokens last one.
`ConsumeLimits` is the transaction of `assess()` (with the count under its lock),
`CaptchaAnswers` the call that follows it, `SignupCommit` the registration,
`Delivered` and `DeliveryFails` the answer of the provider of the mail, and so on.
`provision()` is one transaction of four steps, because each of its statements sees
what was committed when it runs: `ProvisionRead` looks the token up, `ProvisionCheck`
asks whether the identity works in a tenant on trial (then it is answered 409),
`ProvisionClaim` is the conditional UPDATE that waits for the row, `ProvisionCommit`
the rest. A trial lasts longer than a window, so that the one just made is active;
`sent` numbers the credentials, so that "the credential I read" can be compared
with "the one in force".

`Office`. A letter (`TenantInvitation`) remembers how often it was posted: its
token. `Invite`, `CountMembers`, `SendLetter` are the read of the open letter, the
quota and the write of one transaction; `Accept` and `Join` the two halves of
`accept()`; `WriteMember` the write of `UserService.update`. The advisory lock of
a quota is held from the count to the end of the transaction. A behaviour is about
one `day`: the operations that occur in it and the seats of the plan.

`Credentials`. A call is a process whose queries commit on their own: `ReadRecent`
(the cooldown), `CreateCode`, `SendCode` (the provider accepts, refuses, or the
code is withdrawn), `LookUp`, `FailTry`, `CheckNewest`, `ChangePassword`; `Login`
reads the password, `GiveSession` signs the token later; `Present` and `Serve` are
the two reads of `validateJWT`. `CutShort` is the death of the process anywhere.

`Catalogue`. What an edition writes to `Product`, `ProductImage` and
`ProductVariant` is in its request until `Finish`; what `CommercialAssetService`
writes is committed at once, and what the provider stores is in `stored`. A picture is
reserved with the size of the file that was inspected, one unit of storage, and
activated with the size the provider reports, that of its renditions together: none to
two units (`Activate`). Only the first is compared with the plan.

### 3.4 Books: `Vouchers`, `SunatJobQueue`, `Attention`, `Backfill`

`Vouchers`. `task` holds the transactions. A voucher is issued in four steps:
launch, `ReserveNextNumber` (the row of the series stays locked), `SendBill`,
`CommitVoucher`. SUNAT (`fisc`, external) has what it accepted under a file name,
the tickets it gave and how it decided them; a `Cut` undoes a transaction but not
what SUNAT has, and the name it has already makes the answer of the next attempt.
What throws without the database is answered with an error and committed (1.1), as far
as it had come: a voucher whose document could not be stored, or whose answer could
not be read or stored (`SendBill` with the answers "unstored" and "unread",
`comprobante.service.ts:724-736` and `:776-808`), stays a draft although SUNAT may have accepted it;
a summary or communication that could not be signed or stored (`Unsent`,
`:999-1009`, `:1272-1282`) stays PENDING without a ticket, and its lines with it. In a
job of the worker the same error undoes everything: a `Cut`.
Half days (`slot`) tell the day of Lima from the day of UTC after 19:00.

`SunatJobQueue`. `job[j]` is a row of `SunatJob`; each operation of `Q` is one SQL
statement or one transaction, hence one action, except `fail()`, which reads the
row under a condition on its owner and then writes it by id with none: `FailRead`
and `FailWrite`. A member of `Workers` is one process, because `lockedBy` carries
a fresh UUID: a restarted worker is another member. `pc` is where the process is
in `runOne()`. The clock is abstracted to the two comparisons the code makes:
`due` and `stale` (`lockedAt` older than fifteen minutes), both turned on by
`Elapse` at any time. `recoverStaleLocks` runs where the code runs it: once, when a
process starts (`scripts/sunat-worker.ts:182-184`).

`Attention`. One customer writes to every shop. `PostReads` is the look for the
message, the customer and the conversation of one shop of the batch, `PostWrites`
its transaction, `PostAnswers` the 200 (or the 400) when all shops are done.
`ReplyBegins`, `ReplyAccepted` or `ReplyFails`, `ReplySaved` are `send()` around the
call to Meta; `LinkCheck` and `LinkWrite` are `connect()`. `PostDies` and `ClerkDies`
undo the open transaction. What was answered, dropped or served before is history
for the properties.

`Backfill`. The stories MIG-003 to MIG-011. A row is its id: those of the baseline
come first (`Baseline`), later ones count on. A script marks its checkpoint RUNNING,
inspects, and reports, each a commit; the inspection is one step, although its queries
are several. It compares what it counts with the baseline (`Inspect`), or throws with
nothing wrong with the rows (`Throw`): a query fails, or Cloudinary does not answer
(`catalog-reconciliation.ts:252-259`). The other actions are the shop at work: rows
that grow, stock that moves, an order that is returned, a product or a picture
deleted (`Delete`), and an edit of a product, which deletes the rows of its pictures
and inserts them again with new ids (`ReplaceImages`, `product.service.ts:1606-1615`).

### 3.5 Platform: `Tenancy`, `EventFeed`, `TenantApi`

`Tenancy`. Time counts periods of grace. `DeliverRead` and `DeliverWrite` are the
two halves of `process()` in `billing-webhook.service.ts`; the sweeps
(`ExpireTrial`, `SuspendUnpaid`) are one transaction each; the purge is the job
PURGE_TRIAL step by step (`ClaimPurge` ... `CompletePurge`), because each of its
steps is a commit, may throw (`FailPurge`: the job is FAILED, or DEAD with its last
attempt), and its worker may end after any of them (`CrashPurge`). Then the job stays
RUNNING: only the start of a worker (`StartWorker`) recovers it, and only if its lock
is fifteen minutes old, which it is or is not by then. There is one worker
(`railway.worker.toml`); two are in `SunatJobQueue`. No
caller of `expireDueTrials`, `suspendSubscriptionsPastGrace` and
`approveProduction` exists in the repository: they are modelled as the exported
operations they are, at any time.

`EventFeed`. The row is inserted with its sequence (`Publish`) and becomes visible
later (`CommitRow`); any process claims it (`Claim`), sends it (`Send`, or
`SendAlone` when Redis is not there) and marks it. A stream is connected to one
process and asks for what came after its last event id (`Replay`).

`TenantApi`. One request. `call` says which of the routes of the order, stock and
task controllers it is, and for each the module has what the router asks for, the
history the handler writes and the events it publishes. `Serve` changes something
in the open transaction; `Note`, `Announce`, `Audit` are the records that speak of
it; `Succeed` sends the answer; `CommitRequest` or `Lose` come after it.

### 3.6 Mutations

`PROJECT.json` names, for each property of each passing run, a plausible bug that
makes TLC find it violated, and one for each part of a conjunction that is about a
module of its own. The mutated form stands above the definition it replaces
(`PickedKept` above `PickedClamped`, `FitsPhysically` above `Fits`): a dropped
re-check, a forgotten clamp, the wrong term in a sum. No specification uses these
definitions.

---

## 4. Properties

A property of a run may be the conjunction of several named ones; the parts are
listed under it.

### Stock and orders (`Fulfilment`)

| property | kind | what it says |
|---|---|---|
| `LedgerBalanced` | invariant | `reservedStock` of an inventory is the sum of its ACTIVE reservations: what `auditReservedStock()` audits |
| `NothingOversold` | invariant | what is reserved exists, and is what somebody ordered: `NeverOversold` (per inventory) and `LinesNotOverReserved` (C6, per line) |
| `TransferBalanced` | invariant | the units of each item of a transfer agree with the status of the transfer |
| `TransfersKeepContract` | refinement | `Fulfilment` implements `TransferContract` |
| `UnitsAccounted` | invariant | stock + on the road + delivered = what there was |
| `LinesAgree` | invariant | `PickedWithinReserved` (C4), `LinesBacked` (what open lines count as reserved is reserved, or on the road to the order), `ReturnsWithinDelivered` |
| `ClosedHoldsNothing` | invariant | a DELIVERED or CANCELLED order has no ACTIVE reservation |
| `ClosedIsFinal` | action | nothing changes the status of such an order |
| `ClosedIsLeftAlone` | action | what the guards under the lock (G1, G3, C1) are for: a request that looked at the order before never confirms, completes, delivers or cancels it again, and picks nothing more of it |
| `PickedGoodsComeBack` | action | G2: an order is not CANCELLED with picked units, except from RETURN_PENDING |
| `DeliveryIsPaid` | action | when an order becomes DELIVERED, the stock of each variant drops by what its lines owe |

### People (`PickingTeam`, `TaskBoard`, `Proforma`)

| property | kind | what it says |
|---|---|---|
| `UnitsCredited` | invariant | every picked unit is credited to exactly one user, also when two pick one line together |
| `LinesAndDesk` | invariant | `NothingLeftOpen`: a closed order leaves no request open that nobody could resolve; `SamePicker`: order and session name the same user; `TotalIsTheLines`: the customer pays for the lines that were not removed; `ReservationsAgree`, `PromisesKept`: lines, inventories and reservations agree, and nothing is promised twice, whatever two editions had read |
| `HandedOver` | action | work never takes an order over: only a start, a delegation, an approved request or an assignment does |
| `BoardFollowsOrder` | invariant | `PackedIsShipped`: an order that was packed has somebody to hand it over; `HolderMayPick`: who holds an open picking task may pick; `ReadyIsGathered`: the goods of a READY order do not move any more |
| `MovedByHolder` | action | only the assigned user moves a task, also when it is given to somebody else while the request runs |

### Accounts (`Registration`, `Office`, `Credentials`, `Catalogue`)

| property | kind | what it says |
|---|---|---|
| `LimitsHold` | invariant | in one window an identity or a device is let through at most that often, unless support has overridden a rejection |
| `OneUserGetsIn` | invariant | `ConflictHasCause`, `LimitHasCause`, `EmployeeOrOwner`: whoever is told that the tenant exists is a user already or lost its slug to a business of another name, whoever is told of a trial has one, one identity is one user; `OncePerCode`, `SessionsFollowPassword`, `OldCodesEnd`, `NewestArrived`: a code sets one password, whoever is admitted got in with the password in force (also a login that was under way), the older codes end, and a code nobody received does not stand before one that arrived, unless the process died |
| `CodesHold` | action | `DeliveredStaysValid`: a code that reached its owner is in force until used, replaced or expired, whatever fails beside it; `NewestIsAccepted`: a code read before a newer one was sent is not accepted |
| `PlanHolds` | invariant | `OneLetter`, `StoresHold`, `ShelvesHold`: one valid letter for a person; stores, products, variants and pictures fit the plan however requests overlap, and storage exceeds it only by the renditions of pictures that were on their way when the last one was admitted (`StorageHeld`) |
| `MembersByTheBook` | action | `LettersFit`, `JoinedByLetter`, `AdminsByOwner`: letters fit the seats that were counted; who joins has a letter that was pending, and gets its role; only the owner makes or changes administrators |

### Books (`Vouchers`, `SunatJobQueue`, `Attention`, `Backfill`)

| property | kind | what it says |
|---|---|---|
| `OutsideAgrees` | invariant | `BooksAgree`: numbers are dense whatever is undone (`NumbersAreDense`), what the database says SUNAT accepted it accepted (`AcceptedBySunat`), a voucher on its way is a line of the notice that carries it, one that is pending, accepted or not yet answered for good (`SentWithItsNotice`; a notice that was never sent keeps its lines). `InboxHolds`: what Meta was told is received is stored (`AnsweredIsStored`), once, in the shop it was sent to (`StoredWhereItBelongs`), counted (`UnreadIsCounted`), never in a conversation somebody resolved meanwhile (`ResolvedIsQuiet`), and a number belongs to one shop (`NumberHasOneShop`) |
| `AcceptanceIsKept` | action | an acceptance that is on record stays there: the voucher is never a draft again, whatever summaries and communications about it fail, and a void sale stays void |
| `RowsAreTrue` | invariant | `OwnerIsWorking`: a RUNNING row is in the hands of the process whose name is on it, or that process is gone; `SuccessMeansDone`: a SUCCEEDED job did its work. Two workers at once |
| `LeaseHeld` | invariant | with one worker at a time, the process that works on a job owns its row |
| `SettledIsFinal` | action | with one worker at a time, a SUCCEEDED or DEAD row never changes again |
| `EverySettles` | liveness | every job ends SUCCEEDED or DEAD, or its worker died with it and nothing can run it again (`Stranded`) |
| `SealsHold` | invariant | `CompletedInOrder`: no story was completed before those it builds on; `SealsTheBaseline`: a seal has as many rows as the baseline, and is the baseline as long as none of its rows was deleted |
| `GrowthKeepsSeal` | action | a seal is never exchanged for another, and (of the stories that ask for no other) is lost only when its baseline has changed or an inspection of its own threw: not because the tables grew, a script died, or others failed |

`EverySettles` has its exception on purpose. Only a start of the worker recovers
locks, so the job of a process that died stays RUNNING until the next start, and
if that start comes within fifteen minutes, until the one after it; and a job
recovered with its attempts used up is never claimed (section 8). `PurgeIsFinished`
has the same exception, for the same reason (`Stranded` of `Tenancy`): one death and a
prompt restart are enough to leave a purge halfway.

### Platform (`Tenancy`, `EventFeed`, `TenantApi`)

| property | kind | what it says |
|---|---|---|
| `PaymentsCount` | invariant | `PaidIsServed`: no order of webhooks and sweeps leaves a tenant whose subscription is ACTIVE read-only or on trial; `EventOnce`: a redelivered event changes the tenant at most once |
| `PurgeIsFair` | action | `PurgedIsFinal`: nothing brings a purged tenant back; `GraceIsKept`: nothing is deleted before the grace period ends |
| `PurgeIsFinished` | liveness | a purge that has begun, at whatever step it threw or died, is recorded as done (TRIAL_PURGED) in the end, or is `Stranded`: its attempts are used up, or its worker died with it and the next one started too soon to recover it |
| `ScreensAreRight` | invariant | `OneCourier`: two processes do not dispatch one event, unless one is slower than a claim lasts; `SteadySeesAll`: a screen that stays connected sees every PUBLISHED event; `NewsIsTrue`: what is announced is kept, or was kept before |
| `EventuallyPublished` | liveness | what was committed is published in the end |

Each joining module also has one type invariant (`TeamTypeOK`, `AccountsTypeOK`,
`FiscalTypeOK`, `PlatformTypeOK`), and so have `Fulfilment` and the queue.

---

## 5. Runs, bounds, fairness

| run | instance | distinct states | checks |
|---|---|---|---|
| `fulfilment_serial` | 1 order, 1 line, 2 stores, 1 request at a time, everything but transport | 1,791,609 | `LinesAgree`, `ClosedHoldsNothing`, `ClosedIsFinal`, `DeliveryIsPaid` |
| `fulfilment_transfers` | the same with transport and tasks, fewer ways to pick | 1,768,381 | `UnitsAccounted` |
| `warehouse` | `INV` alone, 2 transfers | 37,489 | `TypeOK`, `TransferBalanced` |
| `order_race` | 2 requests at a time on one order: status, picking, tasks, transport | 654,377 | `LedgerBalanced`, `ClosedIsLeftAlone`, `PickedGoodsComeBack`, `TransfersKeepContract` |
| `stock_race` | 2 requests of 2 orders on one inventory | 1,624,685 | `NothingOversold` |
| `queue_single` | 2 jobs, 3 processes, 1 alive at a time, one of them immortal | 49,170 | `TypeOK`, `LeaseHeld`, `SettledIsFinal`, `EverySettles` |
| `team` | parts picking (2 people, 2 units, 2 requests), tasks (2 people, 2 requests; three assignments one after the other, or one beside the completion of a task, or the reception given away), proforma (3 lines, 2 stores, 2 requests, 3 of them in all) | 861,054 | `TeamTypeOK`, `UnitsCredited`, `LinesAndDesk`, `BoardFollowsOrder`, `HandedOver`, `MovedByHolder` |
| `accounts` | parts registration (2 owners, 2 requests), office (3 people, 2 stores, 2 requests, 3 kinds of day), credentials (2 calls at once, 3 in all, 2 codes), catalogue (2 products, 3 pictures, 2 clerks, 3 editions) | 1,203,561 | `AccountsTypeOK`, `LimitsHold`, `OneUserGetsIn`, `PlanHolds`, `CodesHold`, `MembersByTheBook` |
| `fiscal` | parts vouchers (2 documents of a day, 2 transactions, 1 mishap or passing of the half day), queue (2 jobs, 2 of 3 workers alive), inbox (2 shops, 4 messages in 2 batches, 2 webhooks at once, 1 clerk, 2 deeds), backfill (2 scripts, baselines of 2 rows and a third one later, the stories in five groups) | 757,815 | `FiscalTypeOK`, `OutsideAgrees`, `RowsAreTrue`, `SealsHold`, `AcceptanceIsKept`, `GrowthKeepsSeal` |
| `platform` | parts tenancy (2 events, 2 deliveries at once, time 0..2, 2 attempts of the purge, 2 ends of its worker), feed (2 events, 2 instances, 1 screen, 2 faults), api (one request of every route, 2 faults) | 257,211 | `PlatformTypeOK`, `PaymentsCount`, `ScreensAreRight`, `PurgeIsFair`, `PurgeIsFinished`, `EventuallyPublished` |

Two more runs, `refused_dispatch` and `sale_blocked`, end in a violation: section 7.

**One request at a time** (the first three runs): each request may also stop after
any of its commits. Long sequences of legal calls (reserve, release a part,
declare a shortage, pick, cancel, return) keep the lines, the reservations and the
stock in agreement. This is where arithmetic mistakes would show, so quantities go
up to 2: one unit can be split off and one stays behind.

**Two at a time** (all others): interleaved wherever the code lets go of the
database. Two are enough for the hazards listed: each is about one actor acting
between the read and the write of another. A third actor appears where it
matters: the shop beside two scripts, SUNAT beside two transactions, the support
desk beside two requests for a trial.

**Bounds.** Two attempts distinguish a first, a retried and a last attempt of a
job; the third process claims what one replica lost while another still holds
something. Two codes are an old and a new one, two letters a first and a resent
one, limits and places of 1 are met by the first request and exceeded by the
second. Bounds on how often something happens (`most` of `Hands`, `MaxWork`, `MaxEdits`,
`MaxCalls`, `MaxLetters`, `MaxInvited`, `MaxTurns`, `MaxDeeds`, `MaxFaults`, `MaxApiFaults`,
`MaxCrashes`, `MaxTime`) stand in the guards of what people, the clock or the
environment do, never in those of a step that a request has to take; `MaxDeeds`
counts what owners and clerks do and the deaths of webhooks, not the deliveries of
Meta; `MaxTurns` counts the calls of SUNAT and the storings that fail and the half days that
pass. `Days`, `Trades`, `Hands` and `SomeStories` divide a product that would be too
large into behaviours about two or three operations each.

**What a run leaves out because it breaks.** These interleavings violate the
property they stand beside; the code is as it is, and the run is about the rest.

- `releaseRemoteStock` lists reservations without a lock and writes them
  unconditionally (`OS:4219`): with it in `order_race`, `LedgerBalanced` fails.
  `team` lets each line be released by one request at a time (`ReleasesRun`).
- `startOrderPicking` ends with an unconditional PREPARING (`OS:3082`): in a race it
  breaks `ClosedIsFinal` and `DeliveryIsPaid`, which are checked serially;
  `ClosedIsLeftAlone` is stated so that it can be checked with it in `order_race`.
- `reserveRemoteStock` and `markOrderItemShortage` decide on an unlocked status
  (`OS:3831`, `OS:4353`): an order closed meanwhile gets a reservation, or another
  status. `ClosedHoldsNothing` and `ClosedIsFinal` are checked serially. The units
  of a transfer that arrive for a closed order are reserved for it too
  (`INV:587`, `INV:756`), so the run of `ClosedHoldsNothing` has no transport.
- `LinesAgree` is checked with one line: with two of one variant,
  `order-presentation.ts:139` lets a line with nothing reserved be picked up to what
  the order reserved of the variant, and a release in one store may take what a
  sister line counts on (`OS:4183-4205`). Its run has no dispatch either:
  `receiveStockTransfer` takes the units that did not arrive from the line, also when
  they were picked already, and `PickedWithinReserved` fails.
- `UnitsAccounted` leaves out returns: `registerOrderReturn` restocks all lines at
  the store of the order, also those another store served.
- In `team`, one person has one request in flight (`PerPicker`), and completing the
  picking and asking for help run alone (`Together`): see section 8.
- In `accounts`, businesses have one name (section 8), and `ActiveWithinPlan` does not
  count a product that an update set active again with a flag it had read
  before (`product.service.ts:1928`).
- `NewestArrived` says nothing after a call was cut short, `OneCourier` nothing about a
  dispatch slower than a minute, and `SealsTheBaseline` says of a story whose baseline
  has lost a row only how many rows are sealed: after an edit of a product MIG-004
  seals old pictures and new ones together, because the inspection compares counts
  (`catalog-reconciliation.ts:192-200`).
- `GrowthKeepsSeal` does not say that a seal survives a failure of its own inspection:
  whatever throws, the catch writes details without ids
  (`catalog-reconciliation.ts:398-411`, `movement-reconciliation.ts:463-478`), and the
  next run seals what it counts then.
- `LimitHasCause` does not say that a retry is given its trial again: one that read the
  registration before the first request committed is answered 409 (section 8).

**Symmetry.** The race runs use the slots of requests, `team`, `accounts` and
`fiscal` also people, stores, documents and processes that no property or initial
state tells apart. No run with a liveness property has symmetry. The action
properties checked under it are about single steps that name no permuted value.

**Deadlock.** The runs other than `queue_single` say `CHECK_DEADLOCK FALSE`: no
client has to call anything, an order that is over may stay so for ever, and the
bounds stop the rest.

**Fairness** is assumed of programs, never of people.

- Queue (`FairSpec`): weak fairness of `Start` and `Work` (a process that is alive
  runs its loop; the supervisor starts it) and of `Elapse` (time passes). Strong
  fairness of an `Execute` that does not defer: a ticket that is polled again and
  again is answered in the end; nothing else bounds the deferrals, since `defer()`
  gives the attempt back. `w3` is not `Mortal`: if every process died, no job would
  have to settle.
- Tenancy: the clock (`Tick`), the worker that has a purge or finds one due
  (`PurgeNext`), its restart (`StartWorker`: `railway.worker.toml` has the platform
  restart it on failure, ten times; its ends are bounded here by two), and a delivery
  that has begun. That a lock is old enough when the worker starts is not assumed, nor
  that a step of the purge does not throw.
- Feed: the timer of each instance (`Claim`, `Send`, `Mark`), the passing of a minute
  (`Elapse`), the restart of an instance by its supervisor.
- `PlatformSpec` joins the last two: each condition is that of its component, and of
  a behaviour in which the component moves.

Nothing else is assumed, and no liveness is claimed elsewhere: every other handler
is called by a person or a browser, and none of them retries.

---

## 6. Proofs

A theorem holds for every value of the constants that satisfies the assumptions of
the modules: `ErpAssumption`, `QueueAssumption`, `RegistrationAssumption`,
`OfficeAssumption`, `CatalogueAssumption`, `CredentialsAssumption`,
`PickingTeamAssumption`, `TaskBoardAssumption`, `VouchersAssumption`,
`AttentionAssumption`, `ChoicesAssumption`, `BackfillAssumption`,
`ScopesAssumption`, `TenancyAssumption`, `EventFeedAssumption`,
`TenantApiAssumption`, `ProformaAssumption`. They say that bounds are natural numbers,
that sets that are counted or summed over are finite, that `Null`, `Nobody` and the
like are outside the sets they are added to, and that a first state is one the tables
can be in (two shops do not start with one number). Two say a little more: limits of a
plan are positive, because `quota.service` refuses others, and a scope of the
take-over scripts has a story together with those between it and what it builds on.

Some theorems have a hypothesis of their own. Each names a handler that decides on a
read without a lock, or says how many requests are in flight, and the property is
*false* without it: section 5 has the interleaving that breaks it, and 6.5 says where
a hypothesis is only what the argument needs. None of them excludes what the property
is about.

### 6.1 The queue (`FiscalProofs`, first part)

- `TypeCorrect`: `Spec => [](TypeOK /\ BusyHasJob)`. A process that is not
  polling holds a job; without it nothing is known about the row that
  `complete()`, `fail()` and `defer()` write.
- `OwnershipCorrect`: `Spec => []RowsAreTrue`. `OwnerIsWorking` is inductive
  together with the types: only `Claim` puts a name on a row, and a process
  leaves a job only by clearing the row or by ending. For `SuccessMeansDone` the
  invariant adds that a process about to call `complete()` has done its job.
- `LeaseCorrect`: `Spec => []LeaseHeld`. The only thing that takes a row from a
  working process is `recoverStaleLocks`, which runs when a process starts, which
  with `MaxAlive = 1` happens only when none is alive.
- `SettledForGood`: `Spec => SettledIsFinal`, from `LeaseHeld`: the
  unconditional write of `fail()` hits the row of its own process.

With more than one process alive the last two are false, which is why they are
stated for `MaxAlive = 1`: a second worker that starts recovers the lock of a
first one that is only slow, and the `fail()` of the first may then overwrite
what became of the job.

### 6.2 Types of fulfilment (`FulfilmentTypes`, first part)

`TypeCorrect == Spec => []TypeOK`. That `stock`, `reserved` and the units of a
transfer stay natural numbers is not a matter of syntax: every handler subtracts.
The inductive invariant is `Typed`, the conjunction of

- `TypeOK`;
- `ReservationsPlaced`: an ACTIVE reservation is one of an inventory. Needed
  where reservations are summed per inventory;
- `TransfersPlaced`: a transfer that has items has two stores and each item a
  variant. Needed to know which inventory a dispatch, reception or cancellation
  writes;
- `OrdersSourced`: an order that was placed has a source. Needed when its
  confirmation opens transfers to it;
- `RequestsOK`: what a request remembers is well formed, phase by phase (the
  quantities in `held`, `take`, `limit`, `delta` are numbers, its order was
  placed). Needed because the writing half of a handler uses what the reading
  half stored, in a state that other requests have changed since; what is stored
  must therefore not depend on that state, except for facts that no handler ever
  undoes: that an order was placed (`PlacedStays`).

One lemma per handler shows `Typed => Typed'`. The lemmas on `Total`
(`TotalIsNat`), on `NewReservations` and on `Booked` carry the arithmetic.

### 6.3 Transfers (`FulfilmentTypes`, second part)

- `Balance == Spec => []TransferBalanced`
- `ContractKept == Spec => TransfersKeepContract`

The inductive invariant is `TransfersKept == Typed /\ TransfersNumbered /\
TransferBalanced`. `TransfersNumbered` says that the rows in use are `1..n`: it is
what makes the next row `UsedXfer + 1` a free one. The argument has two halves.
First, every step of every handler is, as far as the table of transfers is
concerned, one of four (`TransferStep`): `Asking` for a set of new transfers,
`Sending` one, `Taking` some units of one, `CallingOff` one, or nothing. Then
each of these preserves `TransferBalanced`, and maps to the step of
`TransferContract` of the same name. `TransferBalanced` is needed in the second
half as well: an IN_TRANSIT transfer may be called off because nothing has been
received of it, which is a fact about earlier steps.

### 6.4 Stock and orders (`FulfilmentProofs`)

All of it rests on `Typed`, and on what a request in flight knows:

- `LocksHold`: as long as a request holds an order locked (the two last steps of
  `updateOrderStatus`), the row has the status it read under the lock, nobody else
  holds it, and if it saw no picked unit there is none. Each step of another
  request leaves a placed order `Undisturbed`, or has found it `Unlocked`
  (`Touches`).
- `RequestsKnow`: what a request remembers goes together, whatever happened
  since (the target of a change of status may follow the status that was read).

| theorem | for all constants, and | what it adds to the invariant |
|---|---|---|
| `NothingIsOversold` | | nothing: the conditional updates and `Sound` suffice |
| `PickedGoodsReturn` | | nothing: `CancelOrder` writes under the lock |
| `ClosedLeftAlone` | `markOrderItemShortage` is not called, which reopens what it read | `CallsMade`: which operations are in flight |
| `ClosedForGood` | one request at a time (`Alone`) | `AllFresh`: what the request read is still so |
| `LedgerAlwaysBalanced` | `releaseRemoteStock` runs alone or not at all (`ReleaseApart`) | `BooksHold`: what is to be released is there, ids in use are `1..n` |
| `ClosedIsFree` | `CarefulCalls`: besides, `reserveRemoteStock` runs alone, and nobody reserves by hand, receives or recalls a transfer, which do not ask for the status of the order | `OrdersHold`: lines and reservations are of placed orders, and who has locked an order has listed all it holds |

`LedgerAlwaysBalanced` needs a theory of sums. `Total(S, f)` is the cardinality of
a disjoint union, so `TotalJoin` (of two disjoint sets), `TotalPlus` (of two
functions) and `TotalRenamed` (along a bijection) follow from the theorems on finite
sets. `Columns` is the same for the reservations of each inventory. Every step of
every handler then is, for the ledger, one of three (`Booking`): it leaves the
reservations and the reserved units alone (`Kept`), it adds new ACTIVE reservations
and the same units (`Adds`), or it ends or shrinks some and takes the same units
away (`Ends`); and each of these keeps the two sides equal.

### 6.5 Where the units are (`FulfilmentDeeds`, `FulfilmentUnits`)

| theorem | hypotheses | property |
|---|---|---|
| `UnitsAlwaysAccounted` | `PlainCalls`, `Sealed` | `UnitsAccounted` |
| `LinesAlwaysAgree` | `PlainCalls`, no `dispatch` | `LinesAgree` |
| `LinesAlwaysBacked` | `PlainCalls` | `LinesBacked`, the part of `LinesAgree` about reservations, with transport |
| `DeliveryAlwaysPaid` | `PlainCalls` | `DeliveryIsPaid` |
| `ReturnsAlwaysDelivered` | | `ReturnsWithinDelivered`, the part about returns, whatever interleaves |

`PlainCalls` is three things. Requests come one at a time (`Alone`), each of which may
stop after any of its commits. An order has one line for a variant (`OneLine`). And
nobody reserves by hand: such a reservation may name an order without being in any of
its lines. `Sealed` leaves out `createMovement` and `registerOrderReturn`, through
which units enter and leave. Without `dispatch` nothing arrives: `receiveStockTransfer`
takes the units that did not come from the line, also from one that was picked, so
`PickedWithinReserved` is false with transport and the other parts are not. The
instances of `fulfilment_serial` and `fulfilment_transfers` satisfy the hypotheses of
what they check.

`OneLine` is not what the code ensures: `createOrder` and `createMarketplaceOrder`
neither merge nor refuse two lines of a variant. With two, TLC finds `LinesAgree` false
in both of its parts: picking all of a released line finds the reservations of the
other one through `getReservedQuantityForVariant` (`PickedWithinReserved`); and
the reservations of an online order name no line, so that releasing one line takes
those of the other, and a unit then missing of a transfer leaves the line with -1
(`LinesBacked`; section 8). For the other two theorems the hypothesis is what
the argument needs: they rest on `LineBacked`. An instance with two lines of one unit
does not violate `UnitsAccounted`.

The difficulty is that a line does not know where its units are, and a reservation may
name no line: units are compared per order and variant, with the sum of what is held
(`HeldFor`) and what is on the way (`OnTheWayFor`). The
invariant is `Books`, the conjunction of the ones of 6.3 and 6.4, and of

- `AllKnow`: what the one request in flight has read is still so: the reservations of
  the order it settles, what a release takes (never more than the line has), how much
  may be picked;
- `Backing`: a line of an order that goes on has exactly what is held for its order
  and variant and what is on the way to it (`LineBacked`), and what makes that
  inductive: reservations and the items of transfers are of lines of their order
  (`ReservationsOfLines`, `ItemsOfLines`, `TransfersOrdered`, `LinesPlaced`), a line
  that was not ordered has nothing (`ZeroLines`), and an order that is READY or
  DELIVERED has nothing on the way (`Gathered`), so that what a delivery consumes is
  all that its lines count.

The argument goes over `Deed`: each step of each handler is, for the units, one of
ten. It sells over the counter, delivers an order, places one and promises stock to
it, reserves or releases some units of a line, cancels, asks for a transfer, sends or
calls one off (`Carries`), lets some of it arrive with some missing (`Arrives`), or
rests (`Calm`). `DeedDone` proves this of `Next`, handler by handler; each deed says
what it adds to and takes from each of the sums, in all stores and in one order and
variant. `NextBacking` and `DeedCounts` then only add up. `UnitsAccounted` is
the sum of three: all stock, all roads, all that was delivered (`Everything`); a
delivery takes from the first what it adds to the third, because by `LineBacked` and
`Gathered` the reservations it consumes are what its lines count.

The theory of sums of 6.4 is extended by `TotalByClass` (adding up what each class adds
up to), from a bijection between the two sets of columns, and by sums of which one
summand changes.

### 6.6 Who picks and who holds a task (`TeamProofs`)

- `UnitsAlwaysCredited` (`Careful`: a person has one request in flight; picking by
  variant and answering a wish to give up run alone). The invariant is
  `PickingSound`: types, `WhoPicks` (order and session name the same person),
  `CreditHolds` (units credited = units picked), and per request in flight what it
  carries and what of it is still so (`AllAsRead`, `UnitsAllAsRead`: nobody but
  the person itself changes its units).
- `OrdersAreHandedOver` (`CompletesAlone`). From the same invariant: the request
  that completes a picking writes the person it read.
- `TasksMovedByHolders`: no hypothesis. `BoardSound` has, for each request, whether
  its row was written since it was read (`stale`): the claim with the old version
  is refused, and what was not written since still names its holder.
- `BoardAlwaysFollows` (`StartsAlone`). `PackedAlways` and `PickersHold` strengthen
  `BoardFollowsOrder`: delivery tasks come with the READY order, and a picking task
  is only open under an order that may be picked.

- `LinesAndDeskAgree` (`AsksAlone`; `OneRelease`: a line is released by one request at a
  time). The desk follows from `PickingSound`. For the lines, the invariant
  `ProformaSound` has what is committed (`Committed`: total, lines, reservations and
  inventories agree) and what each edit in flight has written and not committed
  (`EditorHolds`): its own rows balance, so that adding them at the commit, or
  dropping them at the abort, keeps the rest balanced. Two edits in flight write
  different rows (`EditsApart`), because rows are locked or are in one request's
  hands.
- `TeamTyped` (`Careful`, `OneRelease`): the types of the rows; that what is reserved does
  not become negative needs all of the above.

The sum of the units of the pickers is a fold of the community modules; `SumOf` and its
lemmas avoid induction over data: a least counterexample among the finite sets is a
natural number.

### 6.7 Registration, members, shelves (`AccountsProofs`)

- `LimitsAreKept`, `OneUserGetsInAlways`, `CodesAlwaysHold` from `AccountsSound`, the
  conjunction of `RegistrationSound` (the counter of a limit is not behind what was
  let through; a request that has read a registration knows which of its columns
  can have changed since, and what it found between its statements), `CredentialsTyped`, and `EntryKept` (who is let in knew
  the password in force; a code in force is the newest that arrived).
- `MembersComeByTheBook` (no update of a member beside another request, `"update"
  \notin Aside`: `user.service.ts:402` reads the rank of the actor before any lock)
  from `OfficeSound`: what was counted under the lock of the quota is still the
  count when the letter is written.
- `ThePlanHolds` (no update of a store beside another request, `"updateStore" \notin
  Aside`: its status is read before the lock) from `OfficeSound` and `CatalogueKept`:
  places are counted and taken under one lock; the bytes of the provider are the
  rows, or in the hands of one request. For the storage the invariant counts the
  requests that have yet to add their renditions (`OnTheWay`): an upload is admitted
  below the plan, and each of the others can add one unit once.
- `AccountsTyped`.

### 6.8 Vouchers, inbox, evidence (`FiscalProofs`, the rest)

All with `OneNotice` where vouchers matter: the office declares one summary or
communication at a time. The model has the other case too; two summaries that are
built at once list the same boletas.

- `OutsideAlwaysAgrees`, `AcceptanceStaysOnRecord`: `VouchersSound` has one part per
  table (`PapersHold`, `NumbersHold`, `TicketsHold`, `NoticesHold`), and per
  transaction in flight what it has written and what SUNAT knows of it
  (`TaskHolds`). A voucher that is on its way follows the notice that carries it
  (`FollowsNotice`), also one that was never sent. What is claimed of acceptances is
  about those on record: an accepted boleta whose answer could not be stored is a
  draft, and declared again (section 8). `AttentionSound` has the same for numbers, conversations and
  the webhooks and clerks in flight.
- `SealsAlwaysHold`, for baselines of any size: no hypothesis. What is found by an
  inspection in flight has as many rows as the baseline, and is the baseline unless a
  row of it is gone; ids never come back. `SealsSurviveGrowth` (`OneEach`: two scripts of
  one story do not run at once) adds `OneScript`.
- `FiscalTyped`.

### 6.9 Tenancy, events, requests (`PlatformProofs`)

No hypothesis but the assumptions.

- `PaymentsAlwaysCount`, `PurgesAreFair`: `TenancySound` says of each webhook in
  flight that it writes what fits the tenant it locked, and of the purge, step by
  step, that the grace period was over when it was claimed and that nobody can be
  served again since; and of the job, that it is RUNNING whenever a worker has it.
- `ScreensAlwaysRight`: `FeedSound` (rows, claims and streams: what is PUBLISHED was
  sent to whoever was there, what is shown is a row) and `ApiSound` (what a request
  announced, noted and changed, stage by stage).
- `PlatformTyped`.

### 6.10 What is only model-checked

TLC checks on the instances of section 5, and no theorem states:

- the liveness properties (`EverySettles`, `PurgeIsFinished`,
  `EventuallyPublished`): fairness and ENABLED are beyond the prover;
- everything about `RequestSpec`, where a refused dispatch breaks the balance of a
  transfer (section 7): the theorems on `Fulfilment` are about its `Spec`.

What a hypothesis of 6.4 to 6.8 excludes is neither proved nor model-checked: the run of
the property satisfies the hypothesis too.

---

## 7. Where the code and its documents disagree

Each is a run that TLC ends with a counterexample, checked against one property.

1. **`refused_dispatch`** (`INV:473`). `dispatchStockTransfer` claims the transfer
   IN_TRANSIT, books its items one by one and throws at the first that is not ready.
   Inside a request the throw is answered with 4xx and what was written is
   committed. The transfer is then on the road with nothing sent; calling it off
   gives the units that never left back to the origin.
2. **`sale_blocked`** (`modules/sunat/services/comprobante.service.ts:473`). The name
   of the file of a voucher has its type and number but not its store, and stores
   number on their own: the first voucher of a second store collides with the first
   one's, on a unique index. PostgreSQL aborts the transaction, and the sale is
   undone with its voucher, although the comment at the call says that the voucher
   does not block the sale.

Two tests expect what the models show to be only one of the outcomes. They have no run
of their own; `LimitHasCause` and `GrowthKeepsSeal` are stated with the other outcome as
their exception.
`tests/trial-provisioning.test.ts:216-229` sends one request for a trial twice at once
and expects 201 and 200: the second gets 409 instead when it reads the registration
before the first commits and asks for a trial of the identity after
(`owner-registration.service.ts:437-455`).
`tests/audit-activity-migration-reconciliation.test.ts:204` ("la reejecución conserva la
línea base y las filas nuevas", and the like at
`tests/movement-migration-reconciliation.test.ts:513`) holds when the inspection
succeeds: if it throws, the sealed ids are overwritten.

The divergences listed in section 5 ("because it breaks") and in section 8 were met
while modelling, have the shape of a status or a list read without a lock, and
have no run of their own.

---

## 8. Hazards that no property covers

`PROJECT.json` lists the hazards the properties are for. The following are also in
the code. Most of them can happen in the models; no property excludes them, for
the reason given.

| where | what | why there is no property |
|---|---|---|
| `OS:4424` | a return puts every line back in the store of the order, also the lines another store served | no document says where the units go |
| `OS:159` | a transfer called off while PENDING keeps its reservation ids; creating it again breaks the unique index, and the confirmation aborts every time | only a liveness of the people who confirm could state it |
| `OS:591` | `createOrder` and `createMarketplaceOrder` lock inventories in different orders: a deadlock | an aborted transaction is `Abort`; nobody retries |
| `OS:1102` | outside a request the review task is created after the commit and may be lost | no document promises the task |
| `OS:2007` | cancelling leaves picking and review tasks open | no document says they are closed |
| `OS:2108` | a request for help races the cancellation and stays PENDING on a closed order | breaks `NothingLeftOpen`: asking runs alone in `team` |
| `OS:2387` | one person takes back units with two requests at once: both pass the check against what the person picked | breaks `UnitsCredited`: one request per person in `team` |
| `OS:3583` | `completeOrderPicking` looks at the lines before it locks the order: a READY order that is not picked | completion runs alone in `team` |
| `OS:4139` | two releases of one line subtract the same reservations twice | one release of a line at a time in `team` (`ReleasesRun = 1`) |
| `OS:4190` | a reservation without a line counts as one of any line of its variant: of two lines of a variant in an online order, releasing one takes the reservation of the other | an order has one line per variant in the runs and in 6.5 |
| `OS:4643` | lines are added to an order that became READY or was closed in between | `LinesAndDesk` keeps the total right; that the order does not change is not stated |
| `modules/tasks/controller.ts:192` | the last two picking tasks complete together, each counts the other as open, neither completes the picking | the order is completed from its screen instead |
| `modules/tasks/controller.ts:182` | completing a transfer task moves stock and announces only the task | `NewsIsTrue` says that news are true, not that all is announced |
| `Q:180` | a worker dies on the last attempt: the row is FAILED with its attempts used up, is never claimed again and never DEAD | `EverySettles` has this exception (`Stranded`) |
| `scripts/sunat-worker.ts:183` | a worker that dies with a purge and is started again within fifteen minutes leaves the job RUNNING until another start: the tenant is PURGED and some of its rows are there | `PurgeIsFinished` has this exception (`Stranded`) |
| `catalog-reconciliation.ts:192` | the inspection compares counts: after an edit of a product a story that is not sealed seals old pictures and new ones together | `SealsTheBaseline` says how many |
| `catalog-reconciliation.ts:398` and its like | an inspection that throws for a passing reason overwrites the sealed ids | `GrowthKeepsSeal` excepts it |
| `comprobante.service.ts:843` | the key of a summary is its date: asked for again it declares nothing new | the boletas stay on the list of what is pending |
| `comprobante.service.ts:453` | a stored factura that was not sent is replayed and not sent | it stays a visible draft |
| `comprobante.service.ts:523` | P2002 is caught and the other row read in the transaction that PostgreSQL has aborted | a lost transaction of the model |
| `comprobante.service.ts:999, 1272` | a summary or communication that cannot be signed or stored is committed PENDING without a ticket: nothing sends it again, and its lines stay ENVIADO, or marked as being voided, for ever | `SentWithItsNotice` allows it; no document says what becomes of such a notice |
| `comprobante.service.ts:776` | SUNAT accepts a voucher whose answer cannot be parsed or stored: the row stays BORRADOR, and a daily summary lists the boleta again | `AcceptanceIsKept` is about acceptances on record |
| `comprobante.service.ts:834` | after 19:00 the day in the number (Lima) and in the file (UTC) differ | both are in the model; no document says which one counts |
| `trial-provisioning.service.ts:92` | the lock is on the base of the slug: "Acme 2" and the second "Acme" may choose `acme-2` | `ConflictHasCause` excepts it; the run has one name |
| `owner-registration.service.ts:437` | a retry that overlaps the first request is answered 409 ("ya tiene una prueba activa") instead of getting its trial again | `LimitHasCause` allows it: the trial is there, and a later retry is replayed |
| `tenant-purge.service.ts:97` | the purge deletes the claim that remembers a trial: the person can have a second one | no document says how long it is remembered |
| `scripts/sunat-worker.ts:71` | PURGE_TRIAL deletes the stored documents before it looks at the status of the tenant, which may have paid meanwhile | `PurgeIsFair` is about rows |
| `tenant-invitation.service.ts:199` | a letter accepted while it is sent again becomes PENDING again | accepting it again is refused |
| `tenant-lifecycle.service.ts:131` | seats are members plus letters in two queries: an acceptance in between counts twice or not at all | `LettersFit` excepts it |
| `store.service.ts:87` | an update that read a store as active writes it active again without asking for a place, although it was closed meanwhile | breaks `StoresHold`: an update of a store runs alone in `accounts` (`Aside`) |
| `user.service.ts:402` | the rank of the actor is read before the change is written | `AdminsByOwner` takes the rank that was read |
| `product.service.ts:524, 1607, 1808, 1928` | refused uploads leave a product without pictures; pictures are deleted before the commit; quota locks are taken in two orders; an update reactivates a product | consequences of the transaction of a request; no document promises otherwise |
| `commercial-asset.service.ts:64` | a picture is stored with the size of its renditions, which nobody compares with the plan | `StorageHeld` bounds by how much the plan is exceeded |
| `commercial-asset.service.ts:66` | a crash leaves an UPLOADING row that takes storage for ever | `reconcile()` has no caller |
| `attention.service.ts:148, 175, 214, 245` | a reply whose answer is lost is sent again; messages that arrive during a reply count as read; two first messages begin two conversations; delivery reports in the wrong order | nothing in the schema or the documents says otherwise |
| `presentation/response-tasks.ts:52` | the commit comes after the answer | no property can promise the client what the code does not |
| `admin-event-bus.ts:64`, `admin-event-transport.ts:41`, `admin-events/controller.ts:6` | a screen that reconnects misses an event that committed late; without Redis an event reaches one instance; a stream keeps its transaction open | `SteadySeesAll` is about screens that stay connected |
| `system-config.service.ts:249` | two administrators save all settings over each other | not modelled |

---

## 9. What is not modelled

- **SUNAT documents, signing, transport**: conversions and I/O. How their outcomes
  are used is in `Vouchers`. Resending a rejected voucher with corrected data is
  left out.
- **Customers, sizes, colours, categories, payment methods, roles and permissions**:
  rows that are created, read and updated by one request at a time. `TenantApi` has
  the outcome of an authorisation.
- **Isolation of tenants**: policies of the database. Except for numbers of
  WhatsApp, trials and identities, every model is of one tenant.
- **Manual payments, exports, alerts, the monthly quota of sales, import of products,
  templates and cases of the inbox, e-mail, reports and metrics**: queries,
  formatting, or one row that one person writes.
- **Without a caller**: `CommercialAssetService.reconcile`, `UserService.create`,
  `checkCertificateExpiry`, `expireWelcomeStorePromotions`. `change-password` refuses
  every user of a tenant. The expiry of a JWT after an hour only shortens a session.
- **Of the take-over scripts**: the checks of foreign keys, constraints, sequences and
  the quarantine, which no step of the program changes, `sunat-reconciliation.ts`, and
  `migration-inventory.ts`, a report about the code itself.
- **Of the handlers that are modelled**: prices, taxes (but for the total of a
  proforma), names, notes, the movement log, `OrderItem.status` (derived), tasks of a
  transfer within `Fulfilment` (they repeat its status; `TaskBoard` has them).

Known limits: rows of orders and stock are never deleted; `Inventory` rows that do
not exist are rows 0/0; which waiting transaction PostgreSQL wakes first is any of
them; deadlocks between transactions appear as their abort; a store, a variant or a
line does not change its identity.

Every invariant that a passing run checks is stated by a theorem of section 6, and so is
every action property; what is left to TLC is in 6.10.
