------------------------------- MODULE Tenancy -------------------------------
(* The commercial life of one tenant: modules/lifecycle, the job PURGE_TRIAL  *)
(* of scripts/sunat-worker.ts and the admission of requests.                  *)
(*                                                                            *)
(* The provider of the subscriptions sends webhooks, late, twice and in any   *)
(* order; sweeps expire trials and suspend who does not pay; a job purges     *)
(* what an expired trial left; the platform approves production.  Time is     *)
(* counted in periods of grace.                                               *)
EXTENDS Integers, FiniteSets

CONSTANTS
    Deliveries,     \* webhooks that may be handled together
    EventIds,       \* events of the provider
    NoTime,         \* a date that is not set
    NoEvent,
    MaxTime,        \* bound of the clock
    MaxAttempts,    \* maxAttempts of the job (5 in the code)
    MaxCrashes      \* bound on the ends of the worker

TenancyTime == 0..MaxTime
TenancyDates == TenancyTime \union {NoTime}

ASSUME TenancyAssumption ==
    /\ MaxTime \in Nat /\ MaxCrashes \in Nat /\ MaxAttempts \in Nat \ {0}
    /\ NoTime \notin Nat /\ NoEvent \notin EventIds

VARIABLES
    now,
    ten,        \* the Tenant row: status, kind, graceEndsAt, production
    sub,        \* its TenantSubscription: the status
    event,      \* table BillingWebhookEvent
    hook,       \* webhooks in flight: the event and what was read of the tenant
    applied,    \* how often an event has changed the tenant
    job,        \* the PURGE_TRIAL job: status, nextRunAt and attempts
    purge,      \* how far the worker has come with it
    files,      \* the tenant has fiscal artifacts in storage
    data,       \* what else is stored: "rows" of the tenant, "users" of its members
    log,        \* lifecycle events that are read back
    lapsed,     \* when the trial expired
    approval,   \* an approveProduction() that has done its checks
    crashes

tenancyVars == <<now, ten, sub, event, hook, applied, job, purge, files, data, log,
                 lapsed, approval, crashes>>

TenantStatus == {"TRIAL", "ACTIVE", "SUSPENDED", "EXPIRED", "PURGED"}
SubscriptionStatus == {"TRIALING", "ACTIVE", "PAST_DUE", "CANCELLED", "SUSPENDED"}
EventTypes == {"activated", "succeeded", "suspended", "failed", "cancelled"}

\* The trial lasts one period, and so do both grace periods.
TrialEnds == 1
Grace == 1

NoHook == [event |-> NoEvent]
IdleWorker == [phase |-> "idle"]
NoWorker == [phase |-> "down"]

JobStatus == {"NONE", "PENDING", "RUNNING", "FAILED", "SUCCEEDED", "DEAD"}
NoJob == [status |-> "NONE", due |-> NoTime, attempts |-> 0]

\* TenantService.createWithinTransaction(), for a trial.
TenancyInit ==
    /\ now = 0
    /\ ten = [status |-> "TRIAL", kind |-> "TRIAL", grace |-> NoTime, prod |-> FALSE]
    /\ sub = "TRIALING"
    /\ event = [e \in EventIds |-> "NEW"]
    /\ hook = [d \in Deliveries |-> NoHook]
    /\ applied = [e \in EventIds |-> 0]
    /\ job = NoJob
    /\ purge = IdleWorker
    /\ files = FALSE
    /\ data = {"rows", "users"}
    /\ log = {}
    /\ lapsed = NoTime
    /\ approval = FALSE
    /\ crashes = 0

Tick ==
    /\ now < MaxTime
    /\ now' = now + 1
    /\ UNCHANGED <<ten, sub, event, hook, applied, job, purge, files, data, log, lapsed,
                   approval, crashes>>

-----------------------------------------------------------------------------
(* Admission: validateJWT() and resolveAuthenticatedContext().                *)

\* assertTenantAvailable(): who may read.
Available(t) ==
    \/ t.status = "TRIAL" /\ now < TrialEnds
    \/ t.status \in {"ACTIVE", "SUSPENDED", "EXPIRED"}

\* A voucher is emitted, and its XML stored: a fiscal mutation is let through
\* even when the tenant is read only.
EmitVoucher ==
    /\ Available(ten)
    /\ files' = TRUE
    /\ UNCHANGED <<now, ten, sub, event, hook, applied, job, purge, data, log, lapsed,
                   approval, crashes>>

-----------------------------------------------------------------------------
(* BillingWebhookService.process(): one transaction that inserts the event,   *)
(* reads the tenant without a lock and writes it back.                        *)

HooksInFlight == {d \in Deliveries : hook[d] # NoHook}

\* A mutant: the unique index is looked at, but not what it remembers.
FreshOnceSettled(e) == \A d \in HooksInFlight : hook[d].event # e

\* unique(provider, externalEventId): a second insert waits for the first
\* transaction, and is a replay when that one commits.
Fresh(e) == event[e] = "NEW" /\ \A d \in HooksInFlight : hook[d].event # e

\* A mutant: the webhook does not look at the status.
GoneUnchecked(t) == FALSE

\* A tenant that is gone refuses the event.
Gone(t) == t.status = "PURGED"

\* A cancelled subscription may be paid up to a date in the future.
DeliverRead(d, e) ==
    /\ hook[d] = NoHook
    /\ Fresh(e)
    /\ IF Gone(ten)
       THEN event' = [event EXCEPT ![e] = "REJECTED"] /\ UNCHANGED hook
       ELSE /\ \E type \in EventTypes, paid \in {NoTime, now, now + 1} :
                 /\ type # "cancelled" => paid = NoTime
                 /\ paid \in TenancyDates
                 /\ hook' = [hook EXCEPT ![d] =
                               [event |-> e, type |-> type, paid |-> paid, seen |-> ten]]
            /\ UNCHANGED event
    /\ UNCHANGED <<now, ten, sub, applied, job, purge, files, data, log, lapsed, approval, crashes>>

Activates(h) == h.type \in {"activated", "succeeded"}
StillPaid(h) == h.type = "cancelled" /\ h.paid # NoTime /\ h.paid > now
StaysActive(h) == Activates(h) \/ h.type = "failed" \/ StillPaid(h)

SubscriptionAfter(h) ==
    CASE Activates(h) -> "ACTIVE"
      [] h.type = "cancelled" -> "CANCELLED"
      [] h.type = "failed" -> "PAST_DUE"
      [] OTHER -> "SUSPENDED"

GraceAfter(h) ==
    CASE Activates(h) -> NoTime
      [] h.type = "failed" -> now + Grace
      [] StillPaid(h) -> h.paid
      [] OTHER -> h.seen.grace

\* The row of the subscription is locked first, then the tenant is written over
\* with what was read of it.
DeliverWrite(d) ==
    LET h == hook[d]
    IN  /\ hook[d] # NoHook
        /\ GraceAfter(h) \in TenancyDates
        /\ sub' = SubscriptionAfter(h)
        /\ ten' = [status |-> IF StaysActive(h) THEN "ACTIVE" ELSE "SUSPENDED",
                   kind |-> IF Activates(h) THEN "CUSTOMER" ELSE h.seen.kind,
                   grace |-> GraceAfter(h),
                   prod |-> h.seen.prod]
        /\ event' = [event EXCEPT ![h.event] = "PROCESSED"]
        /\ applied' = [applied EXCEPT ![h.event] = @ + 1]
        /\ hook' = [hook EXCEPT ![d] = NoHook]
        /\ UNCHANGED <<now, job, purge, files, data, log, lapsed, approval, crashes>>

\* The process dies or the transaction aborts: the event was never received.
DeliverAbort(d) ==
    /\ hook[d] # NoHook
    /\ hook' = [hook EXCEPT ![d] = NoHook]
    /\ UNCHANGED <<now, ten, sub, event, applied, job, purge, files, data, log, lapsed,
                   approval, crashes>>

-----------------------------------------------------------------------------
(* The sweeps.                                                                *)

\* The end of the grace period that expireDueTrials() grants.
GraceEnd == now + Grace

\* expireDueTrials(): the conditional UPDATE, and the job that will purge.
ExpireTrial ==
    /\ ten.status = "TRIAL" /\ TrialEnds <= now
    /\ now + Grace \in TenancyDates
    /\ ten' = [ten EXCEPT !.status = "EXPIRED", !.grace = GraceEnd, !.prod = FALSE]
    /\ job' = [NoJob EXCEPT !.status = "PENDING", !.due = GraceEnd]
    /\ lapsed' = now
    /\ UNCHANGED <<now, sub, event, hook, applied, purge, files, data, log, approval, crashes>>

InGrace(t) == t.grace # NoTime /\ t.grace <= now

\* suspendSubscriptionsPastGrace(): the status of the subscription is only in
\* the list, the UPDATE asks for the tenant's own columns.
SuspendUnpaid ==
    /\ ten.status = "ACTIVE" /\ InGrace(ten)
    /\ ten' = [ten EXCEPT !.status = "SUSPENDED"]
    /\ sub' = IF sub = "PAST_DUE" THEN "SUSPENDED" ELSE sub
    /\ UNCHANGED <<now, event, hook, applied, job, purge, files, data, log, lapsed, approval, crashes>>

-----------------------------------------------------------------------------
(* The job PURGE_TRIAL: execute() and TenantPurgeService.  One worker runs it     *)
(* (railway.worker.toml); two of them are in SunatJobQueue.                    *)

PurgeAt(phase) == purge.phase = phase
AtWork == ~PurgeAt("idle") /\ ~PurgeAt("down")

AttemptsLeft == job.attempts < MaxAttempts

\* claim(): an attempt is counted when it begins.
ClaimPurge ==
    /\ PurgeAt("idle")
    /\ job.status \in {"PENDING", "FAILED"} /\ job.due <= now /\ AttemptsLeft
    /\ job' = [job EXCEPT !.status = "RUNNING", !.attempts = @ + 1]
    /\ purge' = [phase |-> "files"]
    /\ UNCHANGED <<now, ten, sub, event, hook, applied, files, data, log, lapsed, approval, crashes>>

\* fail(): the delay before the next attempt is shorter than a period of grace.
Failed == [job EXCEPT !.status = IF AttemptsLeft THEN "FAILED" ELSE "DEAD"]

\* deleteAllForCurrentTenant(): whatever the tenant has become.
DeleteFiles ==
    /\ PurgeAt("files")
    /\ files' = FALSE
    /\ purge' = [phase |-> "read"]
    /\ UNCHANGED <<now, ten, sub, event, hook, applied, job, data, log, lapsed, approval, crashes>>

\* A mutant: a purge that died is not taken up again.
DueOnce(t) == t.status = "EXPIRED" /\ t.grace <= now

DueForPurge(t) ==
    \/ t.status = "EXPIRED" /\ t.grace <= now
    \/ t.status = "PURGED" /\ "TRIAL_PURGED" \notin log

\* purgeDueTrials() and purgeExpiredTenant(): an unlocked read; new artifacts
\* make the job fail, and be tried again.
PurgeRead ==
    /\ PurgeAt("read")
    /\ IF ~DueForPurge(ten)
       THEN purge' = [phase |-> "complete"] /\ UNCHANGED job
       ELSE IF files
       THEN purge' = IdleWorker /\ job' = Failed
       ELSE purge' = [phase |-> "mark", seen |-> ten.status] /\ UNCHANGED job
    /\ UNCHANGED <<now, ten, sub, event, hook, applied, files, data, log, lapsed, approval, crashes>>

\* The UPDATE has no condition.  It changes the slug, a key of the row, so it
\* waits for every transaction that has inserted a row that refers to the
\* tenant: the webhooks in flight.
PurgeMark ==
    /\ PurgeAt("mark")
    /\ IF purge.seen = "PURGED" THEN UNCHANGED ten
       ELSE /\ HooksInFlight = {}
            /\ ten' = [ten EXCEPT !.status = "PURGED", !.prod = FALSE]
    /\ purge' = [phase |-> "members"]
    /\ UNCHANGED <<now, sub, event, hook, applied, job, files, data, log, lapsed, approval, crashes>>

\* The members are listed, then the rows are deleted in short transactions.
PurgeMembers ==
    /\ PurgeAt("members")
    /\ purge' = [phase |-> "rows", listed |-> "rows" \in data]
    /\ UNCHANGED <<now, ten, sub, event, hook, applied, job, files, data, log, lapsed, approval, crashes>>

PurgeRows ==
    /\ PurgeAt("rows")
    /\ data' = data \ {"rows"}
    /\ purge' = [phase |-> "log", listed |-> purge.listed]
    /\ UNCHANGED <<now, ten, sub, event, hook, applied, job, files, log, lapsed, approval, crashes>>

PurgeLog ==
    /\ PurgeAt("log")
    /\ "rows" \notin data
    /\ log' = log \union {"TRIAL_PURGED"}
    /\ purge' = [phase |-> "users", listed |-> purge.listed]
    /\ UNCHANGED <<now, ten, sub, event, hook, applied, job, files, data, lapsed, approval, crashes>>

PurgeUsers ==
    /\ PurgeAt("users")
    /\ data' = IF purge.listed THEN data \ {"users"} ELSE data
    /\ purge' = [phase |-> "complete"]
    /\ UNCHANGED <<now, ten, sub, event, hook, applied, job, files, log, lapsed, approval, crashes>>

CompletePurge ==
    /\ PurgeAt("complete")
    /\ job' = [job EXCEPT !.status = "SUCCEEDED"]
    /\ purge' = IdleWorker
    /\ UNCHANGED <<now, ten, sub, event, hook, applied, files, data, log, lapsed, approval, crashes>>

\* A statement of the purge or the document storage throws.
FailPurge ==
    /\ AtWork
    /\ job' = Failed
    /\ purge' = IdleWorker
    /\ UNCHANGED <<now, ten, sub, event, hook, applied, files, data, log, lapsed, approval, crashes>>

\* The worker ends, killed or asked to, and a job that it has in its hands stays
\* RUNNING.  (While none is RUNNING its end is no more than a pause.)
CrashPurge ==
    /\ job.status = "RUNNING" /\ ~PurgeAt("down") /\ crashes < MaxCrashes
    /\ crashes' = crashes + 1
    /\ purge' = NoWorker
    /\ UNCHANGED <<now, ten, sub, event, hook, applied, job, files, data, log, lapsed, approval>>

\* recoverStaleLocks().
Recovered == IF job.status = "RUNNING" THEN [job EXCEPT !.status = "FAILED", !.due = now] ELSE job

\* main(): the platform starts the worker again, and only then are locks
\* recovered, if they are fifteen minutes old by now.
StartWorker ==
    /\ PurgeAt("down")
    /\ job' \in {job, Recovered}
    /\ purge' = IdleWorker
    /\ UNCHANGED <<now, ten, sub, event, hook, applied, files, data, log, lapsed, approval, crashes>>

-----------------------------------------------------------------------------
(* Production.                                                                *)

\* approveProduction(): the checks of the tenant and its subscription ...
ApproveRead ==
    /\ ~approval
    /\ ten.kind # "TRIAL" /\ ten.status # "TRIAL"
    /\ sub = "ACTIVE"
    /\ approval' = TRUE
    /\ UNCHANGED <<now, ten, sub, event, hook, applied, job, purge, files, data, log, lapsed, crashes>>

\* ... and the UPDATE, with no condition.
ApproveWrite ==
    /\ approval
    /\ ten' = [ten EXCEPT !.prod = TRUE]
    /\ approval' = FALSE
    /\ UNCHANGED <<now, sub, event, hook, applied, job, purge, files, data, log, lapsed, crashes>>

-----------------------------------------------------------------------------

PurgeNext ==
    \/ ClaimPurge \/ DeleteFiles \/ PurgeRead \/ PurgeMark \/ PurgeMembers \/ PurgeRows
    \/ PurgeLog \/ PurgeUsers \/ CompletePurge

TenancyNext ==
    \/ Tick
    \/ EmitVoucher
    \/ \E d \in Deliveries : DeliverWrite(d) \/ DeliverAbort(d) \/ \E e \in EventIds : DeliverRead(d, e)
    \/ ExpireTrial
    \/ SuspendUnpaid
    \/ PurgeNext
    \/ FailPurge
    \/ CrashPurge
    \/ StartWorker
    \/ ApproveRead
    \/ ApproveWrite

\* The worker goes on with its job and is started again when it has ended
\* (railway.worker.toml), transactions end, and time passes.
TenancyFairness ==
    /\ WF_tenancyVars(Tick)
    /\ WF_tenancyVars(PurgeNext)
    /\ WF_tenancyVars(StartWorker)
    /\ \A d \in Deliveries : WF_tenancyVars(DeliverWrite(d) \/ DeliverAbort(d))

-----------------------------------------------------------------------------
(* What the lifecycle promises.                                               *)

\* Types.
TenancyTypeOK ==
    /\ now \in TenancyTime
    /\ ten \in [status : TenantStatus, kind : {"TRIAL", "CUSTOMER"}, grace : TenancyDates, prod : BOOLEAN]
    /\ sub \in SubscriptionStatus
    /\ event \in [EventIds -> {"NEW", "PROCESSED", "REJECTED"}]
    /\ applied \in [EventIds -> Nat]
    /\ job \in [status : JobStatus, due : TenancyDates, attempts : 0..MaxAttempts]
    /\ data \subseteq {"rows", "users"}
    /\ crashes \in 0..MaxCrashes

\* Who pays works: no order of webhooks and sweeps leaves a tenant whose
\* subscription is ACTIVE read only or on trial.
PaidIsServed == sub = "ACTIVE" => ten.status \in {"ACTIVE", "PURGED"}

\* A redelivered event of the provider changes the tenant at most once, however
\* the deliveries interleave, crash and are repeated.
EventOnce == \A e \in EventIds : applied[e] <= 1

\* A purged tenant stays purged: a webhook that read it before does not bring
\* back an empty shell as ACTIVE.
PurgedIsFinal == [][ten.status = "PURGED" => ten'.status = "PURGED"]_ten

\* An expired trial is told that it keeps its data for the whole grace period
\* (trial-expiry-notification.service.ts): nothing is deleted before it ends.
GraceIsKept ==
    [][\/ files /\ ~files'
       \/ data' # data
       \/ ten.status # "PURGED" /\ ten'.status = "PURGED"
       => lapsed # NoTime /\ lapsed + Grace <= now]_<<ten, data, files>>

\* Nobody will take the purge up again: its attempts are used up, or the worker
\* died with it and the one after it started before the lock was fifteen minutes old.
Stranded ==
    \/ job.status \in {"FAILED", "DEAD"} /\ ~AttemptsLeft
    \/ job.status = "RUNNING" /\ PurgeAt("idle")

\* A purge that has begun is recorded as done ("de forma idempotente y
\* reanudable", whatever step threw or died), or is stranded in the end.
PurgeIsFinished == <>[](ten.status = "PURGED" => "TRIAL_PURGED" \in log \/ Stranded)

\* What a payment is worth, in whatever order events, sweeps and retries run.
PaymentsCount == PaidIsServed /\ EventOnce

\* When a purge may happen, and what it leaves.
PurgeIsFair == PurgedIsFinal /\ GraceIsKept
=============================================================================
