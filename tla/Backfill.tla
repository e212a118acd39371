------------------------------- MODULE Backfill -------------------------------
(* The reconciliation of the data that was there before the system had tenants: *)
(* the scripts reconcile-tenant-*.ts and close-tenant-backfill.ts over          *)
(* modules/tenant/*-reconciliation.ts.  A script inspects the tables of one     *)
(* story and seals in TenantMigrationCheckpoint which rows were the baseline.   *)
(*                                                                            *)
(* The scripts run outside a request: each query is a commit of its own, the    *)
(* shop works on meanwhile, and several may run at once.  A row is its id: those *)
(* of the baseline come first, later ones count on.                            *)
EXTENDS Naturals, FiniteSets

CONSTANTS
    Scripts,    \* processes
    Scopes,     \* the stories of a behaviour: one of these sets
    BaseRows,   \* how many rows the baseline of a story has
    MaxRow,     \* bound on the ids of a story
    Polls,      \* bound: how often MIG-011 asks again (50 in the code)
    OneEach     \* TRUE: no two scripts of one story at once

ASSUME BackfillAssumption ==
    /\ {BaseRows, MaxRow, Polls} \subseteq Nat /\ 0 < BaseRows /\ BaseRows <= MaxRow
    /\ OneEach \in BOOLEAN

\* The stories in their order; MIG-011 closes the others.
Stories == {"MIG-003", "MIG-004", "MIG-005", "MIG-006", "MIG-007", "MIG-008", "MIG-009", "MIG-010",
            "MIG-011"}
Prerequisites == Stories \ {"MIG-011"}

Before(s) ==
    CASE s = "MIG-006" -> {"MIG-005"}
      [] s = "MIG-007" -> {"MIG-005", "MIG-006"}
      [] s = "MIG-008" -> {"MIG-005", "MIG-006", "MIG-007"}
      [] s = "MIG-009" -> {"MIG-005", "MIG-006", "MIG-007", "MIG-008"}
      [] s = "MIG-010" -> {"MIG-005", "MIG-006", "MIG-007", "MIG-008", "MIG-009"}
      [] s = "MIG-011" -> Prerequisites
      [] OTHER -> {}

\* A story that is left aside builds on none that one of the behaviour builds on:
\* in the program every story is worked on.
ASSUME ScopesAssumption ==
    \A worked \in Scopes :
        /\ worked \subseteq Stories
        /\ \A s \in worked : \A r \in Before(s) \ worked : Before(r) \intersect worked = {}

Baseline == 1..BaseRows

VARIABLES
    scope,      \* the stories that are worked on; the others are done and untouched
    checkpoint, \* TenantMigrationCheckpoint: status and details of a story
    tables,     \* the rows of a story
    last,       \* the last id of a story
    altered,    \* stories whose baseline rows no longer have the totals of the baseline
    completed,  \* history: the stories that were completed once
    script      \* the processes

backfillVars == <<scope, checkpoint, tables, last, altered, completed, script>>

\* The details hold the sealed rows and their fingerprints, or neither.
Unsealed == {}
NoScript == [story |-> "none", stage |-> "idle"]

BackfillInit ==
    /\ scope \in Scopes
    /\ checkpoint = [s \in Stories |-> IF s \in scope THEN [status |-> "PENDING", seal |-> Unsealed]
                                       ELSE [status |-> "COMPLETED", seal |-> Baseline]]
    /\ tables = [s \in Stories |-> Baseline]
    /\ last = [s \in Stories |-> BaseRows]
    /\ altered = {}
    /\ completed = Stories \ scope
    /\ script = [p \in Scripts |-> NoScript]

Done(s) == checkpoint[s].status = "COMPLETED"
HasSeal(s) == checkpoint[s].seal # Unsealed

\* hasCompletedEvidence(): what MIG-009 asks of MIG-008.
HasCompletedEvidence(s) == Done(s) \/ HasSeal(s)

-----------------------------------------------------------------------------
(* What an inspection counts.  Rows that were sealed are looked up by id; a     *)
(* story that was never sealed counts its whole table.                        *)

\* A mutant: the whole table, also of a story that is sealed.
SealedRowsNeverRead(s) == tables[s]

SealedRows(s) == IF HasSeal(s) THEN checkpoint[s].seal \intersect tables[s] ELSE tables[s]

\* The users of the baseline are listed in the program.
IdentityRows == Baseline \intersect tables["MIG-003"]
CatalogRows == SealedRows("MIG-004")
InventoryRows == SealedRows("MIG-005")
MovementRows == SealedRows("MIG-006")
OrderPickingRows == SealedRows("MIG-007")

\* The rows of the orders that MIG-007 sealed, with their returns.
ReturnRows == checkpoint["MIG-007"].seal \intersect tables["MIG-008"]

\* Without a seal the ids of the baseline, which the program lists.
MarketplaceRows ==
    (IF HasSeal("MIG-009") THEN checkpoint["MIG-009"].seal ELSE Baseline) \intersect tables["MIG-009"]

\* The entries that are older than the cut-off.
AuditRows == Baseline \intersect tables["MIG-010"]

Rows(s) ==
    CASE s = "MIG-003" -> IdentityRows
      [] s = "MIG-004" -> CatalogRows
      [] s = "MIG-005" -> InventoryRows
      [] s = "MIG-006" -> MovementRows
      [] s = "MIG-007" -> OrderPickingRows
      [] s = "MIG-008" -> ReturnRows
      [] s = "MIG-009" -> MarketplaceRows
      [] s = "MIG-010" -> AuditRows

\* The counts must be those of the baseline.  A mutant: a minimum, as for the
\* permissions of MIG-003.
AtLeastBaseline(rows) == Cardinality(rows) >= BaseRows

AsBaseline(rows) == Cardinality(rows) = BaseRows

\* inspect*(): counts and totals agree; MIG-008 to MIG-010 ask for the story
\* before them.
Agrees(s) ==
    /\ AsBaseline(Rows(s)) /\ s \notin altered
    /\ s = "MIG-008" => Done("MIG-007")
    /\ s = "MIG-009" => HasCompletedEvidence("MIG-008")
    /\ s = "MIG-010" => HasCompletedEvidence("MIG-009")

-----------------------------------------------------------------------------
(* The scripts, one for each story.                                           *)

\* The checkpoint is read with the story it depends on; without that the script
\* ends before it writes anything.
Begin(p, s, dependency) ==
    /\ s \in scope /\ script[p] = NoScript
    /\ OneEach => \A q \in Scripts : script[q].story # s
    /\ dependency
    /\ script' = [script EXCEPT ![p] = [story |-> s, stage |-> "read", seal |-> checkpoint[s].seal]]
    /\ UNCHANGED <<scope, checkpoint, tables, last, altered, completed>>

ReconcileIdentity(p) == Begin(p, "MIG-003", TRUE)
ReconcileCatalog(p) == Begin(p, "MIG-004", TRUE)
ReconcileInventory(p) == Begin(p, "MIG-005", TRUE)

InventoryIsDone == Done("MIG-005")

ReconcileMovements(p) == Begin(p, "MIG-006", InventoryIsDone)
ReconcileOrderPicking(p) == Begin(p, "MIG-007", Done("MIG-006"))
ReconcileReturnPayment(p) == Begin(p, "MIG-008", Done("MIG-007"))
ReconcileMarketplaceConfig(p) == Begin(p, "MIG-009", HasCompletedEvidence("MIG-008"))
ReconcileAuditActivity(p) == Begin(p, "MIG-010", TRUE)
ReconcileBackfillClosure(p) == Begin(p, "MIG-011", TRUE)

At(p, stage) == script[p].stage = stage
Becomes(p, rec) == script' = [script EXCEPT ![p] = rec]

\* RUNNING, whatever the checkpoint was; the details stay.
MarkRunning(p) ==
    /\ At(p, "read")
    /\ checkpoint' = [checkpoint EXCEPT ![script[p].story].status = "RUNNING"]
    /\ Becomes(p, [story |-> script[p].story, stage |-> "running", seal |-> script[p].seal, polls |-> 0])
    /\ UNCHANGED <<scope, tables, last, altered, completed>>

\* The inspection; what it returns is the new seal, nothing when the data do not
\* agree.
Inspect(p) ==
    /\ At(p, "running") /\ script[p].story # "MIG-011"
    /\ LET s == script[p].story
       IN  Becomes(p, [story |-> s, stage |-> "inspected", seal |-> script[p].seal,
                       found |-> IF Agrees(s) THEN Rows(s) ELSE Unsealed, broke |-> FALSE])
    /\ UNCHANGED <<scope, checkpoint, tables, last, altered, completed>>

\* The inspection throws although nothing is wrong with the rows: a query fails, or
\* Cloudinary does not answer for an image (--check-media).
Throw(p) ==
    /\ At(p, "running") \/ At(p, "covering")
    /\ Becomes(p, [story |-> script[p].story, stage |-> "inspected",
                   seal |-> IF At(p, "running") THEN script[p].seal ELSE Unsealed,
                   found |-> Unsealed, broke |-> TRUE])
    /\ UNCHANGED <<scope, checkpoint, tables, last, altered, completed>>

\* prerequisiteSummary(): every story is completed, with its fingerprints.
Ready == \A s \in Prerequisites : Done(s) /\ HasSeal(s)

\* inspectBackfillClosure(): the checkpoints are read until they are ready, or
\* often enough.
Poll(p) ==
    /\ At(p, "running") /\ script[p].story = "MIG-011"
    /\ IF Ready THEN Becomes(p, [story |-> "MIG-011", stage |-> "covering",
                                 seals |-> [s \in Prerequisites |-> checkpoint[s].seal]])
       ELSE IF script[p].polls < Polls THEN Becomes(p, [script[p] EXCEPT !.polls = @ + 1])
       ELSE Becomes(p, [story |-> "MIG-011", stage |-> "inspected", seal |-> Unsealed, found |-> Unsealed,
                        broke |-> FALSE])
    /\ UNCHANGED <<scope, checkpoint, tables, last, altered, completed>>

\* inspectCoverage(): no sealed row is missing.
Covered(s, seal) == seal \subseteq tables[s]

InspectCoverage(p) ==
    /\ At(p, "covering")
    /\ Becomes(p, [story |-> "MIG-011", stage |-> "inspected", seal |-> Unsealed,
                   found |-> IF \A s \in Prerequisites : Covered(s, script[p].seals[s]) THEN Baseline
                             ELSE Unsealed,
                   broke |-> FALSE])
    /\ UNCHANGED <<scope, checkpoint, tables, last, altered, completed>>

\* A failure, of whatever kind, overwrites the details; only MIG-003 keeps those it
\* read first.
AfterFailure(p) == IF script[p].story = "MIG-003" THEN script[p].seal ELSE Unsealed

Report(p) ==
    /\ At(p, "inspected")
    /\ LET r == script[p]
           fine == r.found # Unsealed
       IN  /\ checkpoint' = [checkpoint EXCEPT ![r.story] =
                  IF fine THEN [status |-> "COMPLETED", seal |-> r.found]
                  ELSE [status |-> "FAILED", seal |-> AfterFailure(p)]]
           /\ completed' = IF fine THEN completed \union {r.story} ELSE completed
    /\ Becomes(p, NoScript)
    /\ UNCHANGED <<scope, tables, last, altered>>

\* The process dies, or cannot write how it ended; a RUNNING checkpoint stays as it
\* is.
Die(p) ==
    /\ ~At(p, "idle")
    /\ Becomes(p, NoScript)
    /\ UNCHANGED <<scope, checkpoint, tables, last, altered, completed>>

-----------------------------------------------------------------------------
(* The shop, meanwhile.                                                       *)

Shop(rows, changes) ==
    /\ tables' = rows /\ altered' = altered \union changes
    /\ tables' # tables \/ altered' # altered
    /\ UNCHANGED <<scope, checkpoint, completed, script>>

\* A row gets the next id (bounded); what is gone does not come back under its own.
NextId(s) == last[s] + 1
Inserts(s) == NextId(s) <= MaxRow /\ last' = [last EXCEPT ![s] = NextId(s)]
With(s) == [tables EXCEPT ![s] = @ \union {NextId(s)}]

\* A new product, order, customer, user, store or entry of the log.
Grow(s) ==
    /\ s \in scope \ {"MIG-006", "MIG-008", "MIG-011"}
    /\ Inserts(s) /\ Shop(With(s), {})

\* A sale moves the stock that MIG-005 adds up, and with which the last movement
\* of MIG-006 has to agree.
MoveStock ==
    /\ scope \intersect {"MIG-005", "MIG-006"} # {}
    /\ Inserts("MIG-006") /\ Shop(With("MIG-006"), {"MIG-005", "MIG-006"} \intersect scope)

\* An order of the baseline goes on; a return of one changes its lines, too.
WorkOnOrder == "MIG-007" \in scope /\ Shop(tables, {"MIG-007"}) /\ UNCHANGED last
ReturnOrder ==
    /\ "MIG-008" \in scope
    /\ Inserts("MIG-008") /\ Shop(With("MIG-008"), {"MIG-007", "MIG-008"} \intersect scope)

\* deleteProduct(), deleteImageFromCloudinary(): rows of the catalogue are the only
\* ones of a baseline the application deletes.
Delete(row) ==
    /\ "MIG-004" \in scope /\ row \in tables["MIG-004"]
    /\ Shop([tables EXCEPT !["MIG-004"] = @ \ {row}], {})
    /\ UNCHANGED last

\* replaceProductImages(): an edit of a product deletes the rows of its images and
\* inserts them again.
ReplaceImages(row) ==
    /\ "MIG-004" \in scope /\ row \in tables["MIG-004"]
    /\ Inserts("MIG-004")
    /\ Shop([With("MIG-004") EXCEPT !["MIG-004"] = @ \ {row}], {})

\* A user's role, a setting of the shop.
ChangeConfiguration(s) == s \in scope \intersect {"MIG-003", "MIG-009"} /\ Shop(tables, {s}) /\ UNCHANGED last

-----------------------------------------------------------------------------
BackfillNext ==
    \/ \E p \in Scripts :
          \/ ReconcileIdentity(p) \/ ReconcileCatalog(p) \/ ReconcileInventory(p) \/ ReconcileMovements(p)
          \/ ReconcileOrderPicking(p) \/ ReconcileReturnPayment(p) \/ ReconcileMarketplaceConfig(p)
          \/ ReconcileAuditActivity(p) \/ ReconcileBackfillClosure(p)
          \/ MarkRunning(p) \/ Inspect(p) \/ Throw(p) \/ Poll(p) \/ InspectCoverage(p) \/ Report(p) \/ Die(p)
    \/ \E s \in Stories : Grow(s) \/ ChangeConfiguration(s)
    \/ MoveStock \/ WorkOnOrder \/ ReturnOrder \/ \E row \in 1..MaxRow : Delete(row) \/ ReplaceImages(row)

BackfillSpec == BackfillInit /\ [][BackfillNext]_backfillVars

-----------------------------------------------------------------------------
BackfillTypeOK ==
    /\ checkpoint \in [Stories -> [status : {"PENDING", "RUNNING", "COMPLETED", "FAILED"},
                                   seal : SUBSET (1..MaxRow)]]
    /\ last \in [Stories -> BaseRows..MaxRow]
    /\ \A s \in Stories : tables[s] \subseteq 1..last[s]
    /\ altered \subseteq Prerequisites /\ completed \subseteq Stories

\* Nobody has completed a story before those it builds on, through crashes,
\* failures and scripts that run at once.
CompletedInOrder == \A s \in completed \intersect scope : Before(s) \subseteq completed

\* A seal has as many rows as the baseline, and they are those of the baseline as
\* long as none of these was deleted: rows that came later are not sealed in their
\* place.  (The catalogue's can be deleted: after an edit of a product a first
\* inspection seals what is left of the baseline with the new images.)
SealsTheBaseline ==
    \A s \in Stories :
        HasSeal(s) =>
            /\ Cardinality(checkpoint[s].seal) = BaseRows
            /\ Baseline \subseteq tables[s] => checkpoint[s].seal = Baseline

\* The stories that need no other to be inspected.
Independent == Prerequisites \ {"MIG-008", "MIG-009", "MIG-010"}

Intact(s) == s \notin altered /\ checkpoint[s].seal \subseteq tables[s]
Broke(s) == \E p \in Scripts : At(p, "inspected") /\ script[p].story = s /\ script[p].broke

\* A seal is not exchanged for another one, and it is lost only with its baseline or
\* by an inspection of its own story that threw - not because the tables grew, a
\* script died, or others ran and failed (the tests: "la reejecucion conserva la
\* linea base y las filas nuevas").  MIG-008 to MIG-010 lose theirs also when the
\* story before them fails.
GrowthKeepsSeal ==
    [][\A s \in Prerequisites : HasSeal(s) /\ checkpoint'[s].seal # checkpoint[s].seal =>
          /\ checkpoint'[s].seal = Unsealed
          /\ s \in Independent => ~Intact(s) \/ Broke(s)]_backfillVars

\* What a COMPLETED story stands for: the stories it builds on, and its baseline.
SealsHold == CompletedInOrder /\ SealsTheBaseline
=============================================================================
