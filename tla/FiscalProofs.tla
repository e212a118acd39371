----------------------------- MODULE FiscalProofs -----------------------------
(* Machine-checked proofs about what is kept for others: the queue of         *)
(* background jobs, the evidence of the take-over, the inbox and the vouchers,*)
(* for any number of jobs, processes, scripts, webhooks, clerks, orders and   *)
(* transactions and any bounds on time and failures.  The components stand    *)
(* side by side in MCFiscal: the invariant of each is proved by itself, that  *)
(* of the queue from SunatJobQueue alone.                                     *)
EXTENDS MCFiscal, FiniteSetTheorems, TLAPS

-----------------------------------------------------------------------------
(* The queue.                                                                *)

(* A process that has something in its hands knows what it is.                *)
BusyHasJob == \A w \in Workers : pc[w] \in Busy => cur[w] \in Jobs

(* What enqueue(), complete(), fail(), defer() and recoverStaleLocks() write  *)
(* is a row: unlocking keeps a row a row.                                     *)
LEMMA UnlockedIsRow ==
    ASSUME NEW row \in JobRow, NEW status \in Status, NEW due \in BOOLEAN
    PROVE  Unlocked(row, status, due) \in JobRow
  BY DEF Unlocked, JobRow

LEMMA UnlockedFields ==
    ASSUME NEW row \in JobRow, NEW status \in Status, NEW due \in BOOLEAN
    PROVE  Unlocked(row, status, due).status = status
  BY DEF Unlocked, JobRow

LEMMA DeferredFields ==
    ASSUME NEW row \in JobRow
    PROVE  Deferred(row).status = "PENDING"
  BY DEF Deferred, Unlocked, JobRow

(* So is what claim() writes, while attempts are left.                        *)
LEMMA LockedIsRow ==
    ASSUME NEW row \in JobRow, NEW w \in Workers, row.attempts + 1 \in 0..MaxAttempts
    PROVE  Locked(row, w) \in JobRow
  BY DEF Locked, JobRow, Status

LEMMA AbsentIsRow == Absent \in JobRow
  BY QueueAssumption DEF Absent, JobRow, Status

-----------------------------------------------------------------------------
(* Every variable keeps its type and a busy process holds a job.              *)
THEOREM TypeCorrect == Spec => [](TypeOK /\ BusyHasJob)
<1> USE DEF TypeOK, BusyHasJob, Alive, Busy
<1>1. Init => TypeOK /\ BusyHasJob
  BY AbsentIsRow, QueueAssumption DEF Init
<1>2. TypeOK /\ BusyHasJob /\ [Next]_vars => (TypeOK /\ BusyHasJob)'
  <2> SUFFICES ASSUME TypeOK, BusyHasJob, [Next]_vars
               PROVE  (TypeOK /\ BusyHasJob)'
    OBVIOUS
  <2>1. ASSUME NEW j \in Jobs, Enqueue(j)
        PROVE  (TypeOK /\ BusyHasJob)'
    <3>1. \A due \in BOOLEAN : Unlocked(Absent, "PENDING", due) \in JobRow
      BY AbsentIsRow, UnlockedIsRow DEF Status
    <3>2. QED
      BY <2>1, <3>1 DEF Enqueue
  <2>2. ASSUME NEW j \in Jobs, Elapse(j)
        PROVE  (TypeOK /\ BusyHasJob)'
    <3>1. /\ [job[j] EXCEPT !.due = TRUE] \in JobRow
          /\ [job[j] EXCEPT !.stale = TRUE] \in JobRow
      BY ZenonT(60) DEF JobRow
    <3>2. \/ job' = [job EXCEPT ![j] = [@ EXCEPT !.due = TRUE]]
          \/ job' = [job EXCEPT ![j] = [@ EXCEPT !.stale = TRUE]]
      BY <2>2 DEF Elapse
    <3>3. job' \in [Jobs -> JobRow]
      BY <3>1, <3>2
    <3>4. QED
      BY <2>2, <3>3 DEF Elapse
  <2>3. ASSUME NEW w \in Workers, Start(w)
        PROVE  (TypeOK /\ BusyHasJob)'
    <3>1. job' \in [Jobs -> JobRow]
      BY <2>3, UnlockedIsRow DEF Start, Recovered, Status
    <3>2. QED
      BY <2>3, <3>1 DEF Start, Goto
  <2>4. ASSUME NEW w \in Workers, NEW j \in Jobs, Claim(w, j)
        PROVE  (TypeOK /\ BusyHasJob)'
    <3>1. job[j].attempts + 1 \in 0..MaxAttempts
      BY <2>4, QueueAssumption DEF Claim, Claimable, JobRow
    <3>2. Locked(job[j], w) \in JobRow
      BY <3>1, LockedIsRow
    <3>3. QED
      BY <2>4, <3>2 DEF Claim
  <2>5. ASSUME NEW w \in Workers, Execute(w)
        PROVE  (TypeOK /\ BusyHasJob)'
    BY <2>5 DEF Execute, Goto
  <2>6. ASSUME NEW w \in Workers, Complete(w)
        PROVE  (TypeOK /\ BusyHasJob)'
    <3>1. Unlocked(job[cur[w]], "SUCCEEDED", job[cur[w]].due) \in JobRow
      <4>1. cur[w] \in Jobs
        BY <2>6 DEF Complete
      <4>2. job[cur[w]].due \in BOOLEAN
        BY <4>1 DEF JobRow
      <4>3. QED
        BY <4>1, <4>2, UnlockedIsRow DEF Status
    <3>2. QED
      BY <2>6, <3>1 DEF Complete, Goto, Return
  <2>7. ASSUME NEW w \in Workers, FailRead(w)
        PROVE  (TypeOK /\ BusyHasJob)'
    <3>1. job[cur[w]].attempts \in 0..MaxAttempts
      BY <2>7 DEF FailRead, JobRow
    <3>2. QED
      BY <2>7, <3>1 DEF FailRead, Goto
  <2>8. ASSUME NEW w \in Workers, FailWrite(w)
        PROVE  (TypeOK /\ BusyHasJob)'
    <3>1. \A s \in Status : Unlocked(job[cur[w]], s, FALSE) \in JobRow
      BY <2>8, UnlockedIsRow DEF FailWrite
    <3>2. QED
      BY <2>8, <3>1 DEF FailWrite, Return, Status
  <2>9. ASSUME NEW w \in Workers, Defer(w)
        PROVE  (TypeOK /\ BusyHasJob)'
    <3>1. ASSUME job[cur[w]].attempts > 0
          PROVE  Deferred(job[cur[w]]) \in JobRow
      <4>1. job[cur[w]] \in JobRow
        BY <2>9 DEF Defer
      <4>2. job[cur[w]].attempts - 1 \in 0..MaxAttempts
        BY <3>1, <4>1, QueueAssumption DEF JobRow
      <4>3. Unlocked(job[cur[w]], "PENDING", FALSE) \in JobRow
        BY <4>1, UnlockedIsRow DEF Status
      <4>4. QED
        BY <4>2, <4>3 DEF Deferred, JobRow
    <3>2. QED
      BY <2>9, <3>1 DEF Defer, Goto, Return
  <2>10. ASSUME NEW w \in Workers, Stop(w) \/ Crash(w)
        PROVE  (TypeOK /\ BusyHasJob)'
    BY <2>10 DEF Stop, Crash, Goto
  <2>11. CASE UNCHANGED vars
    BY <2>11 DEF vars
  <2>12. QED
    BY <2>1, <2>2, <2>3, <2>4, <2>5, <2>6, <2>7, <2>8, <2>9, <2>10, <2>11
       DEF Next, Work
<1>3. QED
  BY <1>1, <1>2, PTL DEF Spec

-----------------------------------------------------------------------------
(* A RUNNING row names the process that works on it, or one that is gone; a   *)
(* SUCCEEDED row had its work committed before.                               *)
THEOREM OwnershipCorrect == Spec => []RowsAreTrue
<1> DEFINE Ind == /\ OwnerIsWorking
                  /\ SuccessMeansDone
                  /\ \A w \in Workers : pc[w] = "complete" => cur[w] \in done
<1>1. Init => Ind
  BY DEF Init, Absent, OwnerIsWorking, SuccessMeansDone
<1>2. TypeOK /\ BusyHasJob /\ Ind /\ [Next]_vars => Ind'
  <2> SUFFICES ASSUME TypeOK, BusyHasJob, Ind, [Next]_vars
               PROVE  Ind'
    OBVIOUS
  <2> USE DEF TypeOK, BusyHasJob, OwnerIsWorking, SuccessMeansDone, Busy, Alive
  <2>1. ASSUME NEW j \in Jobs, Enqueue(j)
        PROVE  Ind'
    BY <2>1 DEF Enqueue, Unlocked, Absent, JobRow
  <2>2. ASSUME NEW j \in Jobs, Elapse(j)
        PROVE  Ind'
    BY <2>2 DEF Elapse, JobRow
  <2>3. ASSUME NEW w \in Workers, Start(w)
        PROVE  Ind'
    <3>1. \A j \in Jobs : job'[j].status \in {"RUNNING", "SUCCEEDED"} => job'[j] = job[j]
      <4>1. \A j \in Jobs : Unlocked(job[j], "FAILED", TRUE).status = "FAILED"
        BY UnlockedFields DEF Status
      <4>2. \A j \in Jobs : job'[j] = job[j] \/ job'[j] = Unlocked(job[j], "FAILED", TRUE)
        BY <2>3 DEF Start, Recovered
      <4>3. QED
        BY <4>1, <4>2
    <3>2. pc[w] = "new" /\ pc' = [pc EXCEPT ![w] = "poll"] /\ UNCHANGED <<cur, done>>
      BY <2>3 DEF Start, Goto
    <3>3. OwnerIsWorking'
      BY <3>1, <3>2
    <3>4. QED
      BY <3>1, <3>2, <3>3
  <2>4. ASSUME NEW w \in Workers, NEW j \in Jobs, Claim(w, j)
        PROVE  Ind'
    BY <2>4 DEF Claim, Locked, JobRow
  <2>5. ASSUME NEW w \in Workers, Execute(w)
        PROVE  Ind'
    BY <2>5 DEF Execute, Goto
  <2>6. ASSUME NEW w \in Workers, Complete(w)
        PROVE  Ind'
    <3>1. CASE UNCHANGED job
      <4>1. Goto(w, "failRead")
        <5>1. cur[w] \in Jobs
          BY <2>6 DEF Complete
        <5>2. Owns(w, cur[w]) => job'[cur[w]].status = "SUCCEEDED" /\ job[cur[w]].status = "RUNNING"
          BY <2>6, <5>1, UnlockedFields DEF Complete, Owns, Status, JobRow
        <5>3. QED
          BY <2>6, <3>1, <5>2 DEF Complete
      <4>2. QED
        BY <2>6, <3>1, <4>1 DEF Goto, Complete
    <3>2. CASE job' # job
      <4>1. /\ job' = [job EXCEPT ![cur[w]] = job'[cur[w]]]
            /\ job'[cur[w]].status = "SUCCEEDED"
            /\ cur[w] \in Jobs
            /\ Return(w)
            /\ pc[w] \in Busy
            /\ UNCHANGED done
        BY <2>6, <3>2, UnlockedFields DEF Complete, Goto, Status, JobRow
      <4>2. OwnerIsWorking'
        BY <4>1 DEF Return
      <4>3. QED
        BY <2>6, <4>1, <4>2 DEF Return, Complete
    <3>3. QED
      BY <3>1, <3>2
  <2>7. ASSUME NEW w \in Workers, FailRead(w)
        PROVE  Ind'
    BY <2>7 DEF FailRead, Goto
  <2>8. ASSUME NEW w \in Workers, FailWrite(w)
        PROVE  Ind'
    BY <2>8 DEF FailWrite, Return, Unlocked, JobRow
  <2>9. ASSUME NEW w \in Workers, Defer(w)
        PROVE  Ind'
    <3>1. CASE UNCHANGED job
      <4>1. Goto(w, "exited")
        <5>1. cur[w] \in Jobs
          BY <2>9 DEF Defer
        <5>2. Owns(w, cur[w]) /\ job[cur[w]].attempts > 0
                 => job'[cur[w]].status = "PENDING" /\ job[cur[w]].status = "RUNNING"
          <6>1. Deferred(job[cur[w]]).status = "PENDING"
            BY <5>1, DeferredFields
          <6>2. QED
            BY <2>9, <3>1, <5>1, <6>1 DEF Defer, Owns
        <5>3. QED
          BY <2>9, <3>1, <5>2 DEF Defer
      <4>2. QED
        BY <2>9, <3>1, <4>1 DEF Goto, Defer
    <3>2. CASE job' # job
      <4>1. /\ job' = [job EXCEPT ![cur[w]] = job'[cur[w]]]
            /\ job'[cur[w]].status = "PENDING"
            /\ cur[w] \in Jobs
            /\ Return(w)
            /\ pc[w] \in Busy
            /\ UNCHANGED done
        BY <2>9, <3>2, DeferredFields DEF Defer, Goto
      <4>2. OwnerIsWorking'
        BY <4>1 DEF Return
      <4>3. QED
        BY <2>9, <4>1, <4>2 DEF Return
    <3>3. QED
      BY <3>1, <3>2
  <2>10. ASSUME NEW w \in Workers, Stop(w) \/ Crash(w)
        PROVE  Ind'
    BY <2>10 DEF Stop, Crash, Goto
  <2>11. CASE UNCHANGED vars
    BY <2>11 DEF vars
  <2>12. QED
    BY <2>1, <2>2, <2>3, <2>4, <2>5, <2>6, <2>7, <2>8, <2>9, <2>10, <2>11
       DEF Next, Work
<1>3. Ind => RowsAreTrue
  BY DEF RowsAreTrue
<1>4. QED
  BY <1>1, <1>2, <1>3, TypeCorrect, PTL DEF Spec

-----------------------------------------------------------------------------
(* With one process at a time nobody is alive when a process starts, so that  *)
(* recoverStaleLocks cannot take a job away from a process that works on it.  *)
LEMMA StartsAlone ==
    ASSUME MaxAlive = 1, NEW w \in Workers, Start(w)
    PROVE  AliveWorkers = {}
<1>1. IsFiniteSet(AliveWorkers)
  BY QueueAssumption, FS_Subset DEF AliveWorkers
<1>2. Cardinality(AliveWorkers) \in Nat /\ Cardinality(AliveWorkers) < 1
  BY <1>1, FS_CardinalityType DEF Start
<1>3. Cardinality(AliveWorkers) = 0
  BY <1>2
<1>4. QED
  BY <1>1, <1>3, FS_EmptySet

(* At most one process is alive, and it owns the job it has in its hands.     *)
OneAlive == \A v, w \in Workers : pc[v] \in Alive /\ pc[w] \in Alive => v = w

THEOREM LeaseCorrect == ASSUME MaxAlive = 1 PROVE Spec => [](OneAlive /\ LeaseHeld)
<1>1. Init => OneAlive /\ LeaseHeld
  BY DEF Init, OneAlive, LeaseHeld, Alive, Busy
<1>2. TypeOK /\ BusyHasJob /\ OneAlive /\ LeaseHeld /\ [Next]_vars
        => (OneAlive /\ LeaseHeld)'
  <2> SUFFICES ASSUME TypeOK, BusyHasJob, OneAlive, LeaseHeld, [Next]_vars
               PROVE  (OneAlive /\ LeaseHeld)'
    OBVIOUS
  <2> USE DEF TypeOK, BusyHasJob, OneAlive, LeaseHeld, Owns, Busy, Alive
  <2>1. ASSUME NEW j \in Jobs, Enqueue(j)
        PROVE  (OneAlive /\ LeaseHeld)'
    BY <2>1 DEF Enqueue
  <2>2. ASSUME NEW j \in Jobs, Elapse(j)
        PROVE  (OneAlive /\ LeaseHeld)'
    BY <2>2 DEF Elapse, JobRow
  <2>3. ASSUME NEW w \in Workers, Start(w)
        PROVE  (OneAlive /\ LeaseHeld)'
    <3>1. \A v \in Workers : pc[v] \notin Alive
      BY <2>3, StartsAlone DEF AliveWorkers
    <3>2. pc' = [pc EXCEPT ![w] = "poll"]
      BY <2>3 DEF Start, Goto
    <3>3. \A v \in Workers : pc'[v] \in Alive => v = w /\ pc'[v] = "poll"
      BY <3>1, <3>2
    <3>4. QED
      BY <3>3
  <2>4. ASSUME NEW w \in Workers, NEW j \in Jobs, Claim(w, j)
        PROVE  (OneAlive /\ LeaseHeld)'
    <3>1. Locked(job[j], w).status = "RUNNING" /\ Locked(job[j], w).lockedBy = w
      BY DEF Locked, JobRow
    <3>2. QED
      BY <2>4, <3>1 DEF Claim
  <2>5. ASSUME NEW w \in Workers, Execute(w) \/ FailRead(w)
        PROVE  (OneAlive /\ LeaseHeld)'
    BY <2>5 DEF Execute, FailRead, Goto
  <2>6. ASSUME NEW w \in Workers, Complete(w)
        PROVE  (OneAlive /\ LeaseHeld)'
    BY <2>6 DEF Complete, Goto, Return
  <2>7. ASSUME NEW w \in Workers, FailWrite(w)
        PROVE  (OneAlive /\ LeaseHeld)'
    BY ZenonT(60), <2>7 DEF FailWrite, Return
  <2>8. ASSUME NEW w \in Workers, Defer(w)
        PROVE  (OneAlive /\ LeaseHeld)'
    BY <2>8 DEF Defer, Goto, Return
  <2>9. ASSUME NEW w \in Workers, Stop(w) \/ Crash(w)
        PROVE  (OneAlive /\ LeaseHeld)'
    BY <2>9 DEF Stop, Crash, Goto
  <2>10. CASE UNCHANGED vars
    BY <2>10 DEF vars
  <2>11. QED
    BY <2>1, <2>2, <2>3, <2>4, <2>5, <2>6, <2>7, <2>8, <2>9, <2>10 DEF Next, Work
<1>3. QED
  BY <1>1, <1>2, TypeCorrect, PTL DEF Spec

(* With one process at a time, what reached SUCCEEDED or DEAD stays there.    *)
THEOREM SettledForGood == ASSUME MaxAlive = 1 PROVE Spec => SettledIsFinal
<1>1. TypeOK /\ BusyHasJob /\ LeaseHeld /\ [Next]_vars => [MaxAlive = 1 => SettledStays]_vars
  <2> SUFFICES ASSUME TypeOK, BusyHasJob, LeaseHeld, Next,
                      NEW j \in Jobs, job[j].status \in Settled
               PROVE  job'[j] = job[j]
    BY DEF SettledStays
  <2> USE DEF TypeOK, BusyHasJob, LeaseHeld, Owns, Busy, Alive, Settled
  <2>1. ASSUME NEW k \in Jobs, Enqueue(k) \/ Elapse(k)
        PROVE  job'[j] = job[j]
    BY <2>1 DEF Enqueue, Elapse
  <2>2. ASSUME NEW w \in Workers, Start(w)
        PROVE  job'[j] = job[j]
    BY <2>2 DEF Start, Recovered
  <2>3. ASSUME NEW w \in Workers, NEW k \in Jobs, Claim(w, k)
        PROVE  job'[j] = job[j]
    BY <2>3 DEF Claim, Claimable
  <2>4. ASSUME NEW w \in Workers, Complete(w) \/ FailWrite(w) \/ Defer(w)
        PROVE  job'[j] = job[j]
    BY <2>4 DEF Complete, FailWrite, Defer
  <2>5. ASSUME NEW w \in Workers, Execute(w) \/ FailRead(w) \/ Stop(w) \/ Crash(w)
        PROVE  job'[j] = job[j]
    BY <2>5 DEF Execute, FailRead, Stop, Crash
  <2>6. QED
    BY <2>1, <2>2, <2>3, <2>4, <2>5 DEF Next, Work
<1>2. QED
  BY <1>1, TypeCorrect, LeaseCorrect, PTL DEF Spec, SettledIsFinal

-----------------------------------------------------------------------------
(* The components side by side.                                              *)

fiscalVars == <<part, vouchersVars, vars, backfillVars, attentionVars>>

\* A step of one component leaves the others alone.
LEMMA StepOfFiscal ==
    ASSUME [FiscalNext]_fiscalVars
    PROVE  /\ VouchersNext \/ UNCHANGED vouchersVars
           /\ BackfillNext \/ UNCHANGED backfillVars
           /\ AttentionNext \/ UNCHANGED attentionVars
  BY DEF FiscalNext, fiscalVars

-----------------------------------------------------------------------------
(* The evidence of the take-over.                                             *)

Seals == SUBSET (1..MaxRow)
Checkpoints == [status : {"PENDING", "RUNNING", "COMPLETED", "FAILED"}, seal : Seals]
ScriptRows ==
    {NoScript}
    \union [story : Stories, stage : {"read"}, seal : Seals]
    \union [story : Stories, stage : {"running"}, seal : Seals, polls : Nat]
    \union [story : Stories, stage : {"inspected"}, seal : Seals, found : Seals, broke : BOOLEAN]
    \union [story : {"MIG-011"}, stage : {"covering"}, seals : [Prerequisites -> Seals]]

\* As many rows as the baseline, and those of it unless one was deleted.
Pure(seal, s) ==
    seal = {} \/ (/\ seal \subseteq 1..last[s] /\ Cardinality(seal) = BaseRows
                  /\ Baseline \subseteq tables[s] => seal = Baseline)

\* MIG-010 and MIG-011 ask for the stories before them when they inspect.
Asks == {"MIG-010", "MIG-011"}

\* What a script has in its hands.
ScriptHolds(p) ==
    LET r == script[p]
    IN  r # NoScript =>
          /\ r.story \in scope
          /\ r.story \notin Asks => Before(r.story) \subseteq completed
          /\ r.stage # "covering" => Pure(r.seal, r.story)
          /\ r.stage = "inspected" => Pure(r.found, r.story)
          /\ r.stage = "covering" => Prerequisites \subseteq completed
          /\ r.stage = "inspected" /\ r.found # {} => Before(r.story) \subseteq completed
          /\ r.story = "MIG-003" /\ r.seal # {} => "MIG-003" \in completed

BackfillTables ==
    /\ scope \in Scopes /\ scope \subseteq Stories
    /\ checkpoint \in [Stories -> Checkpoints]
    /\ last \in [Stories -> BaseRows..MaxRow]
    /\ tables \in [Stories -> Seals] /\ \A s \in Stories : tables[s] \subseteq 1..last[s]
    /\ \A s \in Stories \ {"MIG-004"} : Baseline \subseteq tables[s]
    /\ altered \subseteq Prerequisites
    /\ completed \subseteq Stories /\ Stories \ scope \subseteq completed
    /\ script \in [Scripts -> ScriptRows]

BackfillSound ==
    /\ BackfillTables
    /\ \A s \in Stories : Pure(checkpoint[s].seal, s) /\ (Done(s) \/ HasSeal(s) => s \in completed)
    /\ \A p \in Scripts : ScriptHolds(p)
    /\ CompletedInOrder

LEMMA BaselineCounts ==
    /\ IsFiniteSet(Baseline) /\ Cardinality(Baseline) = BaseRows /\ BaseRows > 0 /\ Baseline \in Seals
    /\ \A n \in BaseRows..MaxRow : Baseline \subseteq 1..n /\ n + 1 \notin 1..n /\ n + 1 \notin Baseline
<1>1. BaseRows \in Nat /\ MaxRow \in Nat /\ 0 < BaseRows /\ BaseRows <= MaxRow
  BY BackfillAssumption
<1>2. IsFiniteSet(1..BaseRows) /\ Cardinality(1..BaseRows) = BaseRows
  BY <1>1, FS_Interval
<1>3. QED
  BY <1>1, <1>2 DEF Baseline, Seals

\* A set of as many rows as the baseline, within it or around it, is the baseline.
LEMMA SameSize ==
    ASSUME NEW rows \in Seals, NEW seal \in Seals, rows \subseteq seal, Cardinality(rows) = Cardinality(seal)
    PROVE  rows = seal
<1>1. IsFiniteSet(1..MaxRow)
  BY FS_Interval, BackfillAssumption
<1>2. IsFiniteSet(seal)
  BY <1>1, FS_Subset DEF Seals
<1>3. QED
  BY <1>2, FS_Subset

LEMMA BackfillBegins == BackfillInit => BackfillSound
<1> SUFFICES ASSUME BackfillInit
             PROVE  BackfillSound
  OBVIOUS
<1>1. scope \in Scopes /\ scope \subseteq Stories
  BY ScopesAssumption DEF BackfillInit
<1>2. BackfillTables
  <2>1. BaseRows \in BaseRows..MaxRow /\ Baseline \in Seals /\ Baseline \subseteq 1..BaseRows
    BY BackfillAssumption, BaselineCounts
  <2>2. checkpoint \in [Stories -> Checkpoints]
    BY <2>1 DEF BackfillInit, Checkpoints, Unsealed, Seals
  <2>3. QED
    BY <1>1, <2>1, <2>2 DEF BackfillInit, BackfillTables, ScriptRows
<1>3. \A s \in Stories : Pure(checkpoint[s].seal, s) /\ (Done(s) \/ HasSeal(s) => s \in completed)
  <2>1. Baseline \subseteq 1..BaseRows /\ Cardinality(Baseline) = BaseRows
    BY BackfillAssumption, BaselineCounts
  <2>2. QED
    BY <2>1 DEF BackfillInit, Pure, Done, HasSeal, Unsealed
<1>4. \A p \in Scripts : ScriptHolds(p)
  BY DEF BackfillInit, ScriptHolds
<1>5. CompletedInOrder
  BY DEF BackfillInit, CompletedInOrder
<1>6. QED
  BY <1>2, <1>3, <1>4, <1>5 DEF BackfillSound

\* What a completed story builds on is completed, with what that builds on.
LEMMA BeforeIsClosed ==
    ASSUME BackfillSound, NEW s \in scope, NEW d \in Before(s) \intersect completed
    PROVE  Before(d) \subseteq completed
<1>1. scope \in Scopes /\ scope \subseteq Stories /\ Stories \ scope \subseteq completed /\ CompletedInOrder
  BY DEF BackfillSound, BackfillTables
<1>2. CASE d \in scope
  BY <1>1, <1>2 DEF CompletedInOrder
<1>3. CASE d \notin scope
  <2>1. Before(d) \intersect scope = {}
    BY <1>1, <1>3, ScopesAssumption
  <2>2. Before(d) \subseteq Stories
    BY DEF Before, Prerequisites, Stories
  <2>3. QED
    BY <1>1, <2>1, <2>2
<1>4. QED
  BY <1>2, <1>3

\* A script changes: the others and the rows do not.
LEMMA ScriptMoves ==
    ASSUME BackfillSound, NEW p \in Scripts, NEW r \in ScriptRows, r = script'[p],
           script' = [script EXCEPT ![p] = r],
           ScriptHolds(p)', UNCHANGED <<scope, checkpoint, tables, last, altered, completed>>
    PROVE  BackfillSound'
<1>1. script' \in [Scripts -> ScriptRows] /\ \A q \in Scripts \ {p} : script'[q] = script[q]
  BY DEF BackfillSound, BackfillTables
<1>2. BackfillTables'
  BY <1>1 DEF BackfillSound, BackfillTables
<1>3. \A q \in Scripts : ScriptHolds(q)'
  <2>1. SUFFICES ASSUME NEW q \in Scripts \ {p}
                 PROVE  ScriptHolds(q)'
    OBVIOUS
  <2>2. ScriptHolds(q)
    BY DEF BackfillSound
  <2>3. QED
    BY <1>1, <2>2 DEF ScriptHolds, Pure
<1>4. QED
  BY <1>2, <1>3 DEF BackfillSound, Pure, Done, HasSeal, CompletedInOrder

LEMMA BeginSteps ==
    ASSUME BackfillSound, NEW p \in Scripts, NEW s, NEW dependency, Begin(p, s, dependency),
           s \notin Asks => Before(s) \subseteq completed
    PROVE  BackfillSound'
<1>1. BackfillTables /\ s \in scope /\ s \in Stories /\ Pure(checkpoint[s].seal, s)
  BY DEF Begin, BackfillSound, BackfillTables
<1>2. PICK r : r = [story |-> s, stage |-> "read", seal |-> checkpoint[s].seal]
  OBVIOUS
<1>3. r \in ScriptRows
  BY <1>1, <1>2 DEF BackfillTables, ScriptRows, Checkpoints
<1>4. script' = [script EXCEPT ![p] = r] /\ UNCHANGED <<scope, checkpoint, tables, last, altered, completed>>
  BY <1>2 DEF Begin
<1>5. script'[p] = r
  BY <1>1, <1>4 DEF BackfillTables
<1>6. s = "MIG-003" /\ checkpoint[s].seal # {} => "MIG-003" \in completed
  BY <1>1 DEF BackfillSound, HasSeal, Unsealed
<1>7. ScriptHolds(p)'
  BY <1>1, <1>2, <1>4, <1>5, <1>6 DEF ScriptHolds, Pure
<1>8. QED
  BY <1>3, <1>4, <1>5, <1>7, ScriptMoves

\* A script is begun when the story before it is done.
LEMMA BeginsInOrder ==
    ASSUME BackfillSound, NEW p \in Scripts,
           \/ ReconcileIdentity(p) \/ ReconcileCatalog(p) \/ ReconcileInventory(p) \/ ReconcileMovements(p)
           \/ ReconcileOrderPicking(p) \/ ReconcileReturnPayment(p) \/ ReconcileMarketplaceConfig(p)
           \/ ReconcileAuditActivity(p) \/ ReconcileBackfillClosure(p)
    PROVE  BackfillSound'
<1>1. \A s \in Stories : Done(s) \/ HasSeal(s) => s \in completed
  BY DEF BackfillSound
<1>2. CASE ReconcileIdentity(p)
  BY <1>2, BeginSteps DEF ReconcileIdentity, Before
<1>3. CASE ReconcileCatalog(p)
  BY <1>3, BeginSteps DEF ReconcileCatalog, Before
<1>4. CASE ReconcileInventory(p)
  BY <1>4, BeginSteps DEF ReconcileInventory, Before
<1>5. CASE ReconcileMovements(p)
  <2>1. "MIG-005" \in completed
    BY <1>1, <1>5 DEF ReconcileMovements, Begin, InventoryIsDone, Stories
  <2>2. Before("MIG-006") \subseteq completed
    BY <2>1 DEF Before
  <2>3. QED
    BY <1>5, <2>2, BeginSteps DEF ReconcileMovements
<1>6. CASE ReconcileOrderPicking(p)
  <2>1. "MIG-007" \in scope /\ "MIG-006" \in completed
    BY <1>1, <1>6 DEF ReconcileOrderPicking, Begin, Stories
  <2>2. Before("MIG-006") \subseteq completed
    BY <2>1, BeforeIsClosed DEF Before
  <2>3. Before("MIG-007") \subseteq completed
    BY <2>1, <2>2 DEF Before
  <2>4. QED
    BY <1>6, <2>3, BeginSteps DEF ReconcileOrderPicking
<1>7. CASE ReconcileReturnPayment(p)
  <2>1. "MIG-008" \in scope /\ "MIG-007" \in completed
    BY <1>1, <1>7 DEF ReconcileReturnPayment, Begin, Stories
  <2>2. Before("MIG-007") \subseteq completed
    BY <2>1, BeforeIsClosed DEF Before
  <2>3. Before("MIG-008") \subseteq completed
    BY <2>1, <2>2 DEF Before
  <2>4. QED
    BY <1>7, <2>3, BeginSteps DEF ReconcileReturnPayment
<1>8. CASE ReconcileMarketplaceConfig(p)
  <2>1. "MIG-009" \in scope /\ "MIG-008" \in completed
    BY <1>1, <1>8 DEF ReconcileMarketplaceConfig, Begin, HasCompletedEvidence, Stories
  <2>2. Before("MIG-008") \subseteq completed
    BY <2>1, BeforeIsClosed DEF Before
  <2>3. Before("MIG-009") \subseteq completed
    BY <2>1, <2>2 DEF Before
  <2>4. QED
    BY <1>8, <2>3, BeginSteps DEF ReconcileMarketplaceConfig
<1>9. CASE ReconcileAuditActivity(p)
  BY <1>9, BeginSteps DEF ReconcileAuditActivity, Asks
<1>10. CASE ReconcileBackfillClosure(p)
  BY <1>10, BeginSteps DEF ReconcileBackfillClosure, Asks
<1>11. QED
  BY <1>2, <1>3, <1>4, <1>5, <1>6, <1>7, <1>8, <1>9, <1>10

\* What a script in a stage looks like.
LEMMA RowOfStage ==
    ASSUME BackfillSound, NEW p \in Scripts
    PROVE  /\ script[p] \in ScriptRows
           /\ script[p] # NoScript => script[p].story \in scope /\ script[p].story \in Stories
           /\ At(p, "read") => script[p] \in [story : Stories, stage : {"read"}, seal : Seals]
           /\ At(p, "running") => script[p] \in [story : Stories, stage : {"running"}, seal : Seals, polls : Nat]
           /\ At(p, "inspected") => script[p] \in [story : Stories, stage : {"inspected"}, seal : Seals, found : Seals, broke : BOOLEAN]
           /\ At(p, "covering") => script[p] \in [story : {"MIG-011"}, stage : {"covering"}, seals : [Prerequisites -> Seals]]
           /\ ~At(p, "idle") => script[p] # NoScript
<1>1. script[p] \in ScriptRows /\ ScriptHolds(p) /\ scope \subseteq Stories
  BY DEF BackfillSound, BackfillTables
<1>2. script[p] # NoScript => script[p].story \in scope /\ script[p].story \in Stories
  BY <1>1 DEF ScriptHolds
<1>3. QED
  BY <1>1, <1>2 DEF ScriptRows, At, NoScript

LEMMA MarkSteps ==
    ASSUME BackfillSound, NEW p \in Scripts, MarkRunning(p)
    PROVE  BackfillSound'
<1>1. BackfillTables /\ ScriptHolds(p) /\ script[p] \in [story : Stories, stage : {"read"}, seal : Seals] /\ script[p] # NoScript
  BY RowOfStage DEF BackfillSound, MarkRunning, NoScript
<1>2. PICK s \in Stories : s = script[p].story
  BY <1>1
<1>3. PICK r : r = [story |-> s, stage |-> "running", seal |-> script[p].seal, polls |-> 0]
  OBVIOUS
<1>4. /\ checkpoint' = [checkpoint EXCEPT ![s].status = "RUNNING"]
      /\ script' = [script EXCEPT ![p] = r] /\ UNCHANGED <<scope, tables, last, altered, completed>>
  BY <1>2, <1>3 DEF MarkRunning, Becomes
<1>5. r \in ScriptRows
  BY <1>1, <1>2, <1>3 DEF ScriptRows
<1>6. /\ checkpoint' \in [Stories -> Checkpoints]
      /\ \A t \in Stories : checkpoint'[t].seal = checkpoint[t].seal
      /\ \A t \in Stories : checkpoint'[t].status = "COMPLETED" => checkpoint[t].status = "COMPLETED"
  <2>1. [checkpoint[s] EXCEPT !.status = "RUNNING"] \in Checkpoints
    BY <1>1 DEF BackfillTables, Checkpoints
  <2>2. checkpoint[s] \in Checkpoints
    BY <1>1 DEF BackfillTables
  <2>3. /\ [checkpoint[s] EXCEPT !.status = "RUNNING"].seal = checkpoint[s].seal
        /\ [checkpoint[s] EXCEPT !.status = "RUNNING"].status = "RUNNING"
    BY <2>2 DEF Checkpoints
  <2>4. QED
    BY <1>1, <1>4, <2>1, <2>3 DEF BackfillTables
<1>7. script' \in [Scripts -> ScriptRows] /\ script'[p] = r /\ \A q \in Scripts \ {p} : script'[q] = script[q]
  BY <1>1, <1>4, <1>5 DEF BackfillTables
<1>8. \A q \in Scripts : ScriptHolds(q)'
  <2>1. SUFFICES ASSUME NEW q \in Scripts
                 PROVE  ScriptHolds(q)'
    OBVIOUS
  <2>2. CASE q = p
    BY <1>1, <1>2, <1>3, <1>4, <1>7, <2>2 DEF ScriptHolds, Pure
  <2>3. CASE q # p
    <3>1. ScriptHolds(q)
      BY DEF BackfillSound
    <3>2. QED
      BY <1>4, <1>7, <2>3, <3>1 DEF ScriptHolds, Pure
  <2>4. QED
    BY <2>2, <2>3
<1>9. BackfillTables'
  BY <1>1, <1>4, <1>6, <1>7 DEF BackfillTables
<1>10. QED
  BY <1>4, <1>6, <1>8, <1>9 DEF BackfillSound, Pure, Done, HasSeal, CompletedInOrder

\* What an inspection that agrees seals.
LEMMA InspectionIsPure ==
    ASSUME BackfillSound, NEW s \in Prerequisites, Agrees(s)
    PROVE  Rows(s) \in Seals /\ Pure(Rows(s), s) /\ Rows(s) # {}
<1>1. BackfillTables /\ \A t \in Stories : Pure(checkpoint[t].seal, t) /\ checkpoint[t].seal \in Seals /\ tables[t] \in Seals
  BY DEF BackfillSound, BackfillTables, Checkpoints
<1>2. s \in Stories /\ Cardinality(Rows(s)) = BaseRows /\ Baseline \in Seals /\ Cardinality(Baseline) = BaseRows
  BY BaselineCounts DEF Agrees, AsBaseline, Prerequisites
<1>3. Rows(s) \subseteq tables[s]
  BY DEF Rows, IdentityRows, CatalogRows, InventoryRows, MovementRows, OrderPickingRows, ReturnRows,
     MarketplaceRows, AuditRows, SealedRows, Stories, Prerequisites
<1>4. Rows(s) \in Seals /\ Rows(s) \subseteq 1..last[s]
  BY <1>1, <1>2, <1>3 DEF Seals, BackfillTables
<1>5. \A t \in Stories \ {"MIG-004"} : checkpoint[t].seal \in {{}, Baseline}
  BY <1>1 DEF Pure, BackfillTables
<1>6. Baseline \subseteq tables[s] => Rows(s) \subseteq Baseline \/ Baseline \subseteq Rows(s)
  <2>1. SUFFICES ASSUME Baseline \subseteq tables[s]
                 PROVE  Rows(s) \subseteq Baseline \/ Baseline \subseteq Rows(s)
    OBVIOUS
  <2>2. \A t \in Stories : Baseline \subseteq tables[t] => SealedRows(t) \subseteq Baseline \/ Baseline \subseteq SealedRows(t)
    BY <1>1 DEF SealedRows, Pure, HasSeal, Unsealed
  <2>3. "MIG-007" \in Stories /\ "MIG-009" \in Stories
    BY DEF Stories
  <2>4. CASE s \in {"MIG-003", "MIG-010"}
    BY <2>4 DEF Rows, IdentityRows, AuditRows
  <2>5. CASE s \in {"MIG-004", "MIG-005", "MIG-006", "MIG-007"}
    BY <1>2, <2>1, <2>2, <2>5 DEF Rows, CatalogRows, InventoryRows, MovementRows, OrderPickingRows
  <2>6. CASE s = "MIG-008"
    BY <1>5, <2>3, <2>6 DEF Rows, ReturnRows
  <2>7. CASE s = "MIG-009"
    BY <1>5, <2>3, <2>7 DEF Rows, MarketplaceRows, HasSeal, Unsealed
  <2>8. QED
    BY <2>4, <2>5, <2>6, <2>7 DEF Prerequisites, Stories
<1>7. Baseline \subseteq tables[s] => Rows(s) = Baseline
  BY <1>2, <1>4, <1>6, SameSize
<1>8. Rows(s) # {}
  BY <1>2, BaselineCounts, FS_EmptySet
<1>9. QED
  BY <1>2, <1>4, <1>7, <1>8 DEF Pure

LEMMA InspectSteps ==
    ASSUME BackfillSound, NEW p \in Scripts, Inspect(p) \/ Throw(p) \/ Poll(p) \/ InspectCoverage(p) \/ Die(p)
    PROVE  BackfillSound'
<1>1. BackfillTables /\ ScriptHolds(p)
  BY DEF BackfillSound
<1>2. UNCHANGED <<scope, checkpoint, tables, last, altered, completed>>
  BY DEF Inspect, Throw, Poll, InspectCoverage, Die
<1>3. {} \in Seals /\ Baseline \in Seals
  BY BaselineCounts DEF Seals
<1>4. \A s \in Stories : Pure({}, s)
  BY DEF Pure
<1>5. CASE Inspect(p)
  <2>1. script[p] \in [story : Stories, stage : {"running"}, seal : Seals, polls : Nat] /\ script[p] # NoScript
    BY <1>5, RowOfStage DEF Inspect, NoScript
  <2>2. PICK s \in Prerequisites : s = script[p].story
    BY <1>5, <2>1 DEF Inspect, Prerequisites
  <2>3. PICK found \in Seals : found = (IF Agrees(s) THEN Rows(s) ELSE Unsealed) /\ Pure(found, s)
    BY <1>3, <1>4, <2>2, InspectionIsPure DEF Unsealed, Prerequisites
  <2>10. found # {} => Before(s) \subseteq completed
    <3>1. CASE s # "MIG-010"
      BY <1>1, <2>1, <2>2, <3>1 DEF ScriptHolds, Asks, Prerequisites
    <3>2. CASE s = "MIG-010" /\ found # {}
      <4>1. "MIG-009" \in completed /\ "MIG-010" \in scope
        BY <1>1, <2>1, <2>2, <2>3, <3>2 DEF Unsealed, Agrees, HasCompletedEvidence, BackfillSound, ScriptHolds, Stories
      <4>2. Before("MIG-009") \subseteq completed
        BY <4>1, BeforeIsClosed DEF Before
      <4>3. QED
        BY <3>2, <4>1, <4>2 DEF Before
    <3>3. QED
      BY <3>1, <3>2
  <2>4. PICK r : r = [story |-> s, stage |-> "inspected", seal |-> script[p].seal, found |-> found, broke |-> FALSE]
    OBVIOUS
  <2>5. script' = [script EXCEPT ![p] = r]
    BY <1>5, <2>2, <2>3, <2>4 DEF Inspect, Becomes
  <2>6. r \in ScriptRows
    BY <2>1, <2>2, <2>4 DEF ScriptRows, Prerequisites
  <2>7. script'[p] = r
    BY <1>1, <2>5 DEF BackfillTables
  <2>8. ScriptHolds(p)'
    BY <1>1, <1>2, <2>1, <2>2, <2>3, <2>4, <2>7, <2>10 DEF ScriptHolds, Pure, Prerequisites
  <2>9. QED
    BY <1>2, <2>5, <2>6, <2>7, <2>8, ScriptMoves
<1>6. CASE Poll(p)
  <2>1. script[p] \in [story : Stories, stage : {"running"}, seal : Seals, polls : Nat] /\ script[p] # NoScript
        /\ script[p].story = "MIG-011" /\ "MIG-011" \in Stories
    BY <1>6, RowOfStage DEF Poll, NoScript
  <2>2. PICK r : r = script'[p]
    OBVIOUS
  <2>3. script' = [script EXCEPT ![p] = r]
    BY <1>1, <1>6, <2>2 DEF Poll, Becomes, BackfillTables
  <2>4. CASE Ready
    <3>1. Prerequisites \subseteq completed /\ [s \in Prerequisites |-> checkpoint[s].seal] \in [Prerequisites -> Seals]
      BY <1>1, <2>4 DEF BackfillSound, BackfillTables, Ready, Prerequisites, Checkpoints
    <3>2. r = [story |-> "MIG-011", stage |-> "covering", seals |-> [s \in Prerequisites |-> checkpoint[s].seal]]
      BY <1>1, <1>6, <2>2, <2>4 DEF Poll, Becomes, BackfillTables
    <3>3. r \in ScriptRows
      BY <3>1, <3>2 DEF ScriptRows
    <3>4. ScriptHolds(p)'
      BY <1>1, <1>2, <2>1, <2>2, <3>1, <3>2 DEF ScriptHolds
    <3>5. QED
      BY <1>2, <2>2, <2>3, <3>3, <3>4, ScriptMoves
  <2>5. CASE ~Ready /\ script[p].polls < Polls
    <3>1. r = [script[p] EXCEPT !.polls = @ + 1]
      BY <1>1, <1>6, <2>2, <2>5 DEF Poll, Becomes, BackfillTables
    <3>2. r \in [story : Stories, stage : {"running"}, seal : Seals, polls : Nat]
          /\ r.story = "MIG-011" /\ r.seal = script[p].seal
      BY <2>1, <3>1
    <3>3. r \in ScriptRows
      BY <3>2 DEF ScriptRows
    <3>4. ScriptHolds(p)'
      BY <1>1, <1>2, <2>1, <2>2, <3>2 DEF ScriptHolds, Pure
    <3>5. QED
      BY <1>2, <2>2, <2>3, <3>3, <3>4, ScriptMoves
  <2>6. CASE ~Ready /\ ~(script[p].polls < Polls)
    <3>1. r = [story |-> "MIG-011", stage |-> "inspected", seal |-> {}, found |-> {}, broke |-> FALSE]
      BY <1>1, <1>6, <2>2, <2>6 DEF Poll, Becomes, BackfillTables, Unsealed
    <3>2. r \in ScriptRows
      BY <1>3, <2>1, <3>1 DEF ScriptRows
    <3>3. ScriptHolds(p)'
      BY <1>1, <1>2, <1>4, <2>1, <2>2, <3>1 DEF ScriptHolds, Pure, Unsealed
    <3>4. QED
      BY <1>2, <2>2, <2>3, <3>2, <3>3, ScriptMoves
  <2>7. QED
    BY <2>4, <2>5, <2>6
<1>7. CASE InspectCoverage(p)
  <2>1. script[p] \in [story : {"MIG-011"}, stage : {"covering"}, seals : [Prerequisites -> Seals]] /\ script[p] # NoScript
    BY <1>7, RowOfStage DEF InspectCoverage, NoScript
  <2>2. script[p].story = "MIG-011" /\ script[p].stage = "covering" /\ "MIG-011" \in Stories
    BY <2>1 DEF Stories
  <2>3. PICK found \in {{}, Baseline} : script' = [script EXCEPT ![p] =
                              [story |-> "MIG-011", stage |-> "inspected", seal |-> {}, found |-> found, broke |-> FALSE]]
    BY <1>7 DEF InspectCoverage, Becomes, Unsealed
  <2>4. PICK r : r = [story |-> "MIG-011", stage |-> "inspected", seal |-> {}, found |-> found, broke |-> FALSE]
    OBVIOUS
  <2>5. r \in ScriptRows
    BY <1>3, <2>2, <2>3, <2>4 DEF ScriptRows
  <2>6. script'[p] = r
    BY <1>1, <2>3, <2>4 DEF BackfillTables
  <2>7. Pure(found, "MIG-011")
    BY <1>1, <1>4, <2>2, <2>3, BaselineCounts DEF Pure, BackfillTables
  <2>8. ScriptHolds(p)'
    BY <1>1, <1>2, <1>4, <2>1, <2>2, <2>4, <2>6, <2>7 DEF ScriptHolds, Pure, Before, Asks
  <2>9. QED
    BY <1>2, <2>3, <2>4, <2>5, <2>6, <2>8, ScriptMoves
<1>8. CASE Die(p)
  <2>1. script' = [script EXCEPT ![p] = NoScript] /\ NoScript \in ScriptRows
    BY <1>8 DEF Die, Becomes, ScriptRows
  <2>2. script'[p] = NoScript
    BY <1>1, <2>1 DEF BackfillTables
  <2>3. ScriptHolds(p)'
    BY <2>2 DEF ScriptHolds
  <2>4. QED
    BY <1>2, <2>1, <2>2, <2>3, ScriptMoves
<1>9. CASE Throw(p)
  <2>1. script[p] # NoScript /\ script[p].story \in Stories /\ script[p].stage \in {"running", "covering"}
    BY <1>9, RowOfStage DEF Throw, At, NoScript
  <2>2. PICK seal \in Seals : /\ seal = (IF At(p, "running") THEN script[p].seal ELSE Unsealed)
                              /\ Pure(seal, script[p].story)
                              /\ script[p].story = "MIG-003" /\ seal # {} => "MIG-003" \in completed
    <3>1. At(p, "running") => script[p].seal \in Seals
      BY RowOfStage
    <3>2. QED
      BY <1>1, <1>3, <1>4, <2>1, <3>1 DEF ScriptHolds, Unsealed, At
  <2>3. PICK r : r = [story |-> script[p].story, stage |-> "inspected", seal |-> seal, found |-> {}, broke |-> TRUE]
    OBVIOUS
  <2>4. script' = [script EXCEPT ![p] = r]
    BY <1>9, <2>2, <2>3 DEF Throw, Becomes, Unsealed
  <2>5. r \in ScriptRows
    BY <1>3, <2>1, <2>3 DEF ScriptRows
  <2>6. script'[p] = r
    BY <1>1, <2>4 DEF BackfillTables
  <2>7. ScriptHolds(p)'
    BY <1>1, <1>2, <1>4, <2>1, <2>2, <2>3, <2>6 DEF ScriptHolds, Pure
  <2>8. QED
    BY <1>2, <2>4, <2>5, <2>6, <2>7, ScriptMoves
<1>10. QED
  BY <1>5, <1>6, <1>7, <1>8, <1>9

LEMMA ReportSteps ==
    ASSUME BackfillSound, NEW p \in Scripts, Report(p)
    PROVE  BackfillSound'
<1>1. BackfillTables /\ ScriptHolds(p) /\ CompletedInOrder
      /\ script[p] \in [story : Stories, stage : {"inspected"}, seal : Seals, found : Seals, broke : BOOLEAN] /\ script[p] # NoScript
  BY RowOfStage DEF BackfillSound, Report, NoScript
<1>2. PICK s \in Stories : s = script[p].story
  BY <1>1
<1>3. PICK found \in Seals : found = script[p].found /\ Pure(found, s)
  BY <1>1, <1>2 DEF ScriptHolds
<1>4. PICK kept \in Seals : kept = AfterFailure(p) /\ Pure(kept, s) /\ (kept # {} => s \in completed)
  <2>1. {} \in Seals /\ Pure({}, s)
    BY DEF Seals, Pure
  <2>2. CASE s = "MIG-003"
    BY <1>1, <1>2, <2>2 DEF ScriptHolds, AfterFailure, Unsealed
  <2>3. CASE s # "MIG-003"
    BY <1>2, <2>1, <2>3 DEF AfterFailure, Unsealed
  <2>4. QED
    BY <2>2, <2>3
<1>5. PICK row : row = IF found # {} THEN [status |-> "COMPLETED", seal |-> found] ELSE [status |-> "FAILED", seal |-> kept]
  OBVIOUS
<1>6. /\ checkpoint' = [checkpoint EXCEPT ![s] = row]
      /\ completed' = IF found # {} THEN completed \union {s} ELSE completed
      /\ script' = [script EXCEPT ![p] = NoScript] /\ UNCHANGED <<scope, tables, last, altered>>
  BY <1>2, <1>3, <1>4, <1>5 DEF Report, Becomes, Unsealed
<1>7. row \in Checkpoints /\ Pure(row.seal, s) /\ (row.status = "COMPLETED" \/ row.seal # {} => s \in completed')
  BY <1>3, <1>4, <1>5, <1>6 DEF Checkpoints
<1>8. completed \subseteq completed' /\ completed' \subseteq Stories
  BY <1>1, <1>6 DEF BackfillTables
<1>9. /\ checkpoint' \in [Stories -> Checkpoints] /\ checkpoint'[s] = row
      /\ \A t \in Stories \ {s} : checkpoint'[t] = checkpoint[t]
  BY <1>1, <1>6, <1>7 DEF BackfillTables
<1>10. script' \in [Scripts -> ScriptRows] /\ script'[p] = NoScript /\ \A q \in Scripts \ {p} : script'[q] = script[q]
  BY <1>1, <1>6 DEF BackfillTables, ScriptRows
<1>11. BackfillTables'
  BY <1>1, <1>6, <1>8, <1>9, <1>10 DEF BackfillTables
<1>12. \A t \in Stories : Pure(checkpoint[t].seal, t)' /\ (Done(t)' \/ HasSeal(t)' => t \in completed')
  <2>1. SUFFICES ASSUME NEW t \in Stories
                 PROVE  Pure(checkpoint[t].seal, t)' /\ (Done(t)' \/ HasSeal(t)' => t \in completed')
    OBVIOUS
  <2>2. CASE t = s
    BY <1>6, <1>7, <1>9, <2>2 DEF Pure, Done, HasSeal, Unsealed
  <2>3. CASE t # s
    <3>1. Pure(checkpoint[t].seal, t) /\ (Done(t) \/ HasSeal(t) => t \in completed) /\ checkpoint'[t] = checkpoint[t]
      BY <1>9, <2>3 DEF BackfillSound
    <3>2. QED
      BY <1>6, <1>8, <3>1 DEF Pure, Done, HasSeal
  <2>4. QED
    BY <2>2, <2>3
<1>13. \A q \in Scripts : ScriptHolds(q)'
  <2>1. SUFFICES ASSUME NEW q \in Scripts \ {p}
                 PROVE  ScriptHolds(q)'
    BY <1>10 DEF ScriptHolds
  <2>2. ScriptHolds(q) /\ script'[q] = script[q]
    BY <1>10 DEF BackfillSound
  <2>3. QED
    BY <1>6, <1>8, <2>2 DEF ScriptHolds, Pure
<1>14. CompletedInOrder'
  <2>1. SUFFICES ASSUME NEW t \in completed' \intersect scope
                 PROVE  Before(t) \subseteq completed'
    BY <1>6 DEF CompletedInOrder
  <2>2. CASE t \in completed
    BY <1>1, <1>8, <2>2 DEF CompletedInOrder
  <2>3. CASE t \notin completed
    <3>1. t = s /\ found # {}
      BY <1>6, <2>3
    <3>2. QED
      BY <1>1, <1>2, <1>3, <1>8, <3>1 DEF ScriptHolds
  <2>4. QED
    BY <2>2, <2>3
<1>15. QED
  BY <1>11, <1>12, <1>13, <1>14 DEF BackfillSound

\* What the shop does to the tables: a new id, and rows of the catalogue that go.
LEMMA ShopMoves ==
    ASSUME BackfillSound, NEW s, NEW row,
           \/ Grow(s) \/ MoveStock \/ WorkOnOrder \/ ReturnOrder \/ ChangeConfiguration(s)
           \/ Delete(row) \/ ReplaceImages(row)
    PROVE  /\ UNCHANGED <<scope, checkpoint, completed, script>> /\ altered \subseteq altered' /\ altered' \subseteq Prerequisites
           /\ last' \in [Stories -> BaseRows..MaxRow] /\ tables' \in [Stories -> Seals]
           /\ \A t \in Stories : /\ last[t] <= last'[t] /\ tables'[t] \subseteq 1..last'[t]
                                 /\ tables'[t] \intersect (1..last[t]) \subseteq tables[t]
           /\ \A t \in Stories \ {"MIG-004"} : tables[t] \subseteq tables'[t]
<1>1. BackfillTables /\ {BaseRows, MaxRow} \subseteq Nat
  BY BackfillAssumption DEF BackfillSound
<1>2. UNCHANGED <<scope, checkpoint, completed, script>> /\ altered \subseteq altered'
  BY DEF Grow, MoveStock, WorkOnOrder, ReturnOrder, Delete, ReplaceImages, ChangeConfiguration, Shop
<1>3. altered' \subseteq Prerequisites
  BY <1>1 DEF Grow, MoveStock, WorkOnOrder, ReturnOrder, Delete, ReplaceImages, ChangeConfiguration, Shop,
     BackfillTables, Prerequisites, Stories
<1>4. ASSUME NEW t \in Stories
      PROVE  /\ last[t] \in BaseRows..MaxRow /\ tables[t] \in Seals /\ tables[t] \subseteq 1..last[t]
             /\ NextId(t) <= MaxRow =>
                   /\ NextId(t) \in BaseRows..MaxRow /\ last[t] <= NextId(t) /\ NextId(t) \notin 1..last[t]
                   /\ tables[t] \union {NextId(t)} \in Seals
                   /\ tables[t] \union {NextId(t)} \subseteq 1..NextId(t)
  BY <1>1, <1>4 DEF BackfillTables, Seals, NextId
<1>0. ASSUME NEW t \in Stories
      PROVE  last[t] <= last[t] /\ tables[t] \subseteq 1..last[t]
  <2>1. PICK x \in BaseRows..MaxRow : x = last[t]
    BY <1>1 DEF BackfillTables
  <2>2. x <= x
    BY <1>1
  <2>3. tables[t] \subseteq 1..last[t]
    BY <1>1 DEF BackfillTables
  <2>4. QED
    BY <2>1, <2>2, <2>3
<1>5. CASE UNCHANGED <<tables, last>>
  <2>1. tables' = tables /\ last' = last
    BY <1>5
  <2>2. last' \in [Stories -> BaseRows..MaxRow] /\ tables' \in [Stories -> Seals]
    BY <1>1, <2>1 DEF BackfillTables
  <2>3. QED
    BY <1>0, <1>2, <1>3, <2>1, <2>2, Zenon
<1>6. ASSUME NEW t \in Stories, Inserts(t), tables' = With(t)
      PROVE  /\ last' \in [Stories -> BaseRows..MaxRow] /\ tables' \in [Stories -> Seals]
             /\ \A u \in Stories : /\ last[u] <= last'[u] /\ tables'[u] \subseteq 1..last'[u]
                                   /\ tables'[u] \intersect (1..last[u]) \subseteq tables[u]
             /\ \A u \in Stories \ {"MIG-004"} : tables[u] \subseteq tables'[u]
  <2>1. PICK n : n = NextId(t)
    OBVIOUS
  <2>2. n <= MaxRow /\ last' = [last EXCEPT ![t] = n] /\ tables' = [tables EXCEPT ![t] = tables[t] \union {n}]
    BY <1>6, <2>1 DEF Inserts, With
  <2>3. /\ last' \in [Stories -> BaseRows..MaxRow] /\ tables' \in [Stories -> Seals]
        /\ last'[t] = n /\ tables'[t] = tables[t] \union {n}
        /\ \A u \in Stories \ {t} : last'[u] = last[u] /\ tables'[u] = tables[u]
    BY <1>1, <1>4, <2>1, <2>2 DEF BackfillTables
  <2>4. /\ last[t] <= n /\ tables[t] \union {n} \subseteq 1..n
        /\ (tables[t] \union {n}) \intersect (1..last[t]) \subseteq tables[t]
    BY <1>4, <1>6, <2>1, <2>2
  <2>5. ASSUME NEW u \in Stories \ {t}
        PROVE  /\ last[u] <= last'[u] /\ tables'[u] \subseteq 1..last'[u]
               /\ tables'[u] \intersect (1..last[u]) \subseteq tables[u] /\ tables[u] \subseteq tables'[u]
    <3>1. last[u] <= last[u] /\ tables[u] \subseteq 1..last[u]
      BY <1>0
    <3>2. QED
      BY <2>3, <3>1
  <2>6. /\ last[t] <= last'[t] /\ tables'[t] \subseteq 1..last'[t]
        /\ tables'[t] \intersect (1..last[t]) \subseteq tables[t] /\ tables[t] \subseteq tables'[t]
    BY <2>3, <2>4, Zenon
  <2>7. QED
    BY <2>3, <2>5, <2>6, Zenon
<1>7. CASE \E t \in Stories : Inserts(t) /\ tables' = With(t)
  BY <1>2, <1>3, <1>6, <1>7
<1>8. CASE Delete(row)
  <2>1. "MIG-004" \in Stories /\ tables["MIG-004"] \ {row} \in Seals
    BY <1>4 DEF Stories, Seals
  <2>2. UNCHANGED last /\ tables' = [tables EXCEPT !["MIG-004"] = tables["MIG-004"] \ {row}]
    BY <1>8 DEF Delete, Shop
  <2>3. /\ tables' \in [Stories -> Seals] /\ tables'["MIG-004"] = tables["MIG-004"] \ {row}
        /\ \A u \in Stories \ {"MIG-004"} : tables'[u] = tables[u]
    BY <1>1, <2>1, <2>2 DEF BackfillTables
  <2>4. last' \in [Stories -> BaseRows..MaxRow] /\ \A u \in Stories : last'[u] = last[u]
    BY <1>1, <2>2 DEF BackfillTables
  <2>5. ASSUME NEW u \in Stories
        PROVE  tables'[u] \subseteq tables[u]
    BY <2>3
  <2>6. ASSUME NEW u \in Stories
        PROVE  /\ last[u] <= last'[u] /\ tables'[u] \subseteq 1..last'[u]
               /\ tables'[u] \intersect (1..last[u]) \subseteq tables[u]
    BY <1>0, <2>4, <2>5, Zenon
  <2>7. QED
    BY <1>2, <1>3, <2>3, <2>4, <2>6, Zenon
<1>9. CASE ReplaceImages(row)
  <2>1. PICK n : n = NextId("MIG-004")
    OBVIOUS
  <2>2. PICK kept : kept = (tables["MIG-004"] \union {n}) \ {row}
    OBVIOUS
  <2>3. "MIG-004" \in Stories
    BY DEF Stories
  <2>4. n <= MaxRow /\ last' = [last EXCEPT !["MIG-004"] = n] /\ tables' = [tables EXCEPT !["MIG-004"] = kept]
    BY <1>1, <1>9, <2>1, <2>2, <2>3 DEF ReplaceImages, Inserts, With, Shop, BackfillTables
  <2>5. kept \in Seals /\ kept \subseteq 1..n
    BY <1>4, <2>1, <2>2, <2>3, <2>4 DEF Seals
  <2>6. /\ last' \in [Stories -> BaseRows..MaxRow] /\ tables' \in [Stories -> Seals]
        /\ last'["MIG-004"] = n /\ tables'["MIG-004"] = kept
        /\ \A u \in Stories \ {"MIG-004"} : last'[u] = last[u] /\ tables'[u] = tables[u]
    BY <1>1, <1>4, <2>1, <2>3, <2>4, <2>5 DEF BackfillTables
  <2>7. /\ last["MIG-004"] <= n /\ kept \intersect (1..last["MIG-004"]) \subseteq tables["MIG-004"]
    BY <1>4, <2>1, <2>2, <2>3, <2>4
  <2>8. ASSUME NEW u \in Stories \ {"MIG-004"}
        PROVE  /\ last[u] <= last'[u] /\ tables'[u] \subseteq 1..last'[u]
               /\ tables'[u] \intersect (1..last[u]) \subseteq tables[u] /\ tables[u] \subseteq tables'[u]
    <3>1. last[u] <= last[u] /\ tables[u] \subseteq 1..last[u]
      BY <1>0
    <3>2. QED
      BY <2>6, <3>1
  <2>9. /\ last["MIG-004"] <= last'["MIG-004"] /\ tables'["MIG-004"] \subseteq 1..last'["MIG-004"]
        /\ tables'["MIG-004"] \intersect (1..last["MIG-004"]) \subseteq tables["MIG-004"]
    BY <2>5, <2>6, <2>7, Zenon
  <2>10. QED
    BY <1>2, <1>3, <2>6, <2>8, <2>9, Zenon
<1>10. \/ \E t \in Stories : Inserts(t) /\ tables' = With(t)
       \/ UNCHANGED <<tables, last>> \/ Delete(row) \/ ReplaceImages(row)
  BY <1>1 DEF Grow, MoveStock, WorkOnOrder, ReturnOrder, ChangeConfiguration, Shop, BackfillTables, Stories
<1>11. QED
  BY <1>5, <1>7, <1>8, <1>9, <1>10

\* What was sealed stays as good as it was.
LEMMA ShopSteps ==
    ASSUME BackfillSound, NEW s, NEW row,
           \/ Grow(s) \/ MoveStock \/ WorkOnOrder \/ ReturnOrder \/ ChangeConfiguration(s)
           \/ Delete(row) \/ ReplaceImages(row)
    PROVE  BackfillSound'
<1>1. BackfillTables
  BY DEF BackfillSound
<1>2. UNCHANGED <<scope, checkpoint, completed, script>>
  BY ShopMoves
<1>3. altered' \subseteq Prerequisites
  BY ShopMoves
<1>4. /\ last' \in [Stories -> BaseRows..MaxRow] /\ tables' \in [Stories -> Seals]
      /\ \A t \in Stories : last[t] <= last'[t] /\ tables'[t] \subseteq 1..last'[t]
      /\ \A t \in Stories : Baseline \subseteq tables'[t] => Baseline \subseteq tables[t]
      /\ \A t \in Stories \ {"MIG-004"} : Baseline \subseteq tables'[t]
  <2>1. \A t \in Stories : last[t] \in BaseRows..MaxRow /\ Baseline \subseteq 1..last[t]
    BY <1>1, BaselineCounts DEF BackfillTables
  <2>2. \A t \in Stories : Baseline \subseteq tables'[t] => Baseline \subseteq tables[t]
    BY <2>1, ShopMoves
  <2>3. QED
    BY <1>1, <2>2, ShopMoves DEF BackfillTables
<1>5. \A seal : \A t \in Stories : Pure(seal, t) => Pure(seal, t)'
  <2>1. SUFFICES ASSUME NEW seal, NEW t \in Stories, Pure(seal, t)
                 PROVE  Pure(seal, t)'
    OBVIOUS
  <2>2. PICK m, n \in Int : m = last[t] /\ n = last'[t] /\ m <= n
    BY <1>1, <1>4, BackfillAssumption DEF BackfillTables
  <2>3. 1..m \subseteq 1..n
    BY <2>2
  <2>4. seal = {} \/ seal \subseteq 1..last'[t]
    BY <2>1, <2>2, <2>3 DEF Pure
  <2>5. QED
    BY <1>4, <2>1, <2>4 DEF Pure
<1>6. BackfillTables'
  BY <1>1, <1>2, <1>3, <1>4 DEF BackfillTables
<1>7. \A q \in Scripts : ScriptHolds(q)'
  <2>1. SUFFICES ASSUME NEW q \in Scripts, script[q] # NoScript
                 PROVE  ScriptHolds(q)'
    BY <1>2 DEF ScriptHolds
  <2>2. ScriptHolds(q) /\ script[q].story \in Stories
    BY <2>1, RowOfStage DEF BackfillSound
  <2>3. QED
    BY <1>2, <1>5, <2>2 DEF ScriptHolds
<1>8. \A t \in Stories : Pure(checkpoint[t].seal, t)' /\ (Done(t)' \/ HasSeal(t)' => t \in completed')
  <2>1. SUFFICES ASSUME NEW t \in Stories
                 PROVE  Pure(checkpoint[t].seal, t)' /\ (Done(t)' \/ HasSeal(t)' => t \in completed')
    OBVIOUS
  <2>2. Pure(checkpoint[t].seal, t) /\ (Done(t) \/ HasSeal(t) => t \in completed)
    BY DEF BackfillSound
  <2>3. QED
    BY <1>2, <1>5, <2>2 DEF Done, HasSeal
<1>9. QED
  BY <1>2, <1>6, <1>7, <1>8 DEF BackfillSound, CompletedInOrder

LEMMA BackfillSteps ==
    ASSUME BackfillSound, BackfillNext \/ UNCHANGED backfillVars
    PROVE  BackfillSound'
<1>1. CASE UNCHANGED backfillVars
  BY <1>1 DEF backfillVars, BackfillSound, BackfillTables, ScriptHolds, Pure, Done, HasSeal, CompletedInOrder
<1>2. CASE BackfillNext
  BY <1>2, BeginsInOrder, MarkSteps, InspectSteps, ReportSteps, ShopSteps DEF BackfillNext
<1>3. QED
  BY <1>1, <1>2

LEMMA BackfillIsSound == FiscalSpec => []BackfillSound
<1>1. FiscalInit => BackfillSound
  BY BackfillBegins DEF FiscalInit
<1>2. BackfillSound /\ [FiscalNext]_fiscalVars => BackfillSound'
  BY StepOfFiscal, BackfillSteps
<1>3. QED
  BY <1>1, <1>2, PTL DEF FiscalSpec, fiscalVars

\* Whatever scripts run at once, die and fail, and whatever the shop does
\* meanwhile, a story is completed only after those it builds on, and its seal has
\* the size of the baseline and is the baseline, as long as no row of that was
\* deleted.
THEOREM SealsAlwaysHold == FiscalSpec => []SealsHold
<1>1. BackfillSound => SealsHold
  BY DEF BackfillSound, SealsHold, SealsTheBaseline, Pure, HasSeal, Unsealed
<1>2. QED
  BY <1>1, BackfillIsSound, PTL

\* With one script of a story at a time: what it read is what the checkpoint
\* holds, what it found of a sealed story is the seal, and it finds nothing only
\* when the baseline changed or the inspection threw.
FoundIsSeal(p) ==
    LET r == script[p]
    IN  r.stage = "inspected" /\ r.story \in Prerequisites /\ HasSeal(r.story) =>
          /\ r.found \in {{}, checkpoint[r.story].seal}
          /\ r.found = {} /\ r.story \in Independent => ~Intact(r.story) \/ r.broke

OneScript ==
    /\ \A p, q \in Scripts : script[p] # NoScript /\ script[q] # NoScript /\ script[p].story = script[q].story => p = q
    /\ \A p \in Scripts : script[p] # NoScript =>
          /\ script[p].story = "MIG-003" => script[p].seal = checkpoint["MIG-003"].seal
          /\ FoundIsSeal(p)

\* A sealed story is looked up by its seal.
LEMMA SealedIsFound ==
    ASSUME BackfillSound, NEW s \in Prerequisites, HasSeal(s)
    PROVE  /\ Agrees(s) => Rows(s) = checkpoint[s].seal
           /\ s \in Independent /\ Intact(s) => Agrees(s)
<1>1. BackfillTables /\ s \in Stories /\ Pure(checkpoint[s].seal, s) /\ checkpoint[s].seal \in Seals /\ checkpoint[s].seal # {}
  BY DEF BackfillSound, BackfillTables, Checkpoints, Prerequisites, HasSeal, Unsealed
<1>2. s # "MIG-004" => checkpoint[s].seal = Baseline /\ Baseline \subseteq tables[s]
  BY <1>1 DEF Pure, BackfillTables
<1>3. s = "MIG-004" => Rows(s) = checkpoint[s].seal \intersect tables[s]
  BY DEF Rows, CatalogRows, SealedRows
<1>4. Agrees(s) => Rows(s) = checkpoint[s].seal
  <2>1. SUFFICES ASSUME Agrees(s)
                 PROVE  Rows(s) = checkpoint[s].seal
    OBVIOUS
  <2>2. Rows(s) \in Seals /\ Pure(Rows(s), s) /\ Rows(s) # {}
    BY <2>1, InspectionIsPure
  <2>3. CASE s # "MIG-004"
    BY <1>2, <2>2, <2>3 DEF Pure
  <2>4. CASE s = "MIG-004"
    <3>1. Rows(s) \subseteq checkpoint[s].seal /\ Cardinality(Rows(s)) = Cardinality(checkpoint[s].seal)
      BY <1>1, <1>3, <2>2, <2>4 DEF Pure
    <3>2. QED
      BY <1>1, <2>2, <3>1, SameSize
  <2>5. QED
    BY <2>3, <2>4
<1>5. s \in Independent /\ Intact(s) => Agrees(s)
  <2>1. SUFFICES ASSUME s \in Independent, Intact(s)
                 PROVE  Agrees(s)
    OBVIOUS
  <2>2. SealedRows(s) = checkpoint[s].seal
    BY <2>1 DEF Intact, SealedRows
  <2>3. s \in {"MIG-003", "MIG-004", "MIG-005", "MIG-006", "MIG-007"}
    BY <2>1 DEF Independent, Prerequisites, Stories
  <2>4. Rows(s) = checkpoint[s].seal
    <3>1. CASE s = "MIG-003"
      BY <1>2, <3>1 DEF Rows, IdentityRows
    <3>2. CASE s # "MIG-003"
      BY <2>2, <2>3, <3>2 DEF Rows, CatalogRows, InventoryRows, MovementRows, OrderPickingRows
    <3>3. QED
      BY <3>1, <3>2
  <2>5. Cardinality(checkpoint[s].seal) = BaseRows
    BY <1>1 DEF Pure
  <2>6. QED
    BY <2>1, <2>3, <2>4, <2>5 DEF Agrees, AsBaseline, Intact
<1>6. QED
  BY <1>4, <1>5

LEMMA OneScriptBegins == BackfillInit => OneScript
  BY DEF BackfillInit, OneScript

\* What a script alone does to its row.
LEMMA OneScriptMoves ==
    ASSUME BackfillSound, OneScript, NEW p \in Scripts, NEW r, script' = [script EXCEPT ![p] = r],
           UNCHANGED <<altered, tables, last>>, \A s \in Stories : checkpoint'[s].seal = checkpoint[s].seal,
           r # NoScript => /\ r.story \in Stories
                           /\ \A q \in Scripts \ {p} : script[q] # NoScript => script[q].story # r.story
                           /\ r.story = "MIG-003" => r.seal = checkpoint["MIG-003"].seal
                           /\ r.stage = "inspected" /\ r.story \in Prerequisites /\ HasSeal(r.story) =>
                                 /\ r.found \in {{}, checkpoint[r.story].seal}
                                 /\ r.found = {} /\ r.story \in Independent => ~Intact(r.story) \/ r.broke
    PROVE  OneScript'
<1>1. script'[p] = r /\ \A q \in Scripts \ {p} : script'[q] = script[q]
  BY DEF BackfillSound, BackfillTables
<1>2. \A s \in Stories : HasSeal(s)' = HasSeal(s) /\ Intact(s)' = Intact(s)
  BY DEF HasSeal, Intact
<1>3. \A q \in Scripts : script[q] # NoScript => script[q].story \in Stories
  BY RowOfStage
<1>4. "MIG-003" \in Stories
  BY DEF Stories
<1>5. ASSUME NEW q \in Scripts, script'[q] # NoScript
      PROVE  /\ script'[q].story = "MIG-003" => script'[q].seal = checkpoint'["MIG-003"].seal
             /\ FoundIsSeal(q)'
  <2>1. CASE q = p
    BY <1>1, <1>2, <1>4, <1>5, <2>1 DEF FoundIsSeal
  <2>2. CASE q # p
    <3>1. script'[q] = script[q] /\ script[q].story \in Stories /\ FoundIsSeal(q)
      BY <1>1, <1>3, <1>5, <2>2 DEF OneScript
    <3>2. QED
      BY <1>1, <1>2, <1>4, <1>5, <2>2, <3>1 DEF OneScript, FoundIsSeal
  <2>3. QED
    BY <2>1, <2>2
<1>6. \A u, q \in Scripts : script'[u] # NoScript /\ script'[q] # NoScript /\ script'[u].story = script'[q].story => u = q
  BY <1>1 DEF OneScript
<1>7. QED
  BY <1>5, <1>6 DEF OneScript

LEMMA OneScriptSteps ==
    ASSUME BackfillSound, OneScript, OneEach, BackfillNext \/ UNCHANGED backfillVars
    PROVE  OneScript'
<1>1. BackfillTables /\ "MIG-003" \in Stories
  BY DEF BackfillSound, Stories
<1>2. CASE UNCHANGED backfillVars
  BY <1>2 DEF backfillVars, OneScript, FoundIsSeal, HasSeal, Intact
<1>3. ASSUME NEW p \in Scripts, NEW s, NEW dependency, Begin(p, s, dependency)
      PROVE  OneScript'
  <2>1. s \in Stories /\ \A q \in Scripts : script[q].story # s
    BY <1>1, <1>3 DEF Begin, BackfillTables
  <2>2. PICK r : r = [story |-> s, stage |-> "read", seal |-> checkpoint[s].seal]
    OBVIOUS
  <2>3. script' = [script EXCEPT ![p] = r] /\ UNCHANGED <<checkpoint, altered, tables, last>>
    BY <1>3, <2>2 DEF Begin
  <2>4. r.story = s /\ r.stage # "inspected" /\ r.seal = checkpoint[s].seal
    BY <2>2
  <2>5. QED
    BY <2>1, <2>3, <2>4, OneScriptMoves
<1>4. ASSUME NEW p \in Scripts, MarkRunning(p) \/ Inspect(p) \/ Throw(p) \/ Poll(p) \/ InspectCoverage(p) \/ Die(p)
      PROVE  OneScript'
  <2>1. /\ UNCHANGED <<altered, tables, last>> /\ \A s \in Stories : checkpoint'[s].seal = checkpoint[s].seal
    BY <1>1, <1>4 DEF MarkRunning, Inspect, Throw, Poll, InspectCoverage, Die, BackfillTables, Checkpoints
  <2>2. script[p] # NoScript /\ script[p].story \in Stories
    BY <1>4, RowOfStage DEF MarkRunning, Inspect, Throw, Poll, InspectCoverage, Die, At, NoScript
  <2>3. \A q \in Scripts \ {p} : script[q] # NoScript => script[q].story # script[p].story
    BY <2>2 DEF OneScript
  <2>4. PICK r : r = script'[p]
    OBVIOUS
  <2>5. script' = [script EXCEPT ![p] = r]
    BY <1>1, <1>4, <2>4 DEF MarkRunning, Inspect, Throw, Poll, InspectCoverage, Die, Becomes, BackfillTables
  <2>6. r # NoScript => r.story = script[p].story /\ (r.story = "MIG-003" => r.seal = script[p].seal)
    <3>1. CASE MarkRunning(p)
      BY <1>1, <2>4, <3>1 DEF MarkRunning, Becomes, BackfillTables
    <3>2. CASE Inspect(p)
      BY <1>1, <2>4, <3>2 DEF Inspect, Becomes, BackfillTables
    <3>3. CASE Poll(p)
      <4>1. script[p] \in [story : Stories, stage : {"running"}, seal : Seals, polls : Nat] /\ script[p].story = "MIG-011"
        BY <3>3, RowOfStage DEF Poll
      <4>2. r.story = "MIG-011"
        BY <1>1, <2>4, <3>3, <4>1 DEF Poll, Becomes, BackfillTables
      <4>3. QED
        BY <4>1, <4>2
    <3>4. CASE InspectCoverage(p)
      <4>1. script[p].story = "MIG-011"
        BY <3>4, RowOfStage DEF InspectCoverage
      <4>2. r.story = "MIG-011"
        BY <1>1, <2>4, <3>4 DEF InspectCoverage, Becomes, BackfillTables
      <4>3. QED
        BY <4>1, <4>2
    <3>5. CASE Die(p)
      BY <1>1, <2>4, <3>5 DEF Die, Becomes, BackfillTables
    <3>6. CASE Throw(p)
      <4>1. At(p, "covering") => script[p].story = "MIG-011" /\ ~At(p, "running")
        BY RowOfStage DEF At
      <4>2. r.story = script[p].story /\ (At(p, "running") => r.seal = script[p].seal)
        BY <1>1, <2>4, <3>6 DEF Throw, Becomes, BackfillTables
      <4>3. QED
        BY <3>6, <4>1, <4>2 DEF Throw
    <3>7. QED
      BY <1>4, <3>1, <3>2, <3>3, <3>4, <3>5, <3>6
  <2>7. r # NoScript /\ r.stage = "inspected" /\ r.story \in Prerequisites /\ HasSeal(r.story) =>
           /\ r.found \in {{}, checkpoint[r.story].seal}
           /\ r.found = {} /\ r.story \in Independent => ~Intact(r.story) \/ r.broke
    <3>1. SUFFICES ASSUME r # NoScript, r.stage = "inspected", r.story \in Prerequisites, HasSeal(r.story)
                   PROVE  /\ r.found \in {{}, checkpoint[r.story].seal}
                          /\ r.found = {} /\ r.story \in Independent => ~Intact(r.story) \/ r.broke
      OBVIOUS
    <3>2. r.story # "MIG-011" /\ r.story = script[p].story
      BY <2>6, <3>1 DEF Prerequisites
    <3>3. Inspect(p) \/ Throw(p)
      BY <1>1, <1>4, <2>4, <3>1, <3>2, RowOfStage DEF MarkRunning, Poll, InspectCoverage, Die, Becomes, BackfillTables
    <3>4. CASE Throw(p)
      BY <1>1, <2>4, <3>4 DEF Throw, Becomes, BackfillTables, Unsealed
    <3>5. CASE Inspect(p)
      <4>1. r.found = IF Agrees(r.story) THEN Rows(r.story) ELSE {}
        BY <1>1, <2>4, <3>2, <3>5 DEF Inspect, Becomes, BackfillTables, Unsealed
      <4>2. Agrees(r.story) => Rows(r.story) = checkpoint[r.story].seal /\ Rows(r.story) # {}
        BY <3>1, SealedIsFound, InspectionIsPure
      <4>3. r.story \in Independent /\ Intact(r.story) => Agrees(r.story)
        BY <3>1, SealedIsFound
      <4>4. QED
        BY <4>1, <4>2, <4>3
    <3>6. QED
      BY <3>3, <3>4, <3>5
  <2>8. r # NoScript /\ r.story = "MIG-003" => r.seal = checkpoint["MIG-003"].seal
    BY <2>2, <2>6 DEF OneScript
  <2>9. QED
    BY <2>1, <2>2, <2>3, <2>5, <2>6, <2>7, <2>8, OneScriptMoves
<1>5. ASSUME NEW p \in Scripts, Report(p)
      PROVE  OneScript'
  <2>1. script[p] # NoScript /\ script[p].story \in Stories
    BY <1>5, RowOfStage DEF Report, At, NoScript
  <2>2. /\ script' = [script EXCEPT ![p] = NoScript] /\ UNCHANGED <<altered, tables, last>>
        /\ \A s \in Stories \ {script[p].story} : checkpoint'[s] = checkpoint[s]
    BY <1>1, <1>5, <2>1 DEF Report, Becomes, BackfillTables
  <2>3. script'[p] = NoScript /\ \A q \in Scripts \ {p} : script'[q] = script[q]
    BY <1>1, <2>2 DEF BackfillTables
  <2>4. \A q \in Scripts \ {p} : script[q] # NoScript => script[q].story # script[p].story /\ script[q].story \in Stories
    BY <2>1, RowOfStage DEF OneScript
  <2>5. \A q \in Scripts \ {p} : script[q] # NoScript => checkpoint'[script[q].story] = checkpoint[script[q].story]
    BY <2>2, <2>4
  <2>6. ASSUME NEW q \in Scripts, script'[q] # NoScript
        PROVE  (script'[q].story = "MIG-003" => script'[q].seal = checkpoint'["MIG-003"].seal) /\ FoundIsSeal(q)'
    <3>1. q # p /\ script'[q] = script[q] /\ checkpoint'[script[q].story] = checkpoint[script[q].story]
      BY <2>3, <2>5, <2>6
    <3>2. FoundIsSeal(q) /\ (script[q].story = "MIG-003" => script[q].seal = checkpoint["MIG-003"].seal)
      BY <2>6, <3>1 DEF OneScript
    <3>3. QED
      BY <2>2, <3>1, <3>2 DEF FoundIsSeal, HasSeal, Intact
  <2>7. \A u, q \in Scripts : script'[u] # NoScript /\ script'[q] # NoScript /\ script'[u].story = script'[q].story => u = q
    BY <2>3 DEF OneScript
  <2>8. QED
    BY <2>6, <2>7 DEF OneScript
<1>6. ASSUME NEW s, NEW row,
             \/ Grow(s) \/ MoveStock \/ WorkOnOrder \/ ReturnOrder \/ ChangeConfiguration(s)
             \/ Delete(row) \/ ReplaceImages(row)
      PROVE  OneScript'
  <2>1. UNCHANGED <<checkpoint, script>> /\ altered \subseteq altered'
    BY <1>6, ShopMoves
  <2>2. \A t \in Stories : Intact(t)' => Intact(t)
    <3>1. SUFFICES ASSUME NEW t \in Stories, Intact(t)'
                   PROVE  Intact(t)
      OBVIOUS
    <3>2. checkpoint[t].seal \subseteq 1..last[t]
      BY DEF BackfillSound, Pure
    <3>3. tables'[t] \intersect (1..last[t]) \subseteq tables[t]
      BY <1>6, ShopMoves
    <3>4. QED
      BY <2>1, <3>1, <3>2, <3>3 DEF Intact
  <2>3. \A q \in Scripts : script[q] # NoScript => script[q].story \in Stories
    BY RowOfStage
  <2>4. ASSUME NEW q \in Scripts, script[q] # NoScript
        PROVE  FoundIsSeal(q)'
    <3>1. FoundIsSeal(q) /\ script[q].story \in Stories
      BY <2>3, <2>4 DEF OneScript
    <3>2. QED
      BY <2>1, <2>2, <3>1 DEF FoundIsSeal, HasSeal
  <2>5. QED
    BY <2>1, <2>4 DEF OneScript
<1>7. CASE BackfillNext
  BY <1>3, <1>4, <1>5, <1>6, <1>7 DEF BackfillNext, ReconcileIdentity, ReconcileCatalog, ReconcileInventory, ReconcileMovements,
     ReconcileOrderPicking, ReconcileReturnPayment, ReconcileMarketplaceConfig, ReconcileAuditActivity, ReconcileBackfillClosure
<1>8. QED
  BY <1>2, <1>7

\* A seal is never exchanged for another, and it goes only when its baseline has
\* changed or the inspection of its own story threw, however much the tables grew
\* and whatever else failed or died, as long as two scripts of one story do not run
\* at once: the failure of the slower one would overwrite it.
THEOREM SealsSurviveGrowth == ASSUME OneEach PROVE FiscalSpec => GrowthKeepsSeal
<1> DEFINE Stays == \A s \in Prerequisites : HasSeal(s) /\ checkpoint'[s].seal # checkpoint[s].seal =>
                       /\ checkpoint'[s].seal = Unsealed
                       /\ s \in Independent => ~Intact(s) \/ Broke(s)
<1>1. FiscalInit => OneScript
  BY OneScriptBegins DEF FiscalInit
<1>2. BackfillSound /\ OneScript /\ [FiscalNext]_fiscalVars => OneScript'
  BY StepOfFiscal, OneScriptSteps
<1>3. BackfillSound /\ OneScript /\ [FiscalNext]_fiscalVars => [Stays]_backfillVars
  <2>1. SUFFICES ASSUME BackfillSound, OneScript, BackfillNext, NEW s \in Prerequisites, HasSeal(s),
                        checkpoint'[s].seal # checkpoint[s].seal
                 PROVE  checkpoint'[s].seal = Unsealed /\ (s \in Independent => ~Intact(s) \/ Broke(s))
    BY StepOfFiscal
  <2>2. BackfillTables /\ s \in Stories
    BY <2>1 DEF BackfillSound, Prerequisites
  <2>3. checkpoint' # checkpoint
    BY <2>1
  <2>4. PICK p \in Scripts : Report(p)
    <3>1. \A p \in Scripts : ~MarkRunning(p)
      BY <2>1, <2>2 DEF MarkRunning, BackfillTables, Checkpoints
    <3>2. QED
      BY <2>1, <2>3, <3>1 DEF BackfillNext, ReconcileIdentity, ReconcileCatalog, ReconcileInventory, ReconcileMovements,
         ReconcileOrderPicking, ReconcileReturnPayment, ReconcileMarketplaceConfig, ReconcileAuditActivity,
         ReconcileBackfillClosure, Begin, Inspect, Throw, Poll, InspectCoverage, Die, Grow, MoveStock, WorkOnOrder,
         ReturnOrder, Delete, ReplaceImages, ChangeConfiguration, Shop
  <2>5. script[p] # NoScript /\ At(p, "inspected")
        /\ script[p] \in [story : Stories, stage : {"inspected"}, seal : Seals, found : Seals, broke : BOOLEAN]
    BY <2>1, <2>4, RowOfStage DEF Report, At, NoScript
  <2>6. script[p].story = s
    BY <2>1, <2>2, <2>4, <2>5 DEF Report, BackfillTables
  <2>7. checkpoint'[s].seal = IF script[p].found # {} THEN script[p].found ELSE AfterFailure(p)
    BY <2>2, <2>4, <2>6 DEF Report, BackfillTables, Unsealed
  <2>8. FoundIsSeal(p) /\ (s = "MIG-003" => script[p].seal = checkpoint[s].seal)
    BY <2>1, <2>4, <2>5, <2>6 DEF OneScript
  <2>9. script[p].found = {} /\ (s \in Independent => ~Intact(s) \/ script[p].broke)
    BY <2>1, <2>5, <2>6, <2>7, <2>8 DEF FoundIsSeal, At
  <2>10. checkpoint'[s].seal = Unsealed
    BY <2>1, <2>6, <2>7, <2>8, <2>9 DEF AfterFailure
  <2>11. QED
    BY <2>5, <2>6, <2>9, <2>10 DEF Broke
<1>4. QED
  BY <1>1, <1>2, <1>3, BackfillIsSound, PTL DEF FiscalSpec, fiscalVars, GrowthKeepsSeal


-----------------------------------------------------------------------------
(* The inbox.                                                                 *)

Links == {NoLink} \union [number : Numbers, status : {"CONNECTED", "ACTION_REQUIRED"}]
TalkRows == [shop : Shops, status : TalkStatus, unread : Nat]
Routes == UNION {[known -> Shops] : known \in SUBSET Messages}
NextPosts == [stage : {"next"}, batch : Batches, left : SUBSET Messages, to : Routes]
WritePosts == [stage : {"write"}, batch : Batches, left : SUBSET Messages, to : Routes,
               message : Messages \ Spoiled, seen : SUBSET (Talks \X TalkStatus \X Nat)]
SendErrands == [stage : {"send"}, talk : Talks, provider : {"META", "LOCAL"}]
SaveErrands == [stage : {"save"}, talk : Talks, reply : Replies]
LocalErrands == [stage : {"local"}, talk : Talks, status : TalkStatus, unread : Nat]
ReplyRows == [meta : {"none", "accepted", "simulated"}, row : {"none", "SENT", "SIMULATED", "REPORTED"}]
InboxRows == [message : Messages \ Spoiled, shop : Shops, talk : Talks]

AttentionTables ==
    /\ linked \in [Shops -> Links] /\ linking \in [Shops -> Links]
    /\ talk \in [Talks -> {NoTalk} \union TalkRows]
    /\ inbox \subseteq InboxRows
    /\ post \in [Posts -> {NoPost} \union NextPosts \union WritePosts]
    /\ answered \subseteq Batches /\ dropped \subseteq Messages
    /\ clerk \in [Clerks -> {NoErrand} \union SendErrands \union SaveErrands \union LocalErrands]
    /\ reply \in [Replies -> ReplyRows]
    /\ unseen \in [Talks -> Nat] /\ late \in [Talks -> BOOLEAN]

Stored(m) == \E row \in inbox : row.message = m

\* A shop that had the number of a message connected, or has it in the environment.
Rightly(s, m) == <<s, Addressee[m]>> \in served \/ Legacy[Addressee[m]] = s

LinksHold == NumberHasOneShop /\ \A s \in Shops : IsConnected(s) => <<s, linked[s].number>> \in served

TalksHold == \A v \in Talks : talk[v] # NoTalk =>
                talk[v].unread = unseen[v] /\ (talk[v].status = "RESOLVED" => ~late[v])

RowsHold ==
    \A row \in inbox :
        /\ talk[row.talk] # NoTalk /\ talk[row.talk].shop = row.shop /\ Rightly(row.shop, row.message)
        /\ \A other \in inbox : other.message = row.message /\ other.shop = row.shop => other = row

\* What a webhook has still to do, and what it has done.
PostHolds(w) ==
    LET p == post[w]
    IN  p # NoPost =>
          /\ DOMAIN p.to \subseteq p.batch /\ p.left \subseteq DOMAIN p.to
          /\ \A m \in DOMAIN p.to : Rightly(p.to[m], m)
          /\ \A m \in DOMAIN p.to \ p.left : Stored(m) \/ (p.stage = "write" /\ m = p.message)
          /\ p.stage = "write" => p.message \in DOMAIN p.to /\ \A x \in p.seen : x[1] \in TalksOf(p.to[p.message])

ClerkHolds(k) == clerk[k] # NoErrand => talk[clerk[k].talk] # NoTalk

AttentionSound ==
    /\ AttentionTables /\ LinksHold /\ TalksHold /\ RowsHold /\ AnsweredIsStored
    /\ \A w \in Posts : PostHolds(w)
    /\ \A k \in Clerks : ClerkHolds(k)

\* A conversation is never deleted and stays with its shop.
TalksGoOn == \A v \in Talks : talk[v] # NoTalk => talk'[v] # NoTalk /\ talk'[v].shop = talk[v].shop

LEMMA AttentionBegins == AttentionInit => AttentionSound
<1> SUFFICES ASSUME AttentionInit
             PROVE  AttentionSound
  OBVIOUS
<1>1. AttentionTables
  BY ChoicesAssumption DEF AttentionInit, AttentionTables, Links, NoLink, ReplyRows, NoReply
<1>2. LinksHold
  <2>1. linked \in [Shops -> Links] /\ linked \in AtFirst
    BY <1>1 DEF AttentionTables, AttentionInit
  <2>2. NumberHasOneShop
    BY <2>1, ChoicesAssumption DEF NumberHasOneShop, Links, NoLink
  <2>3. ASSUME NEW s \in Shops, IsConnected(s)
        PROVE  <<s, linked[s].number>> \in served
    <3>1. linked[s].number \in Numbers /\ linked[s] = [number |-> linked[s].number, status |-> "CONNECTED"]
      BY <2>1, <2>3 DEF IsConnected, Links, NoLink
    <3>2. <<s, linked[s].number>> \in Shops \X Numbers
      BY <3>1
    <3>3. QED
      BY <3>1, <3>2 DEF AttentionInit
  <2>4. QED
    BY <2>2, <2>3 DEF LinksHold
<1>3. TalksHold /\ RowsHold /\ AnsweredIsStored
  BY DEF AttentionInit, TalksHold, RowsHold, AnsweredIsStored
<1>4. (\A w \in Posts : PostHolds(w)) /\ \A k \in Clerks : ClerkHolds(k)
  BY DEF AttentionInit, PostHolds, ClerkHolds
<1>5. QED
  BY <1>1, <1>2, <1>3, <1>4 DEF AttentionSound

\* What a step has to leave true, when rows and connections are only added.
LEMMA AttentionGoesOn ==
    ASSUME AttentionSound, AttentionTables', LinksHold', TalksHold', RowsHold', AnsweredIsStored',
           TalksGoOn, inbox \subseteq inbox', served \subseteq served',
           \A w \in Posts : post'[w] = post[w] \/ PostHolds(w)',
           \A k \in Clerks : clerk'[k] = clerk[k] \/ ClerkHolds(k)'
    PROVE  AttentionSound'
<1>1. AttentionTables
  BY DEF AttentionSound
<1>2. ASSUME NEW w \in Posts, post'[w] = post[w]
      PROVE  PostHolds(w)'
  <2>1. SUFFICES ASSUME post[w] # NoPost
                 PROVE  PostHolds(w)'
    BY <1>2 DEF PostHolds
  <2>2. PostHolds(w) /\ post[w] \in NextPosts \union WritePosts
    BY <1>1, <2>1 DEF AttentionSound, AttentionTables
  <2>3. \A s, m : Rightly(s, m) => Rightly(s, m)'
    BY DEF Rightly
  <2>4. \A m : Stored(m) => Stored(m)'
    BY DEF Stored
  <2>5. \A s : \A v \in TalksOf(s) : v \in TalksOf(s)'
    BY DEF TalksOf, TalksGoOn
  <2>6. QED
    BY <1>2, <2>1, <2>2, <2>3, <2>4, <2>5 DEF PostHolds
<1>3. ASSUME NEW k \in Clerks, clerk'[k] = clerk[k]
      PROVE  ClerkHolds(k)'
  <2>1. ClerkHolds(k)
    BY DEF AttentionSound
  <2>2. clerk[k] # NoErrand => clerk[k].talk \in Talks
    BY <1>1 DEF AttentionTables, SendErrands, SaveErrands, LocalErrands
  <2>3. QED
    BY <1>3, <2>1, <2>2 DEF ClerkHolds, TalksGoOn
<1>4. QED
  BY <1>2, <1>3 DEF AttentionSound

\* The same, when neither rows nor connections change.
LEMMA AttentionRests ==
    ASSUME AttentionSound, AttentionTables', UNCHANGED <<linked, talk, inbox, answered, unseen, late, dropped, served>>,
           \A w \in Posts : post'[w] = post[w] \/ PostHolds(w)',
           \A k \in Clerks : clerk'[k] = clerk[k] \/ ClerkHolds(k)'
    PROVE  AttentionSound'
<1>1. LinksHold' /\ TalksHold' /\ RowsHold' /\ AnsweredIsStored'
  BY DEF AttentionSound, LinksHold, TalksHold, RowsHold, AnsweredIsStored, NumberHasOneShop, IsConnected, Rightly
<1>2. TalksGoOn
  BY DEF TalksGoOn
<1>3. QED
  BY <1>1, <1>2, AttentionGoesOn

LEMMA LinkSteps ==
    ASSUME AttentionSound, NEW s \in Shops, LinkWrite(s) \/ Unlink(s) \/ \E n \in Numbers : LinkCheck(s, n)
    PROVE  AttentionSound'
<1>1. AttentionTables /\ LinksHold /\ NumberHasOneShop
  BY DEF AttentionSound, LinksHold
<1>2. CASE \E n \in Numbers : LinkCheck(s, n)
  <2>1. UNCHANGED <<linked, talk, inbox, post, answered, clerk, reply, unseen, late, dropped, served>>
        /\ linking' \in [Shops -> Links]
    BY <1>1, <1>2 DEF LinkCheck, AttentionTables, Links
  <2>2. AttentionTables'
    BY <1>1, <2>1 DEF AttentionTables
  <2>3. QED
    BY <2>1, <2>2, AttentionRests
<1>3. CASE Unlink(s)
  <2>1. UNCHANGED <<linking, talk, inbox, post, answered, clerk, reply, unseen, late, dropped, served>>
        /\ linked' = [linked EXCEPT ![s] = NoLink]
    BY <1>3 DEF Unlink
  <2>2. linked' \in [Shops -> Links] /\ linked'[s] = NoLink /\ \A u \in Shops \ {s} : linked'[u] = linked[u]
    BY <1>1, <2>1 DEF AttentionTables, Links
  <2>3. AttentionTables'
    BY <1>1, <2>1, <2>2 DEF AttentionTables
  <2>4. NumberHasOneShop'
    BY <1>1, <2>2, ChoicesAssumption DEF NumberHasOneShop, AttentionTables, Links, NoLink
  <2>5. LinksHold'
    BY <1>1, <2>1, <2>2, <2>4 DEF LinksHold, IsConnected, NoLink
  <2>6. TalksHold' /\ RowsHold' /\ AnsweredIsStored' /\ TalksGoOn
    BY <2>1 DEF AttentionSound, TalksHold, RowsHold, AnsweredIsStored, Rightly, TalksGoOn
  <2>7. QED
    BY <2>1, <2>3, <2>5, <2>6, AttentionGoesOn
<1>4. CASE LinkWrite(s)
  <2>1. UNCHANGED <<talk, inbox, post, answered, clerk, reply, unseen, late, dropped>>
        /\ linking' \in [Shops -> Links] /\ linking[s] \in Links \ {NoLink}
    BY <1>1, <1>4 DEF LinkWrite, AttentionTables, Links
  <2>2. CASE Taken(s, linking[s].number)
    <3>1. UNCHANGED <<linked, served>>
      BY <1>4, <2>2 DEF LinkWrite
    <3>2. AttentionTables'
      BY <1>1, <2>1, <3>1 DEF AttentionTables
    <3>3. QED
      BY <2>1, <3>1, <3>2, AttentionRests
  <2>3. CASE ~Taken(s, linking[s].number)
    <3>1. /\ linked' = [linked EXCEPT ![s] = linking[s]]
          /\ served' = IF linking[s].status = "CONNECTED" THEN served \union {<<s, linking[s].number>>} ELSE served
      BY <1>4, <2>3 DEF LinkWrite
    <3>2. linked' \in [Shops -> Links] /\ linked'[s] = linking[s] /\ \A u \in Shops \ {s} : linked'[u] = linked[u]
      BY <1>1, <2>1, <3>1 DEF AttentionTables
    <3>3. AttentionTables'
      BY <1>1, <2>1, <3>2 DEF AttentionTables
    <3>4. NumberHasOneShop'
      <4>1. \A u \in Shops \ {s} : linked[u].number # linking[s].number
        BY <2>3 DEF Taken, Takes
      <4>2. QED
        BY <1>1, <3>2, <4>1 DEF NumberHasOneShop
    <3>5. LinksHold'
      BY <1>1, <3>1, <3>2, <3>4 DEF LinksHold, IsConnected
    <3>6. TalksHold' /\ RowsHold' /\ AnsweredIsStored' /\ TalksGoOn
      BY <2>1, <3>1 DEF AttentionSound, TalksHold, RowsHold, AnsweredIsStored, Rightly, TalksGoOn
    <3>7. QED
      BY <2>1, <3>1, <3>3, <3>5, <3>6, AttentionGoesOn
  <2>4. QED
    BY <2>2, <2>3
<1>5. QED
  BY <1>2, <1>3, <1>4

LEMMA PostOfStage ==
    ASSUME AttentionSound, NEW w \in Posts
    PROVE  /\ post[w].stage = "next" => post[w] \in NextPosts /\ post[w] # NoPost
           /\ post[w].stage = "write" => post[w] \in WritePosts /\ post[w] # NoPost
  BY DEF AttentionSound, AttentionTables, NoPost, NextPosts, WritePosts

\* A webhook goes on and changes nothing else.
LEMMA PostMoves ==
    ASSUME AttentionSound, NEW w \in Posts, NEW p \in {NoPost} \union NextPosts \union WritePosts,
           post' = [post EXCEPT ![w] = p],
           UNCHANGED <<linked, linking, talk, inbox, answered, clerk, reply, unseen, late, dropped, served>>,
           p # NoPost => PostHolds(w)'
    PROVE  AttentionSound'
<1>1. AttentionTables
  BY DEF AttentionSound
<1>2. post'[w] = p /\ \A u \in Posts \ {w} : post'[u] = post[u]
  BY <1>1 DEF AttentionTables
<1>3. AttentionTables'
  BY <1>1 DEF AttentionTables
<1>4. PostHolds(w)'
  BY <1>2 DEF PostHolds
<1>5. QED
  BY <1>2, <1>3, <1>4, AttentionRests

LEMMA PostArrivesStep ==
    ASSUME AttentionSound, NEW w \in Posts, NEW b \in Batches, PostArrives(w, b)
    PROVE  AttentionSound'
<1>1. AttentionTables /\ LinksHold /\ b \subseteq Messages
  BY AttentionAssumption DEF AttentionSound
<1>2. PICK known : known = {m \in b : Destination(Addressee[m]) # {}}
  OBVIOUS
<1>3. PICK to : to = [m \in known |-> CHOOSE s \in Destination(Addressee[m]) : TRUE]
  OBVIOUS
<1>4. PICK p : p = [stage |-> "next", batch |-> b, left |-> known, to |-> to]
  OBVIOUS
<1>5. post' = [post EXCEPT ![w] = p]
      /\ UNCHANGED <<linked, linking, talk, inbox, answered, clerk, reply, unseen, late, dropped, served>>
  BY <1>2, <1>3, <1>4 DEF PostArrives, Posted
<1>6. \A m \in known : to[m] \in Destination(Addressee[m])
  BY <1>2, <1>3
<1>7. \A m \in known : Addressee[m] \in Numbers /\ to[m] \in Shops /\ Rightly(to[m], m)
  <2>1. SUFFICES ASSUME NEW m \in known
                 PROVE  Addressee[m] \in Numbers /\ to[m] \in Shops /\ Rightly(to[m], m)
    OBVIOUS
  <2>2. m \in Messages /\ Addressee[m] \in Numbers /\ Legacy[Addressee[m]] \in Shops \union {NoShop}
    BY <1>1, <1>2, AttentionAssumption
  <2>3. CASE ShopsOf(Addressee[m]) # {}
    <3>1. to[m] \in Shops /\ linked[to[m]].number = Addressee[m] /\ IsConnected(to[m])
      BY <1>6, <2>3 DEF Destination, ShopsOf
    <3>2. QED
      BY <1>1, <2>2, <3>1 DEF LinksHold, Rightly
  <2>4. CASE ShopsOf(Addressee[m]) = {}
    BY <1>6, <2>2, <2>4 DEF Destination, Rightly
  <2>5. QED
    BY <2>3, <2>4
<1>8. to \in Routes /\ DOMAIN to = known
  <2>1. known \in SUBSET Messages
    BY <1>1, <1>2
  <2>2. to \in [known -> Shops]
    BY <1>3, <1>7
  <2>3. QED
    BY <2>1, <2>2 DEF Routes
<1>9. p \in NextPosts
  BY <1>1, <1>2, <1>4, <1>8 DEF NextPosts
<1>10. post'[w] = p
  BY <1>1, <1>5 DEF AttentionTables
<1>11. PostHolds(w)'
  <2>1. \A m \in known : Rightly(to[m], m)'
    BY <1>5, <1>7 DEF Rightly
  <2>2. QED
    BY <1>2, <1>4, <1>8, <1>10, <2>1 DEF PostHolds
<1>12. QED
  BY <1>5, <1>9, <1>11, PostMoves

LEMMA PostReadsStep ==
    ASSUME AttentionSound, NEW w \in Posts, PostReads(w)
    PROVE  AttentionSound'
<1>1. AttentionTables /\ PostHolds(w) /\ post[w] \in NextPosts /\ post[w] # NoPost
  BY PostOfStage DEF AttentionSound, PostReads
<1>2. UNCHANGED <<linked, linking, talk, inbox, answered, clerk, reply, unseen, late, dropped, served>>
  BY DEF PostReads
<1>3. PICK m \in post[w].left :
          \/ m \in Spoiled /\ Posted(w, NoPost)
          \/ m \notin Spoiled /\ HasMessage(post[w].to[m], m) /\ Posted(w, [post[w] EXCEPT !.left = @ \ {m}])
          \/ /\ m \notin Spoiled /\ ~HasMessage(post[w].to[m], m)
             /\ \E found \in IF TalksOf(post[w].to[m]) = {} THEN {{}} ELSE {{v} : v \in TalksOf(post[w].to[m])} :
                   Posted(w, [stage |-> "write", batch |-> post[w].batch, left |-> post[w].left \ {m},
                              to |-> post[w].to, message |-> m,
                              seen |-> {<<v, talk[v].status, talk[v].unread>> : v \in found}])
  BY DEF PostReads
<1>4. m \in DOMAIN post[w].to /\ m \in Messages /\ post[w].left \subseteq Messages /\ post[w].stage = "next"
  BY <1>1 DEF PostHolds, NextPosts
<1>5. CASE m \in Spoiled /\ Posted(w, NoPost)
  BY <1>2, <1>5, PostMoves DEF Posted
<1>6. CASE m \notin Spoiled /\ HasMessage(post[w].to[m], m) /\ Posted(w, [post[w] EXCEPT !.left = @ \ {m}])
  <2>1. PICK p : p = [post[w] EXCEPT !.left = @ \ {m}]
    OBVIOUS
  <2>2. /\ p \in NextPosts /\ p.batch = post[w].batch /\ p.to = post[w].to /\ p.left = post[w].left \ {m}
        /\ p.stage = "next"
    BY <1>1, <1>4, <2>1 DEF NextPosts
  <2>3. post' = [post EXCEPT ![w] = p] /\ post'[w] = p
    BY <1>1, <1>6, <2>1 DEF Posted, AttentionTables
  <2>4. Stored(m)
    BY <1>6 DEF Stored, HasMessage
  <2>5. PostHolds(w)'
    BY <1>1, <1>2, <1>4, <2>2, <2>3, <2>4 DEF PostHolds, Rightly, Stored
  <2>6. QED
    BY <1>2, <2>2, <2>3, <2>5, PostMoves
<1>7. CASE /\ m \notin Spoiled /\ ~HasMessage(post[w].to[m], m)
           /\ \E found \in IF TalksOf(post[w].to[m]) = {} THEN {{}} ELSE {{v} : v \in TalksOf(post[w].to[m])} :
                   Posted(w, [stage |-> "write", batch |-> post[w].batch, left |-> post[w].left \ {m},
                              to |-> post[w].to, message |-> m,
                              seen |-> {<<v, talk[v].status, talk[v].unread>> : v \in found}])
  <2>1. PICK found \in SUBSET TalksOf(post[w].to[m]) :
                   Posted(w, [stage |-> "write", batch |-> post[w].batch, left |-> post[w].left \ {m},
                              to |-> post[w].to, message |-> m,
                              seen |-> {<<v, talk[v].status, talk[v].unread>> : v \in found}])
    BY <1>7
  <2>2. PICK noted : noted = {<<v, talk[v].status, talk[v].unread>> : v \in found}
    OBVIOUS
  <2>3. \A v \in found : v \in Talks /\ talk[v] \in TalkRows
    BY <1>1, <2>1 DEF TalksOf, AttentionTables
  <2>4. \A v \in found : <<v, talk[v].status, talk[v].unread>> \in Talks \X TalkStatus \X Nat
    BY <2>3 DEF TalkRows
  <2>5. noted \in SUBSET (Talks \X TalkStatus \X Nat)
    BY <2>2, <2>4
  <2>6. \A x \in noted : x[1] \in TalksOf(post[w].to[m])
    BY <2>1, <2>2
  <2>7. PICK p : p = [stage |-> "write", batch |-> post[w].batch, left |-> post[w].left \ {m},
                      to |-> post[w].to, message |-> m, seen |-> noted]
    OBVIOUS
  <2>8. p \in WritePosts
    <3>1. post[w].batch \in Batches /\ post[w].to \in Routes /\ post[w].left \ {m} \in SUBSET Messages /\ m \in Messages \ Spoiled
      BY <1>1, <1>4, <1>7 DEF NextPosts
    <3>2. QED
      BY <2>5, <2>7, <3>1 DEF WritePosts
  <2>9. post' = [post EXCEPT ![w] = p] /\ post'[w] = p
    BY <1>1, <2>1, <2>2, <2>7 DEF Posted, AttentionTables
  <2>10. /\ p.stage = "write" /\ p.message = m /\ p.to = post[w].to /\ p.batch = post[w].batch
         /\ p.left = post[w].left \ {m} /\ p.seen = noted
    BY <2>7
  <2>11. PostHolds(w)'
    <3>1. \A x \in noted : x[1] \in {v \in Talks : talk'[v] # NoTalk /\ talk'[v].shop = post[w].to[m]}
      BY <1>2, <2>6 DEF TalksOf
    <3>2. QED
      BY <1>1, <1>2, <1>4, <2>9, <2>10, <3>1 DEF PostHolds, Rightly, Stored, TalksOf
  <2>12. QED
    BY <1>2, <2>8, <2>9, <2>11, PostMoves
<1>8. QED
  BY <1>3, <1>5, <1>6, <1>7

\* What a row is when its status and its counter are written.
Rewritten(t, state, n) == [t EXCEPT !.status = state, !.unread = n]

LEMMA TalkWritten ==
    ASSUME NEW t \in TalkRows, NEW state \in TalkStatus, NEW n \in Nat
    PROVE  \A row : row = Rewritten(t, state, n) =>
              row \in TalkRows /\ row.shop = t.shop /\ row.status = state /\ row.unread = n /\ row # NoTalk
<1> SUFFICES ASSUME NEW row, row = Rewritten(t, state, n)
             PROVE  row \in TalkRows /\ row.shop = t.shop /\ row.status = state /\ row.unread = n /\ row # NoTalk
  OBVIOUS
<1>1. PICK half : half = [t EXCEPT !.status = state]
  OBVIOUS
<1>2. half \in TalkRows /\ half.shop = t.shop /\ half.status = state
  BY <1>1 DEF TalkRows
<1>3. row = [half EXCEPT !.unread = n]
  BY <1>1 DEF Rewritten
<1>4. row \in TalkRows /\ row.shop = t.shop /\ row.status = state /\ row.unread = n
  BY <1>2, <1>3 DEF TalkRows
<1>5. row # NoTalk
  BY <1>4 DEF NoTalk, TalkStatus
<1>6. QED
  BY <1>4, <1>5

\* A message is stored in a conversation, or one is begun with it: what the
\* conversations say stays right.
LEMMA MessageIsStored ==
    ASSUME AttentionTables, TalksHold, NEW v \in Talks, talk[v] # NoTalk, NEW status \in TalkStatus, NEW unread,
           MessageStored(v, status, unread)
    PROVE  /\ talk' \in [Talks -> {NoTalk} \union TalkRows] /\ unseen' \in [Talks -> Nat] /\ late' \in [Talks -> BOOLEAN]
           /\ TalksHold' /\ TalksGoOn
<1>1. /\ talk' = [talk EXCEPT ![v].status = Reopened(v, status), ![v].unread = talk[v].unread + 1]
      /\ unseen' = [unseen EXCEPT ![v] = @ + 1] /\ late' = [late EXCEPT ![v] = TRUE]
  BY DEF MessageStored, Counted
<1>2. talk[v] \in TalkRows /\ unseen[v] \in Nat
  BY DEF AttentionTables
<1>3. PICK next : next = Reopened(v, status)
  OBVIOUS
<1>4. next \in TalkStatus
  BY <1>3 DEF Reopened, TalkStatus
<1>14. next # "RESOLVED"
  BY <1>3 DEF Reopened
<1>5. PICK more \in Nat : more = talk[v].unread + 1
  BY <1>2 DEF TalkRows
<1>6. PICK row : row = Rewritten(talk[v], next, more)
  OBVIOUS
<1>7. row \in TalkRows /\ row.shop = talk[v].shop /\ row.status = next /\ row.unread = more /\ row # NoTalk
  <2>1. talk[v] \in TalkRows
    BY <1>2
  <2>2. QED
    BY <1>4, <1>6, <2>1, TalkWritten
<1>8. talk' = [talk EXCEPT ![v] = row]
  BY <1>1, <1>3, <1>5, <1>6 DEF AttentionTables, Rewritten
<1>9. talk' \in [Talks -> {NoTalk} \union TalkRows] /\ talk'[v] = row /\ \A u \in Talks \ {v} : talk'[u] = talk[u]
  BY <1>7, <1>8 DEF AttentionTables
<1>10. /\ unseen' \in [Talks -> Nat] /\ unseen'[v] = unseen[v] + 1 /\ \A u \in Talks \ {v} : unseen'[u] = unseen[u]
       /\ late' \in [Talks -> BOOLEAN] /\ \A u \in Talks \ {v} : late'[u] = late[u]
  BY <1>1, <1>2 DEF AttentionTables
<1>11. TalksHold'
  BY <1>5, <1>7, <1>9, <1>10, <1>14 DEF TalksHold
<1>12. TalksGoOn
  BY <1>7, <1>9 DEF TalksGoOn
<1>13. QED
  BY <1>9, <1>10, <1>11, <1>12

LEMMA TalkIsBegun ==
    ASSUME AttentionTables, TalksHold, NEW v \in Talks, NEW s \in Shops, NEW status \in {"PENDING", "ATTENDING"},
           NEW messages \in {0, 1}, TalkBegun(v, s, status, messages)
    PROVE  /\ talk' \in [Talks -> {NoTalk} \union TalkRows] /\ unseen' \in [Talks -> Nat] /\ late' \in [Talks -> BOOLEAN]
           /\ TalksHold' /\ TalksGoOn /\ talk'[v] # NoTalk /\ talk'[v].shop = s
<1>1. /\ talk[v] = NoTalk /\ talk' = [talk EXCEPT ![v] = [shop |-> s, status |-> status, unread |-> messages]]
      /\ unseen' = [unseen EXCEPT ![v] = messages] /\ late' = [late EXCEPT ![v] = messages > 0]
  BY DEF TalkBegun
<1>2. PICK row : row = [shop |-> s, status |-> status, unread |-> messages]
  OBVIOUS
<1>3. row \in TalkRows /\ row.shop = s /\ row.status # "RESOLVED" /\ row.unread = messages /\ row # NoTalk
  BY <1>2 DEF TalkRows, TalkStatus, NoTalk
<1>4. talk' \in [Talks -> {NoTalk} \union TalkRows] /\ talk'[v] = row /\ \A u \in Talks \ {v} : talk'[u] = talk[u]
  BY <1>1, <1>2, <1>3 DEF AttentionTables
<1>5. /\ unseen' \in [Talks -> Nat] /\ unseen'[v] = messages /\ \A u \in Talks \ {v} : unseen'[u] = unseen[u]
      /\ late' \in [Talks -> BOOLEAN] /\ \A u \in Talks \ {v} : late'[u] = late[u]
  BY <1>1 DEF AttentionTables
<1>6. TalksHold' /\ TalksGoOn
  BY <1>1, <1>3, <1>4, <1>5 DEF TalksHold, TalksGoOn
<1>7. QED
  BY <1>3, <1>4, <1>5, <1>6

\* Rows stay what they are while their conversations go on.
LEMMA RowsGoOn ==
    ASSUME AttentionTables, RowsHold, TalksGoOn, UNCHANGED <<inbox, served>>
    PROVE  RowsHold'
<1>1. \A row \in inbox : row.talk \in Talks
  BY DEF AttentionTables, InboxRows
<1>2. QED
  BY <1>1 DEF RowsHold, TalksGoOn, Rightly

LEMMA PostWritesStep ==
    ASSUME AttentionSound, NEW w \in Posts, PostWrites(w)
    PROVE  AttentionSound'
<1>1. AttentionTables /\ TalksHold /\ RowsHold /\ PostHolds(w) /\ post[w] \in WritePosts /\ post[w] # NoPost
  BY PostOfStage DEF AttentionSound, PostWrites
<1>2. UNCHANGED <<linked, linking, answered, clerk, reply, dropped, served>>
  BY DEF PostWrites
<1>3. PICK m, s : m = post[w].message /\ s = post[w].to[m]
  OBVIOUS
<1>4. post[w].stage = "write" /\ m \in Messages \ Spoiled /\ m \in DOMAIN post[w].to /\ s \in Shops /\ Rightly(s, m)
  BY <1>1, <1>3 DEF PostHolds, WritePosts, Routes
<1>5. CASE Duplicate(s, m)
  <2>1. Posted(w, NoPost) /\ UNCHANGED <<talk, inbox, unseen, late>>
    BY <1>3, <1>5 DEF PostWrites
  <2>2. QED
    BY <1>2, <2>1, PostMoves DEF Posted
<1>6. CASE ~Duplicate(s, m)
  <2>1. PICK v \in Talks :
            /\ \/ \E seenNow \in post[w].seen : seenNow[1] = v /\ MessageStored(v, seenNow[2], seenNow[3])
               \/ post[w].seen = {} /\ TalkBegun(v, s, "PENDING", 1)
            /\ inbox' = inbox \union {[message |-> m, shop |-> s, talk |-> v]}
            /\ Posted(w, [stage |-> "next", batch |-> post[w].batch, left |-> post[w].left, to |-> post[w].to])
    BY <1>3, <1>6 DEF PostWrites
  <2>2. /\ talk' \in [Talks -> {NoTalk} \union TalkRows] /\ unseen' \in [Talks -> Nat] /\ late' \in [Talks -> BOOLEAN]
        /\ TalksHold' /\ TalksGoOn /\ talk'[v] # NoTalk /\ talk'[v].shop = s
    <3>1. CASE post[w].seen = {} /\ TalkBegun(v, s, "PENDING", 1)
      BY <1>1, <1>4, <3>1, TalkIsBegun
    <3>2. CASE \E seenNow \in post[w].seen : seenNow[1] = v /\ MessageStored(v, seenNow[2], seenNow[3])
      <4>1. PICK x \in post[w].seen : x[1] = v /\ MessageStored(v, x[2], x[3])
        BY <3>2
      <4>2. x[2] \in TalkStatus
        BY <1>1 DEF WritePosts
      <4>3. talk[v] # NoTalk /\ talk[v].shop = s
        BY <1>1, <1>3, <1>4, <4>1 DEF PostHolds, TalksOf
      <4>4. QED
        BY <1>1, <4>1, <4>2, <4>3, MessageIsStored DEF TalksGoOn
    <3>3. QED
      BY <2>1, <3>1, <3>2
  <2>3. PICK new : new = [message |-> m, shop |-> s, talk |-> v]
    OBVIOUS
  <2>4. new \in InboxRows /\ new.message = m /\ new.shop = s /\ new.talk = v
    BY <1>4, <2>3 DEF InboxRows
  <2>5. inbox' = inbox \union {new}
    BY <2>1, <2>3
  <2>6. PICK p : p = [stage |-> "next", batch |-> post[w].batch, left |-> post[w].left, to |-> post[w].to]
    OBVIOUS
  <2>7. /\ p \in NextPosts /\ p.stage = "next" /\ p.batch = post[w].batch /\ p.left = post[w].left /\ p.to = post[w].to
    BY <1>1, <2>6 DEF NextPosts, WritePosts
  <2>8. post' = [post EXCEPT ![w] = p]
    BY <2>1, <2>6 DEF Posted
  <2>9. post' \in [Posts -> {NoPost} \union NextPosts \union WritePosts] /\ post'[w] = p /\ \A u \in Posts \ {w} : post'[u] = post[u]
    BY <1>1, <2>7, <2>8 DEF AttentionTables
  <2>10. AttentionTables'
    BY <1>1, <1>2, <2>2, <2>4, <2>5, <2>9 DEF AttentionTables
  <2>11. RowsHold'
    <3>1. \A row \in inbox : row.talk \in Talks /\ ~(row.message = m /\ row.shop = s)
      BY <1>1, <1>6 DEF AttentionTables, InboxRows, Duplicate, HasMessage
    <3>2. \A row \in inbox : talk'[row.talk] # NoTalk /\ talk'[row.talk].shop = row.shop
      BY <1>1, <2>2, <3>1 DEF RowsHold, TalksGoOn
    <3>3. \A x, y : Rightly(x, y)' <=> Rightly(x, y)
      BY <1>2 DEF Rightly
    <3>4. QED
      BY <1>1, <1>4, <2>2, <2>4, <2>5, <3>1, <3>2, <3>3 DEF RowsHold
  <2>12. Stored(m)'
    BY <2>4, <2>5 DEF Stored
  <2>13. PostHolds(w)'
    <3>1. \A u \in DOMAIN p.to : Rightly(p.to[u], u)'
      BY <1>1, <1>2, <2>7 DEF PostHolds, Rightly
    <3>2. \A u : Stored(u) => Stored(u)'
      BY <2>5 DEF Stored
    <3>3. \A u \in DOMAIN p.to \ p.left : Stored(u)'
      BY <1>1, <1>3, <2>7, <2>12, <3>2 DEF PostHolds
    <3>4. QED
      BY <1>1, <2>7, <2>9, <3>1, <3>3 DEF PostHolds
  <2>14. LinksHold' /\ AnsweredIsStored'
    BY <1>2, <2>5 DEF AttentionSound, LinksHold, NumberHasOneShop, IsConnected, AnsweredIsStored
  <2>15. QED
    BY <1>2, <2>2, <2>5, <2>9, <2>10, <2>11, <2>13, <2>14, AttentionGoesOn
<1>7. QED
  BY <1>5, <1>6

LEMMA PostEnds ==
    ASSUME AttentionSound, NEW w \in Posts, PostAnswers(w) \/ PostDies(w)
    PROVE  AttentionSound'
<1>1. AttentionTables /\ PostHolds(w) /\ AnsweredIsStored
  BY DEF AttentionSound
<1>2. CASE PostDies(w)
  BY <1>2, PostMoves DEF PostDies, Posted
<1>3. CASE PostAnswers(w)
  <2>1. /\ post[w] \in NextPosts /\ post[w] # NoPost /\ post[w].stage = "next" /\ post[w].left = {}
        /\ answered' = answered \union {post[w].batch} /\ dropped' = dropped \union (post[w].batch \ DOMAIN post[w].to)
        /\ post' = [post EXCEPT ![w] = NoPost]
        /\ UNCHANGED <<linked, linking, talk, inbox, clerk, reply, unseen, late, served>>
    BY <1>3, PostOfStage DEF PostAnswers, AllHandled, Posted
  <2>2. post[w].batch \in Batches /\ post[w].batch \subseteq Messages
    BY <2>1, AttentionAssumption DEF NextPosts
  <2>3. post'[w] = NoPost /\ (\A u \in Posts \ {w} : post'[u] = post[u]) /\ PostHolds(w)'
    BY <1>1, <2>1 DEF AttentionTables, PostHolds
  <2>4. AttentionTables'
    BY <1>1, <2>1, <2>2 DEF AttentionTables
  <2>5. \A m \in DOMAIN post[w].to : Stored(m)
    BY <1>1, <2>1 DEF PostHolds
  <2>6. AnsweredIsStored'
    BY <1>1, <2>1, <2>5 DEF AnsweredIsStored, Stored
  <2>7. LinksHold' /\ TalksHold' /\ RowsHold' /\ TalksGoOn
    BY <2>1 DEF AttentionSound, LinksHold, NumberHasOneShop, IsConnected, TalksHold, RowsHold, Rightly, TalksGoOn
  <2>8. QED
    BY <2>1, <2>3, <2>4, <2>6, <2>7, AttentionGoesOn
<1>4. QED
  BY <1>2, <1>3

\* A conversation is marked as read, or given another status.
LEMMA TalkIsSet ==
    ASSUME AttentionTables, TalksHold, NEW v \in Talks, talk[v] # NoTalk, NEW state \in TalkStatus,
           NEW n \in Nat, NEW m \in Nat, NEW quiet \in BOOLEAN,
           talk' = [talk EXCEPT ![v] = Rewritten(talk[v], state, n)],
           unseen' = [unseen EXCEPT ![v] = m], late' = [late EXCEPT ![v] = quiet],
           n = m, state = "RESOLVED" => ~quiet
    PROVE  /\ talk' \in [Talks -> {NoTalk} \union TalkRows] /\ unseen' \in [Talks -> Nat] /\ late' \in [Talks -> BOOLEAN]
           /\ TalksHold' /\ TalksGoOn
<1>1. talk[v] \in TalkRows
  BY DEF AttentionTables
<1>2. PICK row : row = Rewritten(talk[v], state, n)
  OBVIOUS
<1>3. row \in TalkRows /\ row.shop = talk[v].shop /\ row.status = state /\ row.unread = n /\ row # NoTalk
  BY <1>1, <1>2, TalkWritten
<1>4. talk' \in [Talks -> {NoTalk} \union TalkRows] /\ talk'[v] = row /\ \A u \in Talks \ {v} : talk'[u] = talk[u]
  BY <1>2, <1>3 DEF AttentionTables
<1>5. /\ unseen' \in [Talks -> Nat] /\ unseen'[v] = m /\ \A u \in Talks \ {v} : unseen'[u] = unseen[u]
      /\ late' \in [Talks -> BOOLEAN] /\ late'[v] = quiet /\ \A u \in Talks \ {v} : late'[u] = late[u]
  BY DEF AttentionTables
<1>6. TalksHold' /\ TalksGoOn
  BY <1>3, <1>4, <1>5 DEF TalksHold, TalksGoOn
<1>7. QED
  BY <1>4, <1>5, <1>6

\* The requests about conversations and replies, whose rows only go on.
LEMMA TalksChange ==
    ASSUME AttentionSound, UNCHANGED <<linked, linking, inbox, post, answered, dropped, served>>,
           talk' \in [Talks -> {NoTalk} \union TalkRows], unseen' \in [Talks -> Nat], late' \in [Talks -> BOOLEAN],
           TalksHold', TalksGoOn, reply' \in [Replies -> ReplyRows],
           clerk' \in [Clerks -> {NoErrand} \union SendErrands \union SaveErrands \union LocalErrands],
           \A k \in Clerks : clerk'[k] = clerk[k] \/ ClerkHolds(k)'
    PROVE  AttentionSound'
<1>1. AttentionTables
  BY DEF AttentionSound
<1>2. AttentionTables'
  BY <1>1 DEF AttentionTables
<1>3. RowsHold'
  BY <1>1, RowsGoOn DEF AttentionSound
<1>4. LinksHold' /\ AnsweredIsStored'
  BY DEF AttentionSound, LinksHold, NumberHasOneShop, IsConnected, AnsweredIsStored
<1>5. QED
  BY <1>2, <1>3, <1>4, AttentionGoesOn

\* What a clerk's request goes on with.
LEMMA ErrandMoves ==
    ASSUME AttentionTables, NEW k \in Clerks, NEW c, c = NoErrand \/ talk[c.talk] # NoTalk,
           c \in {NoErrand} \union SendErrands \union SaveErrands \union LocalErrands,
           clerk' = [clerk EXCEPT ![k] = c], TalksGoOn, c # NoErrand => c.talk \in Talks
    PROVE  /\ clerk' \in [Clerks -> {NoErrand} \union SendErrands \union SaveErrands \union LocalErrands]
           /\ \A q \in Clerks : clerk'[q] = clerk[q] \/ ClerkHolds(q)'
<1>1. clerk'[k] = c /\ \A q \in Clerks \ {k} : clerk'[q] = clerk[q]
  BY DEF AttentionTables
<1>2. ClerkHolds(k)'
  BY <1>1 DEF ClerkHolds, TalksGoOn
<1>3. QED
  BY <1>1, <1>2 DEF AttentionTables

LEMMA ErrandOfStage ==
    ASSUME AttentionSound, NEW k \in Clerks
    PROVE  /\ clerk[k].stage = "send" => clerk[k] \in SendErrands
           /\ clerk[k].stage = "save" => clerk[k] \in SaveErrands
           /\ clerk[k].stage = "local" => clerk[k] \in LocalErrands
           /\ clerk[k].stage \in {"send", "save", "local"} => clerk[k].talk \in Talks /\ talk[clerk[k].talk] # NoTalk
<1>1. ClerkHolds(k) /\ AttentionTables
  BY DEF AttentionSound
<1>2. clerk[k] = NoErrand => clerk[k].stage = "idle"
  BY DEF NoErrand
<1>3. QED
  BY <1>1, <1>2 DEF AttentionTables, ClerkHolds, SendErrands, SaveErrands, LocalErrands

LEMMA ClerkBegins ==
    ASSUME AttentionSound, NEW k \in Clerks, NEW v \in Talks, ReplyBegins(k, v) \/ LocalBegins(k, v)
    PROVE  AttentionSound'
<1>1. AttentionTables /\ TalksHold /\ talk[v] # NoTalk /\ talk[v] \in TalkRows
  BY DEF AttentionSound, AttentionTables, ReplyBegins, LocalBegins
<1>2. UNCHANGED <<linked, linking, talk, inbox, post, answered, reply, unseen, late, dropped, served>>
  BY DEF ReplyBegins, LocalBegins
<1>3. TalksGoOn /\ TalksHold'
  BY <1>1, <1>2 DEF TalksGoOn, TalksHold
<1>4. PICK c \in SendErrands \union LocalErrands : c.talk = v /\ clerk' = [clerk EXCEPT ![k] = c]
  <2>1. CASE ReplyBegins(k, v)
    <3>1. PICK provider : provider = Provider(talk[v].shop)
      OBVIOUS
    <3>2. provider \in {"META", "LOCAL"} /\ clerk' = [clerk EXCEPT ![k] = [stage |-> "send", talk |-> v, provider |-> provider]]
      BY <2>1, <3>1 DEF ReplyBegins, Errand, Provider
    <3>3. [stage |-> "send", talk |-> v, provider |-> provider] \in SendErrands
      BY <3>2 DEF SendErrands
    <3>4. QED
      BY <3>2, <3>3
  <2>2. CASE LocalBegins(k, v)
    <3>1. [stage |-> "local", talk |-> v, status |-> talk[v].status, unread |-> talk[v].unread] \in LocalErrands
      BY <1>1 DEF LocalErrands, TalkRows
    <3>2. QED
      BY <2>2, <3>1 DEF LocalBegins, Errand
  <2>3. QED
    BY <2>1, <2>2
<1>5. /\ clerk' \in [Clerks -> {NoErrand} \union SendErrands \union SaveErrands \union LocalErrands]
      /\ \A q \in Clerks : clerk'[q] = clerk[q] \/ ClerkHolds(q)'
  BY <1>1, <1>3, <1>4, ErrandMoves
<1>6. QED
  BY <1>1, <1>2, <1>3, <1>5, TalksChange DEF AttentionTables

LEMMA ReplySteps ==
    ASSUME AttentionSound, NEW k \in Clerks, ReplyFails(k) \/ ReplyAccepted(k) \/ ClerkDies(k)
    PROVE  AttentionSound'
<1>1. AttentionTables /\ TalksHold
  BY DEF AttentionSound
<1>2. UNCHANGED <<linked, linking, talk, inbox, post, answered, unseen, late, dropped, served>>
  BY DEF ReplyFails, ReplyAccepted, ClerkDies
<1>3. TalksGoOn /\ TalksHold'
  BY <1>1, <1>2 DEF TalksGoOn, TalksHold
<1>4. reply' \in [Replies -> ReplyRows]
  <2>1. reply' = reply \/ \E r \in Replies, meta \in {"accepted", "simulated"} : reply' = [reply EXCEPT ![r].meta = meta]
    BY DEF ReplyFails, ReplyAccepted, ClerkDies
  <2>2. QED
    BY <1>1, <2>1 DEF AttentionTables, ReplyRows
<1>5. PICK c \in {NoErrand} \union SaveErrands :
          clerk' = [clerk EXCEPT ![k] = c] /\ (c # NoErrand => c.talk \in Talks /\ talk[c.talk] # NoTalk)
  <2>1. CASE ReplyAccepted(k)
    <3>1. PICK r \in Replies : clerk' = [clerk EXCEPT ![k] = [stage |-> "save", talk |-> clerk[k].talk, reply |-> r]]
      BY <2>1 DEF ReplyAccepted, Errand
    <3>2. clerk[k].talk \in Talks /\ talk[clerk[k].talk] # NoTalk
      BY <2>1, ErrandOfStage DEF ReplyAccepted
    <3>6. PICK c : c = [stage |-> "save", talk |-> clerk[k].talk, reply |-> r]
      OBVIOUS
    <3>3. c \in SaveErrands /\ c.talk = clerk[k].talk
      BY <3>2, <3>6 DEF SaveErrands
    <3>4. clerk' = [clerk EXCEPT ![k] = c] /\ c.talk \in Talks /\ talk[c.talk] # NoTalk
      BY <3>1, <3>2, <3>3, <3>6
    <3>5. QED
      BY <3>3, <3>4
  <2>2. CASE ReplyFails(k) \/ ClerkDies(k)
    BY <2>2 DEF ReplyFails, ClerkDies, Errand
  <2>3. QED
    BY <2>1, <2>2
<1>6. /\ clerk' \in [Clerks -> {NoErrand} \union SendErrands \union SaveErrands \union LocalErrands]
      /\ \A q \in Clerks : clerk'[q] = clerk[q] \/ ClerkHolds(q)'
  BY <1>1, <1>3, <1>5, ErrandMoves
<1>7. QED
  BY <1>1, <1>2, <1>3, <1>4, <1>6, TalksChange DEF AttentionTables

LEMMA ReplySavedStep ==
    ASSUME AttentionSound, NEW k \in Clerks, ReplySaved(k)
    PROVE  AttentionSound'
<1>1. AttentionTables /\ TalksHold /\ clerk[k] \in SaveErrands
  BY ErrandOfStage DEF AttentionSound, ReplySaved
<1>2. PICK v \in Talks : v = clerk[k].talk /\ talk[v] # NoTalk
  BY ErrandOfStage DEF ReplySaved
<1>3. PICK r \in Replies : r = clerk[k].reply
  BY <1>1 DEF SaveErrands
<1>4. UNCHANGED <<linked, linking, inbox, post, answered, late, dropped, served>> /\ clerk' = [clerk EXCEPT ![k] = NoErrand]
  BY DEF ReplySaved, Errand
<1>5. reply' \in [Replies -> ReplyRows]
  <2>1. \E row \in {"SENT", "SIMULATED"} : reply' = [reply EXCEPT ![r].row = row]
    BY <1>3 DEF ReplySaved
  <2>2. QED
    BY <1>1, <2>1 DEF AttentionTables, ReplyRows
<1>6. talk' = [talk EXCEPT ![v] = Rewritten(talk[v], "ATTENDING", 0)] /\ unseen' = [unseen EXCEPT ![v] = 0]
  BY <1>1, <1>2 DEF ReplySaved, Rewritten, AttentionTables
<1>7. PICK quiet \in BOOLEAN : late' = [late EXCEPT ![v] = quiet]
  BY <1>1, <1>4 DEF AttentionTables
<1>8. PICK state \in TalkStatus : state = "ATTENDING"
  BY DEF TalkStatus
<1>9. PICK zero \in Nat : zero = 0
  OBVIOUS
<1>10. talk' = [talk EXCEPT ![v] = Rewritten(talk[v], state, zero)] /\ unseen' = [unseen EXCEPT ![v] = zero]
  BY <1>6, <1>8, <1>9
<1>11. state # "RESOLVED"
  BY <1>8
<1>12. /\ talk' \in [Talks -> {NoTalk} \union TalkRows] /\ unseen' \in [Talks -> Nat] /\ late' \in [Talks -> BOOLEAN]
       /\ TalksHold' /\ TalksGoOn
  BY <1>1, <1>2, <1>7, <1>10, <1>11, TalkIsSet
<1>13. /\ clerk' \in [Clerks -> {NoErrand} \union SendErrands \union SaveErrands \union LocalErrands]
       /\ \A q \in Clerks : clerk'[q] = clerk[q] \/ ClerkHolds(q)'
  BY <1>1, <1>4, <1>12, ErrandMoves
<1>14. QED
  BY <1>4, <1>5, <1>12, <1>13, TalksChange

LEMMA LocalStoredStep ==
    ASSUME AttentionSound, NEW k \in Clerks, LocalStored(k)
    PROVE  AttentionSound'
<1>1. AttentionTables /\ TalksHold /\ clerk[k] \in LocalErrands
  BY ErrandOfStage DEF AttentionSound, LocalStored
<1>2. PICK v \in Talks : v = clerk[k].talk /\ talk[v] # NoTalk
  BY ErrandOfStage DEF LocalStored
<1>3. PICK state \in TalkStatus : state = clerk[k].status
  BY <1>1 DEF LocalErrands
<1>4. MessageStored(v, state, clerk[k].unread)
  BY <1>2, <1>3 DEF LocalStored
<1>5. UNCHANGED <<linked, linking, inbox, post, answered, reply, dropped, served>> /\ clerk' = [clerk EXCEPT ![k] = NoErrand]
  BY DEF LocalStored, Errand
<1>6. /\ talk' \in [Talks -> {NoTalk} \union TalkRows] /\ unseen' \in [Talks -> Nat] /\ late' \in [Talks -> BOOLEAN]
      /\ TalksHold' /\ TalksGoOn
  BY <1>1, <1>2, <1>4, MessageIsStored
<1>7. /\ clerk' \in [Clerks -> {NoErrand} \union SendErrands \union SaveErrands \union LocalErrands]
      /\ \A q \in Clerks : clerk'[q] = clerk[q] \/ ClerkHolds(q)'
  BY <1>1, <1>5, <1>6, ErrandMoves
<1>8. QED
  BY <1>1, <1>5, <1>6, <1>7, TalksChange DEF AttentionTables

LEMMA TalkSteps ==
    ASSUME AttentionSound,
           \/ \E s \in Shops : TalkOpened(s)
           \/ \E v \in Talks : TalkUpdated(v)
           \/ \E r \in Replies : StatusArrives(r)
    PROVE  AttentionSound'
<1>1. AttentionTables /\ TalksHold
  BY DEF AttentionSound
<1>2. CASE \E r \in Replies : StatusArrives(r)
  <2>1. UNCHANGED <<linked, linking, talk, inbox, post, answered, clerk, unseen, late, dropped, served>>
    BY <1>2 DEF StatusArrives
  <2>2. reply' \in [Replies -> ReplyRows]
    BY <1>1, <1>2 DEF StatusArrives, AttentionTables, ReplyRows
  <2>3. TalksGoOn /\ TalksHold'
    BY <1>1, <2>1 DEF TalksGoOn, TalksHold
  <2>4. QED
    BY <1>1, <2>1, <2>2, <2>3, TalksChange DEF AttentionTables
<1>3. CASE \E s \in Shops : TalkOpened(s)
  <2>1. PICK s \in Shops, v \in Talks, dictated \in {0, 1} : TalkBegun(v, s, "ATTENDING", dictated)
    BY <1>3 DEF TalkOpened
  <2>2. UNCHANGED <<linked, linking, inbox, post, answered, clerk, reply, dropped, served>>
    BY <1>3 DEF TalkOpened
  <2>3. PICK state \in {"PENDING", "ATTENDING"} : TalkBegun(v, s, state, dictated)
    BY <2>1
  <2>4. /\ talk' \in [Talks -> {NoTalk} \union TalkRows] /\ unseen' \in [Talks -> Nat] /\ late' \in [Talks -> BOOLEAN]
        /\ TalksHold' /\ TalksGoOn
    BY <1>1, <2>3, TalkIsBegun
  <2>5. QED
    BY <1>1, <2>2, <2>4, TalksChange DEF AttentionTables
<1>4. CASE \E v \in Talks : TalkUpdated(v)
  <2>1. PICK v \in Talks : TalkUpdated(v)
    BY <1>4
  <2>2. talk[v] # NoTalk /\ talk[v] \in TalkRows /\ UNCHANGED <<linked, linking, inbox, post, answered, clerk, reply, dropped, served>>
    BY <1>1, <2>1 DEF TalkUpdated, AttentionTables
  <2>3. PICK state \in Chosen, read \in BOOLEAN :
            /\ talk' = [talk EXCEPT ![v].status = state, ![v].unread = IF read THEN 0 ELSE @]
            /\ unseen' = [unseen EXCEPT ![v] = IF read THEN 0 ELSE @]
            /\ late' = [late EXCEPT ![v] = @ /\ state # "RESOLVED"]
    BY <2>1 DEF TalkUpdated
  <2>4. state \in TalkStatus
    BY <2>3, ChoicesAssumption
  <2>5. talk[v].unread \in Nat /\ talk[v].unread = unseen[v]
    BY <1>1, <2>2 DEF TalkRows, TalksHold
  <2>6. PICK n \in Nat : n = IF read THEN 0 ELSE talk[v].unread
    BY <2>5
  <2>7. talk' = [talk EXCEPT ![v] = Rewritten(talk[v], state, n)]
    BY <1>1, <2>3, <2>6 DEF Rewritten, AttentionTables
  <2>8. unseen' = [unseen EXCEPT ![v] = n]
    BY <1>1, <2>3, <2>5, <2>6 DEF AttentionTables
  <2>9. PICK quiet \in BOOLEAN : late' = [late EXCEPT ![v] = quiet] /\ (state = "RESOLVED" => ~quiet)
    BY <1>1, <2>3 DEF AttentionTables
  <2>10. state = "RESOLVED" => ~quiet
    BY <2>9
  <2>11. late' = [late EXCEPT ![v] = quiet]
    BY <2>9
  <2>12. /\ talk' \in [Talks -> {NoTalk} \union TalkRows] /\ unseen' \in [Talks -> Nat] /\ late' \in [Talks -> BOOLEAN]
         /\ TalksHold' /\ TalksGoOn
    BY <1>1, <2>2, <2>4, <2>7, <2>8, <2>10, <2>11, TalkIsSet
  <2>13. QED
    BY <1>1, <2>2, <2>12, TalksChange DEF AttentionTables
<1>5. QED
  BY <1>2, <1>3, <1>4

LEMMA AttentionSteps ==
    ASSUME AttentionSound, AttentionNext \/ UNCHANGED attentionVars
    PROVE  AttentionSound'
<1>1. CASE UNCHANGED attentionVars
  <2>1. AttentionTables'
    BY <1>1 DEF AttentionSound, AttentionTables, attentionVars
  <2>2. QED
    BY <1>1, <2>1, AttentionRests DEF attentionVars
<1>2. CASE AttentionNext
  BY <1>2, LinkSteps, PostArrivesStep, PostReadsStep, PostWritesStep, PostEnds, ClerkBegins, ReplySteps, ReplySavedStep,
     LocalStoredStep, TalkSteps DEF AttentionNext
<1>3. QED
  BY <1>1, <1>2

LEMMA AttentionIsSound == FiscalSpec => []AttentionSound
<1>1. FiscalInit => AttentionSound
  BY AttentionBegins DEF FiscalInit
<1>2. AttentionSound /\ [FiscalNext]_fiscalVars => AttentionSound'
  BY StepOfFiscal, AttentionSteps
<1>3. QED
  BY <1>1, <1>2, PTL DEF FiscalSpec, fiscalVars

\* What the inbox promises follows.
LEMMA AttentionPromises == AttentionSound => InboxHolds /\ AttentionTypeOK
<1> SUFFICES ASSUME AttentionSound
             PROVE  InboxHolds /\ AttentionTypeOK
  OBVIOUS
<1>1. StoredWhereItBelongs
  BY DEF AttentionSound, RowsHold, Rightly, StoredWhereItBelongs
<1>2. UnreadIsCounted
  BY DEF AttentionSound, TalksHold, UnreadIsCounted
<1>3. ResolvedIsQuiet
  <2>1. NoTalk.status # "RESOLVED"
    BY DEF NoTalk
  <2>2. QED
    BY <2>1 DEF AttentionSound, TalksHold, ResolvedIsQuiet
<1>4. AttentionTypeOK
  BY DEF AttentionSound, AttentionTables, AttentionTypeOK, Links, TalkRows, InboxRows, ReplyRows
<1>5. QED
  BY <1>1, <1>2, <1>3, <1>4 DEF AttentionSound, LinksHold, InboxHolds

-----------------------------------------------------------------------------
(* The vouchers.  The office sends one summary or communication at a time.     *)

PaperRows == [estado : Estados, number : Nat, at : 0..MaxSlot, link : 0..MaxNotices, baja : 0..MaxNotices]
Scopes1 == {Scope(d) : d \in Docs}
IssueTasks == [op : Issuing, doc : Docs, via : BOOLEAN, number : Nat, at : 0..MaxSlot,
               estado : {"BORRADOR", "ACEPTADO", "RECHAZADO", "ERROR"}, sent : BOOLEAN]
TellTasks == [op : Telling, ref : Nat, lines : SUBSET Docs, number : Nat, day : Nat,
              linked : BOOLEAN, sent : BOOLEAN, ticket : BOOLEAN]
PollTasks == [op : {"poll"}, notice : Nat, answer : {"0", "99"}]
NoticeRows == [kind : Telling, ref : Nat, day : Nat, number : Nat, lines : SUBSET Docs, ticket : BOOLEAN,
               status : {"PENDING", "ERROR", "ACCEPTED", "REJECTED"}]
TicketRows == [name : {"RA", "RC"} \X Nat \X Nat, kind : Telling, lines : SUBSET Docs, state : {"98", "0", "99"}]
TaskRows == {NoTaskYet} \union IssueTasks \union TellTasks \union PollTasks

FiscFits == fisc = [names |-> fisc.names, voided |-> fisc.voided, tickets |-> fisc.tickets]
            /\ fisc.tickets \subseteq TicketRows

VouchersTables ==
    /\ trade \subseteq Docs /\ slot \in 0..MaxSlot /\ sold \subseteq Sales
    /\ paper \in [Docs -> PaperRows] /\ series \in [Scopes1 -> Nat]
    /\ notices \in Seq(NoticeRows) /\ Len(notices) <= MaxNotices
    /\ FiscFits /\ task \in [Tasks -> TaskRows]

\* A voucher has a number from its first commit on, and a sale was committed
\* with or before its voucher.
PapersHold ==
    \A d \in Docs : paper[d] # NoPaper =>
        paper[d].number > 0 /\ paper[d].estado # "NONE" /\ (d \in Sales => d \in sold)

Issued(s) == {d \in Docs : paper[d] # NoPaper /\ Scope(d) = s}

NumbersHold ==
    \A s \in Scopes1 :
        /\ IsFiniteSet(Issued(s)) /\ Cardinality(Issued(s)) = series[s]
        /\ {paper[d].number : d \in Issued(s)} = 1..series[s]

NameOf(d, n) == <<nombreArchivo(d, n), d>>
Declared(d) == NameOf(d, paper[d].number) \in fisc.names
Ticketed(name, kind, lines) == \E x \in fisc.tickets : x.name = name /\ x.kind = kind /\ x.lines = lines
Decided(name, verdict) == \E x \in fisc.tickets : x.name = name /\ x.state = verdict

\* What may be told in one file.
LinesFit(kind, lines) ==
    \A d \in lines :
        /\ d \in Docs /\ paper[d] # NoPaper
        /\ kind = "add" => ByBoleta(d)
        /\ kind = "void" => d \in Boletas
        /\ kind = "baja" => d \notin Boletas
        /\ kind # "add" => Declared(d)

TicketsHold ==
    /\ \A x, y \in fisc.tickets : x.name = y.name => x = y
    /\ \A x \in fisc.tickets :
          /\ LinesFit(x.kind, x.lines)
          /\ x.state = "0" /\ x.kind = "add" => \A d \in x.lines : Declared(d)
          /\ x.state = "0" /\ x.kind # "add" => x.lines \subseteq fisc.voided

NoticeFits(i) ==
    /\ LinesFit(notices[i].kind, notices[i].lines)
    /\ notices[i].ticket => Ticketed(FileOfNotice(i), notices[i].kind, notices[i].lines)

NoticesHold == \A i \in DOMAIN notices : NoticeFits(i)

\* A transaction that issues a voucher holds the row of its series.
Locks(t) == Running(t, Issuing) /\ task[t].number > 0

Apart(t) ==
    Locks(t) => \A u \in Tasks \ {t} : Locks(u) =>
                   task[u].doc # task[t].doc /\ Scope(task[u].doc) # Scope(task[t].doc)

IssueHolds(t) ==
    /\ Running(t, Issuing) =>
          /\ task[t].op = "note" => task[t].doc \in Notes
          /\ task[t].op # "note" => task[t].doc \in Sales
          /\ task[t].op = "emit" => task[t].doc \in sold
          /\ task[t].estado = "ACEPTADO" =>
                task[t].number > 0 /\ NameOf(task[t].doc, task[t].number) \in fisc.names
    /\ Locks(t) => paper[task[t].doc] = NoPaper /\ task[t].number = series[Scope(task[t].doc)] + 1
    /\ Apart(t)

\* The lines of a file that is being sent stay what they were.
Waiting(kind, d) ==
    /\ kind = "add" => paper[d].estado = "BORRADOR" /\ paper[d].link = 0
    /\ kind # "add" => Accepted(d)
    /\ kind = "baja" => paper[d].baja = 0

Waits(t) == \A d \in task[t].lines : Waiting(task[t].op, d)
Alone(t) == Running(t, Telling) => \A u \in Tasks : Running(u, Telling) => u = t

TellHolds(t) ==
    /\ Running(t, Telling) =>
          /\ LinesFit(task[t].op, task[t].lines) /\ Len(notices) < MaxNotices /\ Waits(t)
          /\ task[t].sent => task[t].linked
          /\ task[t].ticket => task[t].sent /\ Ticketed(FileOf(task[t]), task[t].op, task[t].lines)
    /\ Alone(t)

PollHolds(t) ==
    Running(t, {"poll"}) =>
        /\ task[t].notice \in DOMAIN notices /\ notices[task[t].notice].ticket
        /\ Decided(FileOfNotice(task[t].notice), task[t].answer)

TaskHolds(t) == IssueHolds(t) /\ TellHolds(t) /\ PollHolds(t)

\* A voucher follows the notice it is a line of.
Carried(d) ==
    paper[d].link > 0 =>
        LET i == paper[d].link
            r == notices[i]
        IN  /\ i \in DOMAIN notices /\ d \in r.lines /\ r.kind # "baja" /\ Standing(r)
            /\ r.status = "PENDING" => paper[d].estado = "ENVIADO"
            /\ r.status = "ACCEPTED" => paper[d].estado # "ENVIADO"
            /\ paper[d].estado # "ENVIADO" =>
                  Decided(FileOfNotice(i), "0") /\ (paper[d].estado = Outcome(r.kind) \/ paper[d].baja > 0)

Voided(d) ==
    paper[d].baja > 0 =>
        LET i == paper[d].baja
            r == notices[i]
        IN  /\ i \in DOMAIN notices /\ d \in r.lines /\ r.kind = "baja" /\ Standing(r)
            /\ r.status = "PENDING" => Accepted(d)
            /\ paper[d].estado \in {"ACEPTADO", "ANULADO"}
            /\ paper[d].estado = "ANULADO" => Decided(FileOfNotice(i), "0")

Answered1(d) ==
    /\ paper[d].estado = "ENVIADO" => paper[d].link > 0
    /\ paper[d].estado \in {"ACEPTADO", "ANULADO"} => Declared(d)
    /\ paper[d].estado = "ANULADO" =>
          /\ d \in fisc.voided
          /\ d \in Boletas => paper[d].link > 0 /\ notices[paper[d].link].kind = "void"
          /\ d \notin Boletas => paper[d].baja > 0

FollowsNotice(d) == Carried(d) /\ Voided(d) /\ Answered1(d)

VouchersSound ==
    /\ VouchersTables /\ PapersHold /\ NumbersHold /\ TicketsHold /\ NoticesHold
    /\ \A d \in Docs : FollowsNotice(d)
    /\ \A t \in Tasks : TaskHolds(t)

LEMMA EmptyPaper == NoPaper \in PaperRows
  BY VouchersAssumption DEF NoPaper, PaperRows, Estados

LEMMA VouchersBegin == VouchersInit => VouchersSound
<1> SUFFICES ASSUME VouchersInit
             PROVE  VouchersSound
  OBVIOUS
<1>1. VouchersTables
  <2>1. trade \subseteq Docs /\ slot \in 0..MaxSlot /\ sold \subseteq Sales
    BY VouchersAssumption DEF VouchersInit
  <2>2. paper \in [Docs -> PaperRows] /\ series \in [Scopes1 -> Nat]
    BY EmptyPaper DEF VouchersInit, Scopes1
  <2>3. notices \in Seq(NoticeRows) /\ Len(notices) <= MaxNotices
    BY VouchersAssumption DEF VouchersInit
  <2>4. FiscFits
    BY DEF VouchersInit, FiscFits
  <2>5. task \in [Tasks -> TaskRows]
    BY DEF VouchersInit, TaskRows
  <2>6. QED
    BY <2>1, <2>2, <2>3, <2>4, <2>5 DEF VouchersTables
<1>2. PapersHold
  BY DEF VouchersInit, PapersHold
<1>3. NumbersHold
  <2>1. SUFFICES ASSUME NEW s \in Scopes1
                 PROVE  /\ IsFiniteSet(Issued(s)) /\ Cardinality(Issued(s)) = series[s]
                        /\ {paper[d].number : d \in Issued(s)} = 1..series[s]
    BY DEF NumbersHold
  <2>2. Issued(s) = {} /\ series[s] = 0
    BY DEF VouchersInit, Issued, Scopes1
  <2>3. IsFiniteSet({}) /\ Cardinality({}) = 0
    BY FS_EmptySet
  <2>4. QED
    BY <2>2, <2>3
<1>4. TicketsHold
  BY DEF VouchersInit, TicketsHold
<1>5. NoticesHold
  BY DEF VouchersInit, NoticesHold
<1>6. \A d \in Docs : FollowsNotice(d)
  <2>1. \A d \in Docs : paper[d].link = 0 /\ paper[d].baja = 0 /\ paper[d].estado = "NONE"
    BY DEF VouchersInit, NoPaper
  <2>2. QED
    BY <2>1 DEF FollowsNotice, Carried, Voided, Answered1
<1>7. \A t \in Tasks : TaskHolds(t)
  <2>1. \A t \in Tasks : task[t].op = "none"
    BY DEF VouchersInit, NoTaskYet
  <2>2. QED
    BY <2>1 DEF TaskHolds, IssueHolds, Locks, Apart, TellHolds, Alone, PollHolds, Running, Issuing, Telling
<1>8. QED
  BY <1>1, <1>2, <1>3, <1>4, <1>5, <1>6, <1>7 DEF VouchersSound

\* What every step leaves: a number once given, an answer of SUNAT, a notice.
PapersGoOn ==
    \A d \in Docs : paper[d] # NoPaper => paper'[d] # NoPaper /\ paper'[d].number = paper[d].number

FiscGoesOn ==
    /\ fisc.names \subseteq fisc'.names /\ fisc.voided \subseteq fisc'.voided
    /\ \A name, kind, lines : Ticketed(name, kind, lines) => Ticketed(name, kind, lines)'
    /\ \A name : \A verdict \in {"0", "99"} : Decided(name, verdict) => Decided(name, verdict)'

NoticesGoOn ==
    \A i \in DOMAIN notices :
        /\ i \in DOMAIN notices' /\ notices'[i].kind = notices[i].kind /\ notices'[i].lines = notices[i].lines
        /\ notices'[i].day = notices[i].day /\ notices'[i].number = notices[i].number
        /\ notices'[i].ticket = notices[i].ticket

LEMMA FileGoesOn ==
    ASSUME NoticesGoOn, NEW i \in DOMAIN notices
    PROVE  FileOfNotice(i)' = FileOfNotice(i)
  BY DEF NoticesGoOn, FileOfNotice

LEMMA LinesGoOn ==
    ASSUME PapersGoOn, fisc.names \subseteq fisc'.names, NEW kind, NEW lines, LinesFit(kind, lines)
    PROVE  LinesFit(kind, lines)'
<1>1. SUFFICES ASSUME NEW d \in lines
               PROVE  /\ paper'[d] # NoPaper
                      /\ kind # "add" => Declared(d)'
  BY DEF LinesFit
<1>2. d \in Docs /\ paper[d] # NoPaper /\ (kind # "add" => Declared(d))
  BY DEF LinesFit
<1>3. QED
  BY <1>2 DEF PapersGoOn, Declared

LEMMA NoticesHoldOn ==
    ASSUME NoticesHold, PapersGoOn, FiscGoesOn, NoticesGoOn, NEW i \in DOMAIN notices
    PROVE  NoticeFits(i)'
<1>1. PICK kind, lines, name : kind = notices[i].kind /\ lines = notices[i].lines /\ name = FileOfNotice(i)
  OBVIOUS
<1>2. notices'[i].kind = kind /\ notices'[i].lines = lines /\ notices'[i].ticket = notices[i].ticket
  BY <1>1 DEF NoticesGoOn
<1>3. FileOfNotice(i)' = name
  BY <1>1, FileGoesOn
<1>4. LinesFit(kind, lines) /\ (notices[i].ticket => Ticketed(name, kind, lines))
  BY <1>1 DEF NoticesHold, NoticeFits
<1>5. LinesFit(kind, lines)'
  BY <1>4, LinesGoOn DEF FiscGoesOn
<1>6. notices[i].ticket => Ticketed(name, kind, lines)'
  BY <1>4 DEF FiscGoesOn
<1>7. QED
  BY <1>2, <1>3, <1>5, <1>6 DEF NoticeFits

LEMMA FollowsOn ==
    ASSUME NEW d \in Docs, FollowsNotice(d), paper'[d] = paper[d], FiscGoesOn,
           \A i \in DOMAIN notices : i \in {paper[d].link, paper[d].baja} =>
              i \in DOMAIN notices' /\ notices'[i] = notices[i]
    PROVE  FollowsNotice(d)'
<1>1. Carried(d)'
  <2>1. SUFFICES ASSUME NEW i, i = paper[d].link, i > 0
                 PROVE  Carried(d)'
    BY DEF Carried
  <2>2. i \in DOMAIN notices /\ i \in DOMAIN notices' /\ notices'[i] = notices[i]
    BY <2>1 DEF FollowsNotice, Carried
  <2>3. PICK name : name = FileOfNotice(i)
    OBVIOUS
  <2>4. FileOfNotice(i)' = name
    BY <2>2, <2>3 DEF FileOfNotice
  <2>5. Decided(name, "0") => Decided(name, "0")'
    BY DEF FiscGoesOn
  <2>6. QED
    BY <2>1, <2>2, <2>3, <2>4, <2>5 DEF FollowsNotice, Carried
<1>2. Voided(d)'
  <2>1. SUFFICES ASSUME NEW i, i = paper[d].baja, i > 0
                 PROVE  Voided(d)'
    BY DEF Voided
  <2>2. i \in DOMAIN notices /\ i \in DOMAIN notices' /\ notices'[i] = notices[i]
    BY <2>1 DEF FollowsNotice, Voided
  <2>3. PICK name : name = FileOfNotice(i)
    OBVIOUS
  <2>4. FileOfNotice(i)' = name
    BY <2>2, <2>3 DEF FileOfNotice
  <2>5. Decided(name, "0") => Decided(name, "0")'
    BY DEF FiscGoesOn
  <2>6. QED
    BY <2>1, <2>2, <2>3, <2>4, <2>5 DEF FollowsNotice, Voided, Accepted
<1>3. Answered1(d)'
  <2>1. paper[d].link > 0 => notices'[paper[d].link] = notices[paper[d].link]
    BY DEF FollowsNotice, Carried
  <2>2. QED
    BY <2>1 DEF FollowsNotice, Answered1, Declared, FiscGoesOn
<1>4. QED
  BY <1>1, <1>2, <1>3 DEF FollowsNotice

\* A transaction that the step leaves where it was.
Still(u) ==
    /\ task'[u] = task[u]
    /\ Locks(u) => paper'[task[u].doc] = NoPaper /\ series'[Scope(task[u].doc)] = series[Scope(task[u].doc)]
    /\ Running(u, Telling) => Len(notices') < MaxNotices /\ Waits(u)'

\* What is left to be shown of a step: the rows, and the transactions that moved.
LEMMA VouchersGoOn ==
    ASSUME VouchersSound, VouchersTables', PapersHold', NumbersHold', TicketsHold', NoticesHold',
           \A d \in Docs : FollowsNotice(d)',
           PapersGoOn, FiscGoesOn, NoticesGoOn, sold \subseteq sold',
           \A t \in Tasks : TaskHolds(t)' \/ Still(t)
    PROVE  VouchersSound'
<1>1. SUFFICES ASSUME NEW u \in Tasks, Still(u)
               PROVE  TaskHolds(u)'
  BY DEF VouchersSound
<1>2. TaskHolds(u) /\ task'[u] = task[u]
  BY <1>1 DEF VouchersSound, Still
<1>3. Apart(u)'
  <2>1. SUFFICES ASSUME Locks(u)', NEW v \in Tasks \ {u}, Locks(v)'
                 PROVE  task'[v].doc # task'[u].doc /\ Scope(task'[v].doc) # Scope(task'[u].doc)
    BY DEF Apart, Scope
  <2>2. CASE TaskHolds(v)'
    BY <2>1, <2>2 DEF TaskHolds, IssueHolds, Apart, Scope
  <2>3. CASE Still(v)
    BY <1>2, <2>1, <2>3 DEF TaskHolds, IssueHolds, Apart, Locks, Running, Still
  <2>4. QED
    BY <2>2, <2>3
<1>4. Alone(u)'
  <2>1. SUFFICES ASSUME Running(u, Telling)', NEW v \in Tasks, Running(v, Telling)'
                 PROVE  u = v
    BY DEF Alone
  <2>2. CASE TaskHolds(v)'
    BY <2>1, <2>2 DEF TaskHolds, TellHolds, Alone
  <2>3. CASE Still(v)
    BY <1>2, <2>1, <2>3 DEF TaskHolds, TellHolds, Alone, Running, Still
  <2>4. QED
    BY <2>2, <2>3
<1>5. IssueHolds(u)'
  BY <1>1, <1>2, <1>3 DEF TaskHolds, IssueHolds, Locks, Running, FiscGoesOn, Still
<1>6. TellHolds(u)'
  <2>1. SUFFICES ASSUME Running(u, Telling)
                 PROVE  TellHolds(u)'
    BY <1>2, <1>4 DEF TellHolds, Running
  <2>2. PICK kind, lines, name : kind = task[u].op /\ lines = task[u].lines /\ name = FileOf(task[u])
    OBVIOUS
  <2>3. LinesFit(kind, lines)'
    BY <1>2, <2>1, <2>2, LinesGoOn DEF TaskHolds, TellHolds, FiscGoesOn
  <2>4. task[u].ticket => Ticketed(name, kind, lines)'
    BY <1>2, <2>1, <2>2 DEF TaskHolds, TellHolds, FiscGoesOn
  <2>5. FileOf(task'[u]) = name
    BY <1>2, <2>2
  <2>6. QED
    BY <1>1, <1>2, <1>4, <2>1, <2>2, <2>3, <2>4, <2>5 DEF TaskHolds, TellHolds, Still
<1>7. PollHolds(u)'
  <2>1. SUFFICES ASSUME Running(u, {"poll"})
                 PROVE  PollHolds(u)'
    BY <1>2 DEF PollHolds, Running
  <2>2. PICK i, answer : i = task[u].notice /\ answer = task[u].answer
    OBVIOUS
  <2>3. i \in DOMAIN notices /\ notices[i].ticket /\ Decided(FileOfNotice(i), answer) /\ answer \in {"0", "99"}
    <3>1. task[u] \in TaskRows
      BY DEF VouchersSound, VouchersTables
    <3>2. task[u] \in PollTasks
      BY <2>1, <3>1 DEF TaskRows, NoTaskYet, IssueTasks, TellTasks, PollTasks, Running, Issuing, Telling
    <3>3. QED
      BY <1>2, <2>1, <2>2, <3>2 DEF TaskHolds, PollHolds, PollTasks
  <2>4. FileOfNotice(i)' = FileOfNotice(i) /\ i \in DOMAIN notices' /\ notices'[i].ticket
    BY <2>3, FileGoesOn DEF NoticesGoOn
  <2>5. PICK name : name = FileOfNotice(i)
    OBVIOUS
  <2>6. Decided(name, answer)'
    BY <2>3, <2>5 DEF FiscGoesOn
  <2>7. QED
    BY <1>2, <2>2, <2>4, <2>5, <2>6 DEF PollHolds
<1>8. QED
  BY <1>5, <1>6, <1>7 DEF TaskHolds

\* A step that moves transactions only.
LEMMA RowsStay ==
    ASSUME VouchersSound, UNCHANGED <<trade, sold, paper, series, notices, fisc>>,
           slot' \in 0..MaxSlot, task' \in [Tasks -> TaskRows]
    PROVE  /\ VouchersTables' /\ PapersHold' /\ NumbersHold' /\ TicketsHold' /\ NoticesHold'
           /\ \A d \in Docs : FollowsNotice(d)'
           /\ PapersGoOn /\ FiscGoesOn /\ NoticesGoOn
<1>1. VouchersTables'
  BY DEF VouchersSound, VouchersTables, FiscFits
<1>2. PapersHold' /\ PapersGoOn
  BY DEF VouchersSound, PapersHold, PapersGoOn
<1>3. NumbersHold'
  <2>1. \A s : Issued(s)' = Issued(s)
    BY DEF Issued
  <2>2. QED
    BY <2>1 DEF VouchersSound, NumbersHold
<1>4. FiscGoesOn
  BY DEF FiscGoesOn, Ticketed, Decided
<1>5. NoticesGoOn
  BY DEF NoticesGoOn
<1>6. TicketsHold'
  BY DEF VouchersSound, TicketsHold, LinesFit, Declared
<1>7. NoticesHold'
  BY <1>2, <1>4, <1>5, NoticesHoldOn DEF VouchersSound, NoticesHold
<1>8. \A d \in Docs : FollowsNotice(d)'
  BY <1>4, FollowsOn DEF VouchersSound
<1>9. QED
  BY <1>1, <1>2, <1>3, <1>4, <1>5, <1>6, <1>7, <1>8

LEMMA TaskMoves ==
    ASSUME VouchersSound, UNCHANGED <<trade, slot, sold, paper, series, notices, fisc>>,
           NEW t \in Tasks, NEW rec \in TaskRows, task' = [task EXCEPT ![t] = rec], TaskHolds(t)'
    PROVE  VouchersSound'
<1>1. slot' \in 0..MaxSlot /\ task' \in [Tasks -> TaskRows]
  BY DEF VouchersSound, VouchersTables
<1>2. \A u \in Tasks : u # t => Still(u)
  <2>1. \A u \in Tasks : u # t => task'[u] = task[u]
    BY DEF VouchersSound, VouchersTables
  <2>2. \A u \in Tasks : TaskHolds(u)
    BY DEF VouchersSound
  <2>3. \A u \in Tasks : Locks(u) => paper'[task[u].doc] = NoPaper
    BY <2>2 DEF TaskHolds, IssueHolds
  <2>4. \A u \in Tasks : u # t /\ Running(u, Telling) => Len(notices') < MaxNotices /\ Waits(u)'
    BY <2>1, <2>2 DEF TaskHolds, TellHolds, Waits, Waiting, Accepted
  <2>5. QED
    BY <2>1, <2>3, <2>4 DEF Still
<1>3. /\ VouchersTables' /\ PapersHold' /\ NumbersHold' /\ TicketsHold' /\ NoticesHold'
      /\ \A d \in Docs : FollowsNotice(d)'
      /\ PapersGoOn /\ FiscGoesOn /\ NoticesGoOn
  BY <1>1, RowsStay
<1>4. \A u \in Tasks : TaskHolds(u)' \/ Still(u)
  BY <1>2
<1>5. QED
  BY <1>3, <1>4, VouchersGoOn

\* A transaction that is undone, or ends, leaves nothing in flight.
LEMMA NothingInFlight ==
    ASSUME NEW t \in Tasks, task \in [Tasks -> TaskRows], task' = [task EXCEPT ![t] = NoTaskYet]
    PROVE  TaskHolds(t)' /\ task' \in [Tasks -> TaskRows]
<1>1. task'[t] = NoTaskYet
  OBVIOUS
<1>2. NoTaskYet.op = "none" /\ NoTaskYet \in TaskRows
  BY DEF NoTaskYet, TaskRows
<1>3. QED
  BY <1>1, <1>2 DEF TaskHolds, IssueHolds, Locks, Apart, TellHolds, Alone, PollHolds, Running, Issuing, Telling

LEMMA UndoneStep ==
    ASSUME VouchersSound, UNCHANGED <<trade, slot, sold, paper, series, notices, fisc>>,
           NEW t \in Tasks, Undone(t)
    PROVE  VouchersSound'
  BY NothingInFlight, TaskMoves DEF Undone, VouchersSound, VouchersTables, TaskRows

LEMMA MiddayStep ==
    ASSUME VouchersSound, Midday
    PROVE  VouchersSound'
<1>1. slot' \in 0..MaxSlot /\ task' \in [Tasks -> TaskRows]
  BY VouchersAssumption DEF Midday, VouchersSound, VouchersTables
<1>2. UNCHANGED <<trade, sold, paper, series, notices, fisc, task>>
  BY DEF Midday
<1>3. \A u \in Tasks : TaskHolds(u)
  BY DEF VouchersSound
<1>4. \A u \in Tasks : Locks(u) => paper'[task[u].doc] = NoPaper
  BY <1>2, <1>3 DEF TaskHolds, IssueHolds
<1>5. \A u \in Tasks : Running(u, Telling) => Len(notices') < MaxNotices /\ Waits(u)'
  BY <1>2, <1>3 DEF TaskHolds, TellHolds, Waits, Waiting, Accepted
<1>6. \A u \in Tasks : Still(u)
  BY <1>2, <1>4, <1>5 DEF Still
<1>7. /\ VouchersTables' /\ PapersHold' /\ NumbersHold' /\ TicketsHold' /\ NoticesHold'
      /\ \A d \in Docs : FollowsNotice(d)'
      /\ PapersGoOn /\ FiscGoesOn /\ NoticesGoOn
  BY <1>1, <1>2, RowsStay
<1>8. QED
  BY <1>2, <1>6, <1>7, VouchersGoOn

LEMMA SellPlainStep ==
    ASSUME VouchersSound, NEW s \in Sales, SellPlain(s)
    PROVE  VouchersSound'
<1>1. /\ UNCHANGED <<trade, slot, paper, series, notices, fisc, task>>
      /\ sold' = sold \union {s}
  BY DEF SellPlain
<1>2. VouchersTables' /\ PapersHold'
  BY <1>1 DEF VouchersSound, VouchersTables, FiscFits, PapersHold
<1>3. PapersGoOn /\ FiscGoesOn /\ NoticesGoOn
  BY <1>1 DEF PapersGoOn, FiscGoesOn, NoticesGoOn, Ticketed, Decided
<1>4. NumbersHold'
  <2>1. \A c : Issued(c)' = Issued(c)
    BY <1>1 DEF Issued
  <2>2. QED
    BY <1>1, <2>1 DEF VouchersSound, NumbersHold
<1>5. TicketsHold'
  BY <1>1 DEF VouchersSound, TicketsHold, LinesFit, Declared
<1>6. NoticesHold'
  BY <1>1, <1>3, NoticesHoldOn DEF VouchersSound, NoticesHold
<1>7. \A d \in Docs : FollowsNotice(d)'
  BY <1>1, <1>3, FollowsOn DEF VouchersSound
<1>8. \A u \in Tasks : Locks(u) => paper'[task[u].doc] = NoPaper
  BY <1>1 DEF VouchersSound, TaskHolds, IssueHolds
<1>9. \A u \in Tasks : Running(u, Telling) => Len(notices') < MaxNotices /\ Waits(u)'
  BY <1>1 DEF VouchersSound, TaskHolds, TellHolds, Waits, Waiting, Accepted
<1>10. \A u \in Tasks : Still(u)
  BY <1>1, <1>8, <1>9 DEF Still
<1>11. QED
  BY <1>1, <1>2, <1>3, <1>4, <1>5, <1>6, <1>7, <1>10, VouchersGoOn

LEMMA IssueStep ==
    ASSUME VouchersSound, NEW t \in Tasks, NEW op \in Issuing, NEW d \in Docs, NEW via \in BOOLEAN, Issue(t, op, d, via),
           op = "note" => d \in Notes, op # "note" => d \in Sales, op = "emit" => d \in sold
    PROVE  VouchersSound'
<1>1. PICK rec : rec = [op |-> op, doc |-> d, via |-> via, number |-> 0, at |-> slot,
                        estado |-> "BORRADOR", sent |-> FALSE]
  OBVIOUS
<1>2. /\ task' = [task EXCEPT ![t] = rec]
      /\ UNCHANGED <<trade, slot, sold, paper, series, notices, fisc>>
  BY <1>1 DEF Issue, Launch
<1>3. rec \in TaskRows
  <2>1. rec \in IssueTasks
    BY <1>1 DEF IssueTasks, VouchersSound, VouchersTables
  <2>2. QED
    BY <2>1 DEF TaskRows
<1>4. task'[t] = rec
  BY <1>2 DEF VouchersSound, VouchersTables
<1>5. rec.op = op /\ rec.doc = d /\ rec.number = 0 /\ rec.estado = "BORRADOR" /\ op \notin Telling \union {"poll"}
  BY <1>1 DEF Issuing, Telling
<1>6. TaskHolds(t)'
  BY <1>2, <1>4, <1>5 DEF TaskHolds, IssueHolds, Locks, Apart, TellHolds, Alone, PollHolds, Running
<1>7. QED
  BY <1>2, <1>3, <1>6, TaskMoves

LEMMA BoletasAreDocs == Sales \subseteq Docs /\ Notes \subseteq Docs /\ Boletas \subseteq Sales
  BY DEF Docs, Boletas

LEMMA IssueSteps ==
    ASSUME VouchersSound, NEW t \in Tasks,
           \/ \E s \in Sales : SellWithVoucher(t, s) \/ \E via \in BOOLEAN : IssueForOrder(t, s, via)
           \/ \E n \in Notes : IssueNote(t, n)
    PROVE  VouchersSound'
<1>1. CASE \E s \in Sales : SellWithVoucher(t, s)
  <2>1. PICK s \in Sales : SellWithVoucher(t, s)
    BY <1>1
  <2>2. PICK via : via = (s \in Boletas)
    OBVIOUS
  <2>3. Issue(t, "sale", s, via) /\ via \in BOOLEAN
    BY <2>1, <2>2 DEF SellWithVoucher
  <2>4. QED
    BY <2>3, IssueStep, BoletasAreDocs DEF Issuing
<1>2. CASE \E s \in Sales, via \in BOOLEAN : IssueForOrder(t, s, via)
  <2>1. PICK s \in Sales, via \in BOOLEAN : IssueForOrder(t, s, via)
    BY <1>2
  <2>2. Issue(t, "emit", s, via) /\ s \in sold
    BY <2>1 DEF IssueForOrder
  <2>3. QED
    BY <2>2, IssueStep, BoletasAreDocs DEF Issuing
<1>3. CASE \E n \in Notes : IssueNote(t, n)
  <2>1. PICK n \in Notes : IssueNote(t, n)
    BY <1>3
  <2>2. PICK via : via = ByBoleta(n)
    OBVIOUS
  <2>3. Issue(t, "note", n, via) /\ via \in BOOLEAN
    BY <2>1, <2>2 DEF IssueNote, ByBoleta
  <2>4. QED
    BY <2>3, IssueStep, BoletasAreDocs DEF Issuing
<1>4. QED
  BY <1>1, <1>2, <1>3

LEMMA NumberOfAFile ==
    ASSUME VouchersSound, NEW kind
    PROVE  Correlativo(kind) \in Nat
<1>1. DOMAIN notices = 1..Len(notices) /\ Len(notices) \in Nat
  BY DEF VouchersSound, VouchersTables
<1>2. IsFiniteSet(1..Len(notices))
  BY <1>1, FS_Interval
<1>3. \A S : S \subseteq 1..Len(notices) => IsFiniteSet(S)
  BY <1>2, FS_Subset
<1>4. \A S : IsFiniteSet(S) => Cardinality(S) \in Nat
  BY FS_CardinalityType
<1>5. \A day : Generated(kind, day) \subseteq 1..Len(notices)
  BY <1>1 DEF Generated
<1>6. QED
  BY <1>3, <1>4, <1>5 DEF Correlativo

LEMMA TellStep ==
    ASSUME VouchersSound, OneNotice, NEW t \in Tasks, NEW kind \in Telling, NEW ref \in Nat, NEW lines, lines \subseteq Docs,
           Tell(t, kind, ref, lines), LinesFit(kind, lines), \A d \in lines : Waiting(kind, d)
    PROVE  VouchersSound'
<1>1. PICK n \in Nat : n = Correlativo(kind)
  BY NumberOfAFile
<1>2. PICK rec : rec = [op |-> kind, ref |-> ref, lines |-> lines, number |-> n, day |-> 0,
                        linked |-> FALSE, sent |-> FALSE, ticket |-> FALSE]
  OBVIOUS
<1>3. /\ task' = [task EXCEPT ![t] = rec]
      /\ UNCHANGED <<trade, slot, sold, paper, series, notices, fisc>>
      /\ Len(notices) < MaxNotices /\ \A u \in Tasks : ~Running(u, Telling)
  BY <1>1, <1>2 DEF Tell, Launch
<1>4. rec \in TaskRows
  <2>1. rec \in TellTasks
    BY <1>2 DEF TellTasks
  <2>2. QED
    BY <2>1 DEF TaskRows
<1>5. task'[t] = rec /\ \A u \in Tasks : u # t => task'[u] = task[u]
  BY <1>3 DEF VouchersSound, VouchersTables
<1>6. rec.op = kind /\ rec.lines = lines /\ ~rec.sent /\ ~rec.ticket /\ kind \notin Issuing \union {"poll"}
  BY <1>2 DEF Issuing, Telling
<1>7. LinesFit(kind, lines)' /\ \A d \in lines : Waiting(kind, d)'
  BY <1>3 DEF LinesFit, Declared, Waiting, Accepted
<1>8. TellHolds(t)'
  BY <1>3, <1>5, <1>6, <1>7 DEF TellHolds, Waits, Alone, Running
<1>9. TaskHolds(t)'
  BY <1>5, <1>6, <1>8 DEF TaskHolds, IssueHolds, Locks, Apart, PollHolds, Running
<1>10. QED
  BY <1>3, <1>4, <1>9, TaskMoves

LEMMA TellSteps ==
    ASSUME VouchersSound, OneNotice, NEW t \in Tasks, NEW day \in 0..MaxSlot,
           \/ GenerarResumen(t, day)
           \/ \E lines \in SUBSET (Boletas \intersect trade) : AnularBoletas(t, lines, day)
           \/ \E lines \in SUBSET (trade \ Boletas) : GenerarBaja(t, lines, day)
    PROVE  VouchersSound'
<1>1. day \in Nat /\ trade \subseteq Docs /\ Telling = {"add", "void", "baja"}
  BY VouchersAssumption DEF VouchersSound, VouchersTables, Telling
<1>2. \A d \in Docs : Accepted(d) => Declared(d) /\ paper[d] # NoPaper
  BY DEF VouchersSound, FollowsNotice, Answered1, Accepted, NoPaper
<1>3. CASE GenerarResumen(t, day)
  <2>1. PICK lines : lines = {d \in Docs : /\ ByBoleta(d) /\ paper[d].estado = "BORRADOR"
                                          /\ paper[d].link = 0 /\ UtcDay(paper[d].at) = day}
    OBVIOUS
  <2>2. Tell(t, "add", day, lines)
    BY <1>3, <2>1 DEF GenerarResumen
  <2>3. LinesFit("add", lines)
    BY <2>1 DEF LinesFit, NoPaper
  <2>4. \A d \in lines : Waiting("add", d)
    BY <2>1 DEF Waiting
  <2>5. lines \subseteq Docs
    BY <2>1
  <2>6. QED
    BY <1>1, <2>2, <2>3, <2>4, <2>5, TellStep
<1>4. CASE \E lines \in SUBSET (Boletas \intersect trade) : AnularBoletas(t, lines, day)
  <2>1. PICK lines \in SUBSET (Boletas \intersect trade) : AnularBoletas(t, lines, day)
    BY <1>4
  <2>2. Tell(t, "void", day, lines) /\ (\A d \in lines : Accepted(d)) /\ lines \subseteq Docs
    BY <1>1, <2>1 DEF AnularBoletas
  <2>3. LinesFit("void", lines)
    BY <1>2, <2>1, <2>2 DEF LinesFit
  <2>4. \A d \in lines : Waiting("void", d)
    BY <2>2 DEF Waiting
  <2>5. QED
    BY <1>1, <2>2, <2>3, <2>4, TellStep
<1>5. CASE \E lines \in SUBSET (trade \ Boletas) : GenerarBaja(t, lines, day)
  <2>1. PICK lines \in SUBSET (trade \ Boletas) : GenerarBaja(t, lines, day)
    BY <1>5
  <2>2. /\ Tell(t, "baja", day, lines) /\ lines \subseteq Docs
        /\ \A d \in lines : Accepted(d) /\ paper[d].baja = 0
    BY <1>1, <2>1 DEF GenerarBaja
  <2>3. LinesFit("baja", lines)
    BY <1>2, <2>1, <2>2 DEF LinesFit
  <2>4. \A d \in lines : Waiting("baja", d)
    BY <2>2 DEF Waiting
  <2>5. QED
    BY <1>1, <2>2, <2>3, <2>4, TellStep
<1>6. QED
  BY <1>3, <1>4, <1>5

LEMMA ConsultarStep ==
    ASSUME VouchersSound, NEW t \in Tasks, NEW i \in 1..MaxNotices, Consultar(t, i)
    PROVE  VouchersSound'
<1>1. PICK x \in fisc.tickets : x.name = FileOfNotice(i) /\ x.state # "98"
                                /\ Launch(t, [op |-> "poll", notice |-> i, answer |-> x.state])
  BY DEF Consultar
<1>2. PICK rec : rec = [op |-> "poll", notice |-> i, answer |-> x.state]
  OBVIOUS
<1>3. /\ task' = [task EXCEPT ![t] = rec] /\ i \in DOMAIN notices /\ notices[i].ticket
      /\ UNCHANGED <<trade, slot, sold, paper, series, notices, fisc>>
  BY <1>1, <1>2 DEF Launch, Consultar
<1>4. x.state \in {"0", "99"}
  BY <1>1 DEF VouchersSound, VouchersTables, FiscFits, TicketRows
<1>5. rec \in TaskRows
  <2>1. rec \in PollTasks
    BY <1>2, <1>4 DEF PollTasks
  <2>2. QED
    BY <2>1 DEF TaskRows
<1>6. task'[t] = rec /\ rec.op = "poll" /\ rec.notice = i /\ rec.answer = x.state
  BY <1>2, <1>3 DEF VouchersSound, VouchersTables
<1>7. PollHolds(t)'
  <2>1. Decided(FileOfNotice(i), x.state)
    BY <1>1 DEF Decided
  <2>2. Decided(FileOfNotice(i), x.state)'
    BY <1>3, <2>1 DEF Decided, FileOfNotice
  <2>3. QED
    BY <1>3, <1>6, <2>2 DEF PollHolds
<1>8. TaskHolds(t)'
  BY <1>6, <1>7 DEF TaskHolds, IssueHolds, Locks, Apart, TellHolds, Alone, Running, Issuing, Telling
<1>9. QED
  BY <1>3, <1>5, <1>8, TaskMoves

\* The record of a transaction is known by its operation.
LEMMA KindOfTask ==
    ASSUME VouchersTables, NEW t \in Tasks
    PROVE  /\ Running(t, Issuing) => task[t] \in IssueTasks /\ ~Running(t, Telling) /\ ~Running(t, {"poll"})
           /\ Running(t, Telling) => task[t] \in TellTasks /\ ~Running(t, Issuing) /\ ~Running(t, {"poll"})
           /\ Running(t, {"poll"}) => task[t] \in PollTasks /\ ~Running(t, Issuing) /\ ~Running(t, Telling)
<1>1. task[t] \in TaskRows
  BY DEF VouchersTables
<1>2. QED
  BY <1>1 DEF TaskRows, NoTaskYet, IssueTasks, TellTasks, PollTasks, Running, Issuing, Telling

LEMMA ScopeOfDoc ==
    ASSUME VouchersTables, NEW d \in Docs
    PROVE  Scope(d) \in Scopes1 /\ series[Scope(d)] \in Nat
<1>1. Scope(d) \in Scopes1
  BY DEF Scopes1
<1>2. QED
  BY <1>1 DEF VouchersTables

Numbered(r, n) == [r EXCEPT !.number = n]

LEMMA TaskNumbered ==
    ASSUME NEW r \in IssueTasks, NEW n \in Nat
    PROVE  /\ Numbered(r, n) \in IssueTasks /\ Numbered(r, n).number = n
           /\ Numbered(r, n).op = r.op /\ Numbered(r, n).doc = r.doc /\ Numbered(r, n).estado = r.estado
  BY DEF Numbered, IssueTasks

LEMMA ReserveStep ==
    ASSUME VouchersSound, NEW t \in Tasks, ReserveNextNumber(t)
    PROVE  VouchersSound'
<1>1. PICK d, n : d = task[t].doc /\ n = series[Scope(d)] + 1
  OBVIOUS
<1>2. /\ UNCHANGED <<trade, slot, sold, paper, series, notices, fisc>>
      /\ Running(t, Issuing) /\ task[t].number = 0 /\ NextNumberFree(t) /\ IndexFree(t, n)
      /\ Clashes(d, n) \/ task' = [task EXCEPT ![t] = Numbered(task[t], n)]
      /\ Clashes(d, n) => Undone(t)
  BY <1>1 DEF ReserveNextNumber, Numbered
<1>3. CASE Clashes(d, n)
  BY <1>2, <1>3, UndoneStep
<1>4. CASE ~Clashes(d, n)
  <2>1. VouchersTables /\ TaskHolds(t)
    BY DEF VouchersSound
  <2>2. task[t] \in IssueTasks
    BY <1>2, <2>1, KindOfTask
  <2>3. d \in Docs /\ n \in Nat /\ n > 0
    BY <1>1, <2>1, <2>2, ScopeOfDoc DEF IssueTasks
  <2>4. PICK r \in IssueTasks : r = Numbered(task[t], n) /\ r.number = n /\ r.op = task[t].op /\ r.doc = d
                                /\ r.estado = task[t].estado
    BY <1>1, <2>2, <2>3, TaskNumbered
  <2>5. task'[t] = r /\ \A u \in Tasks : u # t => task'[u] = task[u]
    BY <1>2, <1>4, <2>1, <2>4 DEF VouchersTables
  <2>6. paper[d] = NoPaper
    BY <1>4 DEF Clashes
  <2>7. Apart(t)'
    <3>1. SUFFICES ASSUME NEW u \in Tasks \ {t}, Locks(u)
                   PROVE  task[u].doc # d /\ Scope(task[u].doc) # Scope(d)
      BY <2>4, <2>5 DEF Apart, Locks, Running, Scope
    <3>2. Scope(task[u].doc) # Scope(d)
      BY <1>1, <1>2, <3>1, <2>1 DEF NextNumberFree, Locks
    <3>3. QED
      BY <1>1, <1>2, <3>1, <3>2 DEF IndexFree, Locks
  <2>8. IssueHolds(t)'
    <3>1. r.estado # "ACEPTADO"
      BY <1>2, <2>1, <2>4 DEF TaskHolds, IssueHolds
    <3>2. (task[t].op = "note" => d \in Notes) /\ (task[t].op # "note" => d \in Sales) /\ (task[t].op = "emit" => d \in sold)
      BY <1>1, <1>2, <2>1 DEF TaskHolds, IssueHolds
    <3>3. QED
      BY <1>1, <1>2, <2>4, <2>5, <2>6, <2>7, <3>1, <3>2 DEF IssueHolds, Locks, Running, Scope
  <2>9. TaskHolds(t)'
    BY <1>2, <2>4, <2>5, <2>8 DEF TaskHolds, TellHolds, Alone, PollHolds, Running, Issuing, Telling
  <2>10. r \in TaskRows
    BY DEF TaskRows
  <2>11. QED
    BY <1>2, <1>4, <2>4, <2>9, <2>10, TaskMoves
<1>5. QED
  BY <1>3, <1>4

Filed(r, day) == [r EXCEPT !.day = day, !.linked = TRUE]

LEMMA TaskFiled ==
    ASSUME NEW r \in TellTasks, NEW day \in Nat
    PROVE  /\ Filed(r, day) \in TellTasks /\ Filed(r, day).linked
           /\ Filed(r, day).op = r.op /\ Filed(r, day).lines = r.lines
           /\ Filed(r, day).sent = r.sent /\ Filed(r, day).ticket = r.ticket
  BY DEF Filed, TellTasks

LEMMA LinkStep ==
    ASSUME VouchersSound, NEW t \in Tasks, LinkLines(t)
    PROVE  VouchersSound'
<1>1. PICK day : day = UtcDay(slot)
  OBVIOUS
<1>2. /\ UNCHANGED <<trade, slot, sold, paper, series, notices, fisc>>
      /\ Running(t, Telling) /\ ~task[t].linked
      /\ Undone(t) \/ task' = [task EXCEPT ![t] = Filed(task[t], day)]
  BY <1>1 DEF LinkLines, Filed
<1>3. CASE Undone(t)
  BY <1>2, <1>3, UndoneStep
<1>4. CASE task' = [task EXCEPT ![t] = Filed(task[t], day)]
  <2>1. VouchersTables /\ TaskHolds(t)
    BY DEF VouchersSound
  <2>2. task[t] \in TellTasks /\ day \in Nat
    BY <1>1, <1>2, <2>1, KindOfTask, VouchersAssumption DEF VouchersTables, UtcDay
  <2>3. PICK r \in TellTasks : r = Filed(task[t], day) /\ r.linked /\ r.op = task[t].op /\ r.lines = task[t].lines
                               /\ r.sent = task[t].sent /\ r.ticket = task[t].ticket
    BY <2>2, TaskFiled
  <2>4. task'[t] = r /\ \A u \in Tasks : u # t => task'[u] = task[u]
    BY <1>2, <1>4, <2>1, <2>3 DEF VouchersTables
  <2>5. ~r.sent /\ ~r.ticket
    BY <1>2, <2>1, <2>3 DEF TaskHolds, TellHolds
  <2>6. LinesFit(r.op, r.lines) /\ Len(notices) < MaxNotices /\ \A d \in r.lines : Waiting(r.op, d)
    BY <1>2, <2>1, <2>3 DEF TaskHolds, TellHolds, Waits
  <2>7. LinesFit(r.op, r.lines)' /\ \A d \in r.lines : Waiting(r.op, d)'
    BY <1>2, <2>6 DEF LinesFit, Declared, Waiting, Accepted
  <2>8. Alone(t)'
    BY <1>2, <2>1, <2>4 DEF TaskHolds, TellHolds, Alone, Running
  <2>9. TellHolds(t)'
    BY <1>2, <2>3, <2>4, <2>5, <2>6, <2>7, <2>8 DEF TellHolds, Waits
  <2>10. TaskHolds(t)'
    BY <1>2, <2>3, <2>4, <2>9 DEF TaskHolds, IssueHolds, Locks, Apart, PollHolds, Running, Issuing, Telling
  <2>11. r \in TaskRows
    BY DEF TaskRows
  <2>12. QED
    BY <1>2, <1>4, <2>3, <2>10, <2>11, TaskMoves
<1>5. QED
  BY <1>2, <1>3, <1>4

LEMMA TicketsHoldOn ==
    ASSUME TicketsHold, PapersGoOn, fisc.names \subseteq fisc'.names, fisc.voided \subseteq fisc'.voided,
           NEW x \in fisc.tickets
    PROVE  /\ LinesFit(x.kind, x.lines)'
           /\ x.state = "0" /\ x.kind = "add" => \A d \in x.lines : Declared(d)'
           /\ x.state = "0" /\ x.kind # "add" => x.lines \subseteq fisc'.voided
<1>1. LinesFit(x.kind, x.lines)
  BY DEF TicketsHold
<1>2. PICK kind, lines : kind = x.kind /\ lines = x.lines
  OBVIOUS
<1>3. LinesFit(kind, lines)'
  BY <1>1, <1>2, LinesGoOn
<1>4. \A d \in x.lines : Declared(d) => Declared(d)'
  BY <1>1 DEF LinesFit, PapersGoOn, Declared
<1>5. (x.state = "0" /\ x.kind = "add" => \A d \in x.lines : Declared(d)) /\ (x.state = "0" /\ x.kind # "add" => x.lines \subseteq fisc.voided)
  BY DEF TicketsHold
<1>6. QED
  BY <1>2, <1>3, <1>4, <1>5

\* A step of SUNAT or a call of it: the rows stay as they are.
LEMMA SunatMoves ==
    ASSUME VouchersSound, UNCHANGED <<trade, slot, sold, paper, series, notices>>,
           FiscFits', task' \in [Tasks -> TaskRows], TicketsHold', FiscGoesOn,
           NEW t, t \in Tasks => TaskHolds(t)' \/ task'[t] = task[t], \A u \in Tasks : u # t => task'[u] = task[u]
    PROVE  VouchersSound'
<1>1. VouchersTables'
  BY DEF VouchersSound, VouchersTables
<1>2. PapersHold' /\ PapersGoOn /\ NoticesGoOn
  BY DEF VouchersSound, PapersHold, PapersGoOn, NoticesGoOn
<1>3. NumbersHold'
  <2>1. \A s : Issued(s)' = Issued(s)
    BY DEF Issued
  <2>2. QED
    BY <2>1 DEF VouchersSound, NumbersHold
<1>4. NoticesHold'
  BY <1>2, NoticesHoldOn DEF VouchersSound, NoticesHold
<1>5. \A d \in Docs : FollowsNotice(d)'
  BY FollowsOn DEF VouchersSound
<1>6. \A u \in Tasks : TaskHolds(u)
  BY DEF VouchersSound
<1>7. \A u \in Tasks : task'[u] = task[u] => Still(u)
  <2>1. \A u \in Tasks : Locks(u) => paper'[task[u].doc] = NoPaper
    BY <1>6 DEF TaskHolds, IssueHolds
  <2>2. \A u \in Tasks : task'[u] = task[u] /\ Running(u, Telling) => Len(notices') < MaxNotices /\ Waits(u)'
    BY <1>6 DEF TaskHolds, TellHolds, Waits, Waiting, Accepted
  <2>3. QED
    BY <2>1, <2>2 DEF Still
<1>8. \A u \in Tasks : TaskHolds(u)' \/ Still(u)
  BY <1>7
<1>9. QED
  BY <1>1, <1>2, <1>3, <1>4, <1>5, <1>8, VouchersGoOn

Sent(r, state) == [r EXCEPT !.sent = TRUE, !.estado = state]

LEMMA TaskSent ==
    ASSUME NEW r \in IssueTasks, NEW state \in {"BORRADOR", "ACEPTADO", "RECHAZADO", "ERROR"}
    PROVE  /\ Sent(r, state) \in IssueTasks /\ Sent(r, state).number = r.number
           /\ Sent(r, state).op = r.op /\ Sent(r, state).doc = r.doc /\ Sent(r, state).estado = state
  BY DEF Sent, IssueTasks

LEMMA SendBillStep ==
    ASSUME VouchersSound, NEW t \in Tasks, NEW answer \in {"accept", "reject", "fault", "lost", "unstored", "unread"}, SendBill(t, answer)
    PROVE  VouchersSound'
<1>1. PICK d, n : d = task[t].doc /\ n = task[t].number
  OBVIOUS
<1>2. PICK state : state = CASE answer = "accept" -> "ACEPTADO"
                             [] answer = "reject" -> "RECHAZADO"
                             [] answer \in {"fault", "lost"} -> "ERROR"
                             [] answer \in {"unstored", "unread"} -> "BORRADOR"
  OBVIOUS
<1>3. state \in {"BORRADOR", "ACEPTADO", "RECHAZADO", "ERROR"} /\ (state = "ACEPTADO" => answer = "accept")
  BY <1>2
<1>4. /\ Running(t, Issuing) /\ n > 0
      /\ fisc' = IF answer \in {"accept", "lost", "unread"} THEN [fisc EXCEPT !.names = @ \union {NameOf(d, n)}] ELSE fisc
      /\ task' = [task EXCEPT ![t] = Sent(task[t], state)]
      /\ UNCHANGED <<trade, slot, sold, paper, series, notices>>
  BY <1>1, <1>2 DEF SendBill, Sent, NameOf
<1>5. VouchersTables /\ TaskHolds(t) /\ TicketsHold
  BY DEF VouchersSound
<1>6. /\ fisc'.names = fisc.names \union (IF answer \in {"accept", "lost", "unread"} THEN {NameOf(d, n)} ELSE {})
      /\ fisc'.voided = fisc.voided /\ fisc'.tickets = fisc.tickets /\ FiscFits'
  BY <1>4, <1>5 DEF VouchersTables, FiscFits
<1>7. FiscGoesOn
  BY <1>6 DEF FiscGoesOn, Ticketed, Decided
<1>8. TicketsHold'
  <2>1. PapersGoOn
    BY <1>4 DEF PapersGoOn
  <2>2. \A x \in fisc.tickets : /\ LinesFit(x.kind, x.lines)'
                                /\ x.state = "0" /\ x.kind = "add" => \A e \in x.lines : Declared(e)'
                                /\ x.state = "0" /\ x.kind # "add" => x.lines \subseteq fisc'.voided
    BY <1>5, <1>7, <2>1, TicketsHoldOn DEF FiscGoesOn
  <2>3. \A x, y \in fisc.tickets : x.name = y.name => x = y
    BY <1>5 DEF TicketsHold
  <2>4. QED
    BY <1>6, <2>2, <2>3 DEF TicketsHold
<1>9. PICK r \in IssueTasks : /\ r = Sent(task[t], state) /\ r.number = n /\ r.op = task[t].op /\ r.doc = d
                              /\ r.estado = state
  BY <1>1, <1>3, <1>4, <1>5, KindOfTask, TaskSent
<1>10. task'[t] = r /\ (\A u \in Tasks : u # t => task'[u] = task[u]) /\ task' \in [Tasks -> TaskRows]
  <2>1. r \in TaskRows
    BY DEF TaskRows
  <2>2. QED
    BY <1>4, <1>5, <1>9, <2>1 DEF VouchersTables
<1>11. IssueHolds(t)'
  <2>1. Apart(t)'
    BY <1>1, <1>4, <1>5, <1>9, <1>10 DEF TaskHolds, IssueHolds, Apart, Locks, Running, Scope
  <2>2. /\ (r.op = "note" => d \in Notes) /\ (r.op # "note" => d \in Sales) /\ (r.op = "emit" => d \in sold)
        /\ paper[d] = NoPaper /\ n = series[Scope(d)] + 1
    BY <1>1, <1>4, <1>5, <1>9 DEF TaskHolds, IssueHolds, Locks
  <2>3. r.estado = "ACEPTADO" => n > 0 /\ NameOf(d, n) \in fisc'.names
    BY <1>3, <1>4, <1>6, <1>9
  <2>4. QED
    BY <1>4, <1>9, <1>10, <2>1, <2>2, <2>3 DEF IssueHolds, Locks, Running, NameOf, nombreArchivo, Scope
<1>12. TaskHolds(t)'
  BY <1>4, <1>9, <1>10, <1>11 DEF TaskHolds, TellHolds, Alone, PollHolds, Running, Issuing, Telling
<1>13. QED
  BY <1>4, <1>6, <1>7, <1>8, <1>10, <1>12, SunatMoves

Told(r, ticket) == [r EXCEPT !.sent = TRUE, !.ticket = ticket]

LEMMA TaskTold ==
    ASSUME NEW r \in TellTasks, NEW ticket \in BOOLEAN
    PROVE  /\ Told(r, ticket) \in TellTasks /\ Told(r, ticket).linked = r.linked
           /\ Told(r, ticket).op = r.op /\ Told(r, ticket).lines = r.lines /\ FileOf(Told(r, ticket)) = FileOf(r)
           /\ Told(r, ticket).ticket = ticket
  BY DEF Told, TellTasks, FileOf

LEMMA SendSummaryStep ==
    ASSUME VouchersSound, NEW t \in Tasks, NEW answer \in {"ticket", "fault", "lost"}, SendSummary(t, answer)
    PROVE  VouchersSound'
<1>1. PICK kind, lines, name, ticket : /\ kind = task[t].op /\ lines = task[t].lines /\ name = FileOf(task[t])
                                       /\ ticket = (answer = "ticket")
  OBVIOUS
<1>2. PICK new : new = [name |-> name, kind |-> kind, lines |-> lines, state |-> "98"]
  OBVIOUS
<1>3. /\ Running(t, Telling) /\ task[t].linked
      /\ answer \in {"ticket", "lost"} => \A x \in fisc.tickets : x.name # name
      /\ fisc' = IF answer \in {"ticket", "lost"} THEN [fisc EXCEPT !.tickets = @ \union {new}] ELSE fisc
      /\ task' = [task EXCEPT ![t] = Told(task[t], ticket)]
      /\ UNCHANGED <<trade, slot, sold, paper, series, notices>>
  BY <1>1, <1>2 DEF SendSummary, Told
<1>4. VouchersTables /\ TaskHolds(t) /\ TicketsHold
  BY DEF VouchersSound
<1>5. task[t] \in TellTasks
  BY <1>3, <1>4, KindOfTask
<1>6. new \in TicketRows /\ new.name = name /\ new.kind = kind /\ new.lines = lines /\ new.state = "98"
  BY <1>1, <1>2, <1>5 DEF TicketRows, TellTasks, FileOf, Table
<1>7. /\ fisc'.tickets = fisc.tickets \union (IF answer \in {"ticket", "lost"} THEN {new} ELSE {})
      /\ fisc'.voided = fisc.voided /\ fisc'.names = fisc.names /\ FiscFits'
  BY <1>3, <1>4, <1>6 DEF VouchersTables, FiscFits
<1>8. FiscGoesOn
  BY <1>7 DEF FiscGoesOn, Ticketed, Decided
<1>9. LinesFit(kind, lines) /\ Len(notices) < MaxNotices /\ \A d \in lines : Waiting(kind, d)
  BY <1>1, <1>3, <1>4 DEF TaskHolds, TellHolds, Waits
<1>10. LinesFit(kind, lines)' /\ \A d \in lines : Waiting(kind, d)'
  BY <1>3, <1>7, <1>9 DEF LinesFit, Declared, Waiting, Accepted
<1>11. TicketsHold'
  <2>1. PapersGoOn
    BY <1>3 DEF PapersGoOn
  <2>2. \A x \in fisc.tickets : /\ LinesFit(x.kind, x.lines)'
                                /\ x.state = "0" /\ x.kind = "add" => \A e \in x.lines : Declared(e)'
                                /\ x.state = "0" /\ x.kind # "add" => x.lines \subseteq fisc'.voided
    BY <1>4, <1>8, <2>1, TicketsHoldOn DEF FiscGoesOn
  <2>3. \A x, y \in fisc.tickets : x.name = y.name => x = y
    BY <1>4 DEF TicketsHold
  <2>4. \A x, y \in fisc'.tickets : x.name = y.name => x = y
    BY <1>3, <1>6, <1>7, <2>3
  <2>5. \A x \in fisc'.tickets : x \in fisc.tickets \/ x = new
    BY <1>7
  <2>6. LinesFit(new.kind, new.lines)' /\ new.state # "0"
    BY <1>6, <1>10
  <2>7. QED
    BY <2>2, <2>4, <2>5, <2>6 DEF TicketsHold
<1>12. PICK r \in TellTasks : /\ r = Told(task[t], ticket) /\ r.linked = task[t].linked /\ r.op = kind /\ r.lines = lines
                              /\ FileOf(r) = name /\ r.ticket = ticket
  BY <1>1, <1>5, TaskTold
<1>13. r.sent
  BY <1>5, <1>12 DEF Told, TellTasks
<1>14. task'[t] = r /\ (\A u \in Tasks : u # t => task'[u] = task[u]) /\ task' \in [Tasks -> TaskRows]
  <2>1. r \in TaskRows
    BY DEF TaskRows
  <2>2. QED
    BY <1>3, <1>4, <1>12, <2>1 DEF VouchersTables
<1>15. TellHolds(t)'
  <2>1. Alone(t)'
    BY <1>3, <1>4, <1>14 DEF TaskHolds, TellHolds, Alone, Running
  <2>2. ticket => Ticketed(name, kind, lines)'
    BY <1>1, <1>6, <1>7 DEF Ticketed
  <2>3. QED
    BY <1>3, <1>9, <1>10, <1>12, <1>13, <1>14, <2>1, <2>2 DEF TellHolds, Waits
<1>16. TaskHolds(t)'
  BY <1>1, <1>3, <1>12, <1>14, <1>15 DEF TaskHolds, IssueHolds, Locks, Apart, PollHolds, Running, Issuing, Telling
<1>17. QED
  BY <1>3, <1>7, <1>8, <1>11, <1>14, <1>16, SunatMoves

Judged(x, verdict) == [x EXCEPT !.state = verdict]

LEMMA TicketJudged ==
    ASSUME NEW x \in TicketRows, NEW verdict \in {"0", "99"}
    PROVE  /\ Judged(x, verdict) \in TicketRows /\ Judged(x, verdict).name = x.name
           /\ Judged(x, verdict).kind = x.kind /\ Judged(x, verdict).lines = x.lines
           /\ Judged(x, verdict).state = verdict
  BY DEF Judged, TicketRows

LEMMA DecideStep ==
    ASSUME VouchersSound, NEW x \in fisc.tickets, NEW verdict \in {"0", "99"}, Decide(x, verdict)
    PROVE  VouchersSound'
<1>1. VouchersTables /\ TicketsHold /\ x \in TicketRows /\ fisc.tickets \subseteq TicketRows
  BY DEF VouchersSound, VouchersTables, FiscFits
<1>2. PICK y \in TicketRows : /\ y = Judged(x, verdict) /\ y.name = x.name /\ y.kind = x.kind /\ y.lines = x.lines
                              /\ y.state = verdict
  BY <1>1, TicketJudged
<1>3. /\ x.state = "98"
      /\ fisc' = [names |-> IF verdict = "0" /\ x.kind = "add" THEN fisc.names \union Named(x.lines) ELSE fisc.names,
                  voided |-> IF verdict = "0" /\ x.kind # "add" THEN fisc.voided \union x.lines ELSE fisc.voided,
                  tickets |-> (fisc.tickets \ {x}) \union {y}]
      /\ UNCHANGED <<trade, slot, sold, paper, series, notices, task>>
  BY <1>2 DEF Decide, Judged
<1>4. /\ fisc'.tickets = (fisc.tickets \ {x}) \union {y} /\ FiscFits'
      /\ fisc.names \subseteq fisc'.names /\ fisc.voided \subseteq fisc'.voided
      /\ verdict = "0" /\ x.kind = "add" => Named(x.lines) \subseteq fisc'.names
      /\ verdict = "0" /\ x.kind # "add" => x.lines \subseteq fisc'.voided
  BY <1>1, <1>3 DEF FiscFits
<1>5. FiscGoesOn
  <2>1. ASSUME NEW name, NEW kind, NEW lines, Ticketed(name, kind, lines)
        PROVE  Ticketed(name, kind, lines)'
    BY <1>2, <1>4, <2>1 DEF Ticketed
  <2>2. ASSUME NEW name, NEW v \in {"0", "99"}, Decided(name, v)
        PROVE  Decided(name, v)'
    <3>1. PICK z \in fisc.tickets : z.name = name /\ z.state = v
      BY <2>2 DEF Decided
    <3>2. z # x
      BY <1>3, <3>1, <2>2
    <3>3. QED
      BY <1>4, <3>1, <3>2 DEF Decided
  <2>3. QED
    BY <1>4, <2>1, <2>2 DEF FiscGoesOn
<1>6. TicketsHold'
  <2>1. PapersGoOn
    BY <1>3 DEF PapersGoOn
  <2>2. \A z \in fisc.tickets : /\ LinesFit(z.kind, z.lines)'
                                /\ z.state = "0" /\ z.kind = "add" => \A e \in z.lines : Declared(e)'
                                /\ z.state = "0" /\ z.kind # "add" => z.lines \subseteq fisc'.voided
    BY <1>1, <1>4, <2>1, TicketsHoldOn
  <2>3. \A z, w \in fisc.tickets : z.name = w.name => z = w
    BY <1>1 DEF TicketsHold
  <2>4. \A z, w \in fisc'.tickets : z.name = w.name => z = w
    BY <1>2, <1>4, <2>3
  <2>5. LinesFit(y.kind, y.lines)'
    <3>1. PICK kind, lines : kind = x.kind /\ lines = x.lines
      OBVIOUS
    <3>2. LinesFit(kind, lines)'
      BY <2>2, <3>1
    <3>3. QED
      BY <1>2, <3>1, <3>2
  <2>6. verdict = "0" /\ x.kind = "add" => \A d \in x.lines : Declared(d)'
    BY <1>3, <1>4 DEF Named, Declared, NameOf
  <2>7. \A z \in fisc'.tickets : z \in fisc.tickets \/ z = y
    BY <1>4
  <2>8. /\ LinesFit(y.kind, y.lines)'
        /\ y.state = "0" /\ y.kind = "add" => \A e \in y.lines : Declared(e)'
        /\ y.state = "0" /\ y.kind # "add" => y.lines \subseteq fisc'.voided
    BY <1>2, <1>4, <2>5, <2>6
  <2>9. QED
    BY <2>2, <2>4, <2>7, <2>8 DEF TicketsHold
<1>7. task' \in [Tasks -> TaskRows] /\ \A u \in Tasks : task'[u] = task[u]
  BY <1>1, <1>3 DEF VouchersTables
<1>8. QED
  BY <1>3, <1>4, <1>5, <1>6, <1>7, SunatMoves

LEMMA CommitVoucherStep ==
    ASSUME VouchersSound, NEW t \in Tasks, CommitVoucher(t)
    PROVE  VouchersSound'
<1>1. VouchersTables /\ PapersHold /\ NumbersHold /\ TicketsHold /\ NoticesHold /\ TaskHolds(t)
  BY DEF VouchersSound
<1>2. Locks(t) /\ Running(t, Issuing)
  BY DEF CommitVoucher, Locks
<1>3. task[t] \in IssueTasks
  BY <1>1, <1>2, KindOfTask
<1>4. PICK d, n, s : d = task[t].doc /\ n = task[t].number /\ s = Scope(d)
  OBVIOUS
<1>5. PICK row : row = [estado |-> task[t].estado, number |-> n, at |-> task[t].at, link |-> 0, baja |-> 0]
  OBVIOUS
<1>6. /\ paper' = [paper EXCEPT ![d] = row] /\ series' = [series EXCEPT ![s] = n]
      /\ sold' = (IF task[t].op = "sale" THEN sold \union {d} ELSE sold)
      /\ task' = [task EXCEPT ![t] = NoTaskYet]
      /\ UNCHANGED <<trade, slot, notices, fisc>>
  BY <1>4, <1>5 DEF CommitVoucher, SeriesAfter, Undone
<1>7. d \in Docs /\ s \in Scopes1 /\ n \in Nat /\ n > 0 /\ n = series[s] + 1 /\ series[s] \in Nat /\ paper[d] = NoPaper
  BY <1>1, <1>2, <1>3, <1>4, ScopeOfDoc DEF TaskHolds, IssueHolds, Locks, IssueTasks
<1>8. /\ row.estado \in {"BORRADOR", "ACEPTADO", "RECHAZADO", "ERROR"} /\ row.number = n /\ row.link = 0 /\ row.baja = 0
      /\ row.estado = task[t].estado /\ row \in PaperRows /\ row # NoPaper
  <2>1. row \in PaperRows
    BY <1>3, <1>5, <1>7, VouchersAssumption DEF IssueTasks, PaperRows, Estados
  <2>2. row.number # NoPaper.number
    BY <1>5, <1>7 DEF NoPaper
  <2>3. QED
    BY <1>3, <1>5, <2>1, <2>2 DEF IssueTasks
<1>9. paper'[d] = row /\ \A e \in Docs : e # d => paper'[e] = paper[e]
  BY <1>1, <1>6, <1>7 DEF VouchersTables
<1>10. series'[s] = n /\ \A c \in Scopes1 : c # s => series'[c] = series[c]
  BY <1>1, <1>6, <1>7 DEF VouchersTables
<1>11. d \in Sales => d \in sold'
  <2>1. d \in Sales => task[t].op \in {"sale", "emit"}
    BY <1>1, <1>2, <1>4, VouchersAssumption DEF TaskHolds, IssueHolds, Running, Issuing
  <2>2. task[t].op = "emit" => d \in sold
    BY <1>1, <1>2, <1>4 DEF TaskHolds, IssueHolds
  <2>3. QED
    BY <1>6, <2>1, <2>2
<1>12. sold' \subseteq Sales /\ sold \subseteq sold'
  BY <1>1, <1>2, <1>4, <1>6 DEF TaskHolds, IssueHolds, VouchersTables
<1>13. TaskHolds(t)' /\ task' \in [Tasks -> TaskRows]
  BY <1>1, <1>6, NothingInFlight DEF VouchersTables
<1>14. VouchersTables'
  <2>1. paper' \in [Docs -> PaperRows]
    BY <1>1, <1>6, <1>8 DEF VouchersTables
  <2>2. series' \in [Scopes1 -> Nat]
    BY <1>1, <1>6, <1>7 DEF VouchersTables
  <2>3. QED
    BY <1>1, <1>6, <1>12, <1>13, <2>1, <2>2 DEF VouchersTables, FiscFits
<1>15. PapersHold'
  BY <1>1, <1>7, <1>8, <1>9, <1>11, <1>12 DEF PapersHold
<1>16. PapersGoOn /\ FiscGoesOn /\ NoticesGoOn
  BY <1>6, <1>7, <1>9 DEF PapersGoOn, FiscGoesOn, NoticesGoOn, Ticketed, Decided
<1>17. NumbersHold'
  <2>1. ASSUME NEW c \in Scopes1, c # s
        PROVE  Issued(c)' = Issued(c) /\ \A e \in Issued(c) : paper'[e] = paper[e]
    BY <1>4, <1>9, <2>1 DEF Issued, Scope
  <2>2. Issued(s)' = Issued(s) \union {d} /\ d \notin Issued(s) /\ \A e \in Issued(s) : paper'[e] = paper[e]
    BY <1>4, <1>7, <1>8, <1>9 DEF Issued, Scope
  <2>3. IsFiniteSet(Issued(s)) /\ Cardinality(Issued(s)) = series[s] /\ {paper[e].number : e \in Issued(s)} = 1..series[s]
    BY <1>1, <1>7 DEF NumbersHold
  <2>4. IsFiniteSet(Issued(s) \union {d}) /\ Cardinality(Issued(s) \union {d}) = Cardinality(Issued(s)) + 1
    BY <2>2, <2>3, FS_AddElement
  <2>5. {paper'[e].number : e \in Issued(s) \union {d}} = 1..n
    <3>1. {paper'[e].number : e \in Issued(s) \union {d}} = {paper[e].number : e \in Issued(s)} \union {n}
      BY <1>8, <1>9, <2>2
    <3>2. (1..series[s]) \union {n} = 1..n
      BY <1>7
    <3>3. QED
      BY <2>3, <3>1, <3>2
  <2>6. /\ IsFiniteSet(Issued(s)') /\ Cardinality(Issued(s)') = series'[s]
        /\ {paper'[e].number : e \in Issued(s)'} = 1..series'[s]
    BY <1>7, <1>10, <2>2, <2>3, <2>4, <2>5
  <2>7. ASSUME NEW c \in Scopes1
        PROVE  /\ IsFiniteSet(Issued(c)') /\ Cardinality(Issued(c)') = series'[c]
               /\ {paper'[e].number : e \in Issued(c)'} = 1..series'[c]
    <3>1. CASE c = s
      BY <2>6, <3>1
    <3>2. CASE c # s
      <4>1. IsFiniteSet(Issued(c)) /\ Cardinality(Issued(c)) = series[c] /\ {paper[e].number : e \in Issued(c)} = 1..series[c]
        BY <1>1 DEF NumbersHold
      <4>2. {paper'[e].number : e \in Issued(c)} = {paper[e].number : e \in Issued(c)}
        BY <2>1, <3>2
      <4>3. QED
        BY <1>10, <2>1, <3>2, <4>1, <4>2
    <3>3. QED
      BY <3>1, <3>2
  <2>8. QED
    BY <2>7 DEF NumbersHold
<1>18. TicketsHold'
  <2>1. \A x \in fisc.tickets : /\ LinesFit(x.kind, x.lines)'
                                /\ x.state = "0" /\ x.kind = "add" => \A e \in x.lines : Declared(e)'
                                /\ x.state = "0" /\ x.kind # "add" => x.lines \subseteq fisc'.voided
    BY <1>1, <1>16, TicketsHoldOn DEF FiscGoesOn
  <2>2. QED
    BY <1>1, <1>6, <2>1 DEF TicketsHold
<1>19. NoticesHold'
  BY <1>1, <1>6, <1>16, NoticesHoldOn DEF NoticesHold
<1>20. \A e \in Docs : FollowsNotice(e)'
  <2>1. \A e \in Docs : e # d => FollowsNotice(e)'
    BY <1>6, <1>9, <1>16, FollowsOn DEF VouchersSound
  <2>2. FollowsNotice(d)'
    <3>1. row.estado = "ACEPTADO" => Declared(d)'
      BY <1>1, <1>2, <1>4, <1>6, <1>8, <1>9 DEF TaskHolds, IssueHolds, Declared, NameOf, nombreArchivo, Scope
    <3>2. Carried(d)' /\ Voided(d)'
      BY <1>8, <1>9 DEF Carried, Voided
    <3>3. Answered1(d)'
      BY <1>8, <1>9, <3>1 DEF Answered1
    <3>4. QED
      BY <3>2, <3>3 DEF FollowsNotice
  <2>3. QED
    BY <2>1, <2>2
<1>21. ASSUME NEW u \in Tasks, u # t
       PROVE  Still(u)
  <2>1. TaskHolds(u) /\ task'[u] = task[u]
    BY <1>1, <1>6, <1>21 DEF VouchersSound, VouchersTables
  <2>2. Locks(u) => task[u].doc # d /\ Scope(task[u].doc) # s /\ paper[task[u].doc] = NoPaper /\ task[u].doc \in Docs
    BY <1>1, <1>2, <1>4, <1>21, <2>1, KindOfTask DEF TaskHolds, IssueHolds, Apart, Locks, IssueTasks
  <2>3. Locks(u) => /\ paper'[task[u].doc] = NoPaper
                    /\ series'[Scope(task[u].doc)] = series[Scope(task[u].doc)]
    BY <1>1, <1>9, <1>10, <2>2, ScopeOfDoc
  <2>4. Running(u, Telling) => Len(notices') < MaxNotices /\ Waits(u)'
    <3>1. SUFFICES ASSUME Running(u, Telling)
                   PROVE  Len(notices') < MaxNotices /\ Waits(u)'
      OBVIOUS
    <3>2. \A e \in task[u].lines : e \in Docs /\ e # d
      BY <1>7, <2>1, <3>1 DEF TaskHolds, TellHolds, LinesFit
    <3>3. QED
      BY <1>6, <1>9, <2>1, <3>1, <3>2 DEF TaskHolds, TellHolds, Waits, Waiting, Accepted
  <2>5. QED
    BY <2>1, <2>3, <2>4 DEF Still
<1>22. \A u \in Tasks : TaskHolds(u)' \/ Still(u)
  BY <1>13, <1>21
<1>23. QED
  BY <1>12, <1>14, <1>15, <1>16, <1>17, <1>18, <1>19, <1>20, <1>22, VouchersGoOn

Linked(row, id) == [row EXCEPT !.link = id, !.estado = "ENVIADO"]
Dropped(row, state) == [row EXCEPT !.link = 0, !.estado = state]
Marked(row, id) == [row EXCEPT !.baja = id]
Concluded(row, state) == [row EXCEPT !.estado = state]

LEMMA PaperLinked ==
    ASSUME NEW row \in PaperRows, NEW id \in 0..MaxNotices
    PROVE  /\ Linked(row, id) \in PaperRows /\ Linked(row, id).number = row.number /\ Linked(row, id).link = id
           /\ Linked(row, id).baja = row.baja /\ Linked(row, id).estado = "ENVIADO"
<1>1. "ENVIADO" \in Estados
  BY DEF Estados
<1>2. QED
  BY <1>1 DEF Linked, PaperRows

LEMMA PaperDropped ==
    ASSUME NEW row \in PaperRows, NEW state \in Estados
    PROVE  /\ Dropped(row, state) \in PaperRows /\ Dropped(row, state).number = row.number
           /\ Dropped(row, state).link = 0 /\ Dropped(row, state).baja = row.baja
           /\ Dropped(row, state).estado = state
<1>1. 0 \in 0..MaxNotices
  BY VouchersAssumption
<1>2. QED
  BY <1>1 DEF Dropped, PaperRows

LEMMA PaperMarked ==
    ASSUME NEW row \in PaperRows, NEW id \in 0..MaxNotices
    PROVE  /\ Marked(row, id) \in PaperRows /\ Marked(row, id).number = row.number
           /\ Marked(row, id).link = row.link /\ Marked(row, id).baja = id /\ Marked(row, id).estado = row.estado
  BY DEF Marked, PaperRows

LEMMA PaperConcluded ==
    ASSUME NEW row \in PaperRows, NEW state \in Estados
    PROVE  /\ Concluded(row, state) \in PaperRows /\ Concluded(row, state).number = row.number
           /\ Concluded(row, state).link = row.link /\ Concluded(row, state).baja = row.baja
           /\ Concluded(row, state).estado = state
  BY DEF Concluded, PaperRows

\* A step that writes rows of vouchers but numbers none.
Rewrites(d) ==
    paper'[d] = paper[d] \/ (/\ paper[d] # NoPaper /\ paper'[d] \in PaperRows /\ paper'[d].number = paper[d].number
                             /\ paper'[d].estado # "NONE")

LEMMA PapersMove ==
    ASSUME VouchersSound, UNCHANGED <<trade, slot, sold, series, fisc>>,
           \E F : paper' = [d \in Docs |-> F[d]], \A d \in Docs : Rewrites(d),
           notices' \in Seq(NoticeRows), Len(notices') <= MaxNotices, task' \in [Tasks -> TaskRows]
    PROVE  /\ VouchersTables' /\ PapersHold' /\ NumbersHold' /\ TicketsHold' /\ PapersGoOn /\ FiscGoesOn
           /\ \A d \in Docs : paper[d] = NoPaper => paper'[d] = NoPaper
<1>1. VouchersTables /\ PapersHold /\ NumbersHold /\ TicketsHold
  BY DEF VouchersSound
<1>2. \A d \in Docs : paper[d] # NoPaper => paper'[d] # NoPaper /\ paper'[d].number = paper[d].number
  <2>1. \A d \in Docs : paper[d] # NoPaper => paper[d].number > 0
    BY <1>1 DEF PapersHold
  <2>2. NoPaper.number = 0
    BY DEF NoPaper
  <2>3. QED
    BY <2>1, <2>2 DEF Rewrites
<1>3. \A d \in Docs : paper[d] = NoPaper => paper'[d] = NoPaper
  BY DEF Rewrites
<1>4. PapersGoOn /\ FiscGoesOn
  BY <1>2 DEF PapersGoOn, FiscGoesOn, Ticketed, Decided
<1>5. VouchersTables'
  <2>1. \A d \in Docs : paper'[d] \in PaperRows
    BY <1>1 DEF VouchersTables, Rewrites
  <2>2. paper' \in [Docs -> PaperRows]
    BY <2>1
  <2>3. QED
    BY <1>1, <2>2 DEF VouchersTables, FiscFits
<1>6. PapersHold'
  BY <1>1, <1>2, <1>3 DEF PapersHold, Rewrites
<1>7. NumbersHold'
  <2>1. \A s : Issued(s)' = Issued(s)
    BY <1>2, <1>3 DEF Issued, Scope
  <2>2. \A s : \A d \in Issued(s) : paper'[d].number = paper[d].number
    BY <1>2 DEF Issued
  <2>3. \A s : {paper'[d].number : d \in Issued(s)} = {paper[d].number : d \in Issued(s)}
    BY <2>2
  <2>4. QED
    BY <1>1, <2>1, <2>3 DEF NumbersHold
<1>8. TicketsHold'
  <2>1. \A x \in fisc.tickets : /\ LinesFit(x.kind, x.lines)'
                                /\ x.state = "0" /\ x.kind = "add" => \A e \in x.lines : Declared(e)'
                                /\ x.state = "0" /\ x.kind # "add" => x.lines \subseteq fisc'.voided
    BY <1>1, <1>4, TicketsHoldOn DEF FiscGoesOn
  <2>2. QED
    BY <1>1, <2>1 DEF TicketsHold
<1>9. QED
  BY <1>3, <1>4, <1>5, <1>6, <1>7, <1>8

NoticeOf(r, status) == [kind |-> r.op, ref |-> r.ref, day |-> r.day, number |-> r.number,
                        lines |-> r.lines, ticket |-> r.ticket, status |-> status]

LEMMA NoticeWritten ==
    ASSUME NEW r \in TellTasks, NEW status \in {"PENDING", "ERROR"}
    PROVE  /\ NoticeOf(r, status) \in NoticeRows /\ NoticeOf(r, status).kind = r.op
           /\ NoticeOf(r, status).lines = r.lines /\ NoticeOf(r, status).ticket = r.ticket
           /\ NoticeOf(r, status).status = status
           /\ <<Table(NoticeOf(r, status).kind), NoticeOf(r, status).day, NoticeOf(r, status).number>> = FileOf(r)
  BY DEF NoticeOf, TellTasks, NoticeRows, FileOf

LEMMA PaperNumbers ==
    ASSUME VouchersTables, NEW d \in Docs
    PROVE  paper[d] \in PaperRows /\ paper[d].link \in Nat /\ paper[d].baja \in Nat /\ paper[d].number \in Nat
<1>1. paper[d] \in PaperRows
  BY DEF VouchersTables
<1>2. QED
  BY <1>1, VouchersAssumption DEF PaperRows

\* A sale's boleta is voided by a summary, all else by a communication.
LEMMA BoletasHaveNoBaja ==
    ASSUME VouchersSound, NEW d \in Boletas
    PROVE  paper[d].baja = 0
<1>1. d \in Docs
  BY BoletasAreDocs
<1>2. FollowsNotice(d) /\ NoticesHold /\ paper[d].baja \in Nat
  BY <1>1, VouchersAssumption DEF VouchersSound, VouchersTables, PaperRows
<1>3. SUFFICES ASSUME paper[d].baja > 0
               PROVE  FALSE
  BY <1>2
<1>4. PICK i : i = paper[d].baja /\ i \in DOMAIN notices /\ d \in notices[i].lines /\ notices[i].kind = "baja"
  BY <1>2, <1>3 DEF FollowsNotice, Voided
<1>5. QED
  BY <1>2, <1>4 DEF NoticesHold, NoticeFits, LinesFit

\* What a step may not do to a voucher that SUNAT has accepted.
Kept(d) ==
    /\ Accepted(d) => paper'[d].estado \in {"ACEPTADO", "ENVIADO", "ANULADO"}
    /\ paper[d].estado = "ENVIADO" /\ notices[paper[d].link].kind = "void" =>
          paper'[d].estado \in {"ENVIADO", "ACEPTADO", "ANULADO"}
    /\ paper[d].estado = "ANULADO" /\ d \in Sales => paper'[d].estado = "ANULADO"

LEMMA CommitNoticeStep ==
    ASSUME VouchersSound, NEW t \in Tasks, CommitNotice(t)
    PROVE  VouchersSound' /\ \A d \in Docs : Kept(d)
<1>1. VouchersTables /\ NoticesHold /\ TaskHolds(t) /\ \A d \in Docs : FollowsNotice(d)
  BY DEF VouchersSound
<1>2. Running(t, Telling)
  BY DEF CommitNotice
<1>3. PICK r \in TellTasks : r = task[t]
  BY <1>1, <1>2, KindOfTask
<1>0. PICK stays \in BOOLEAN : stays <=> r.ticket \/ Unsent(r)
  <2>1. (r.ticket \/ Unsent(r)) \in BOOLEAN
    OBVIOUS
  <2>2. QED
    BY <2>1, Zenon
<1>4. PICK id, status, new : /\ id = Len(notices) + 1 /\ status = IF stays THEN "PENDING" ELSE "ERROR"
                             /\ new = NoticeOf(r, status)
  OBVIOUS
<1>5. /\ notices' = Append(notices, new) /\ task' = [task EXCEPT ![t] = NoTaskYet]
      /\ paper' = [d \in Docs |->
                  IF d \notin r.lines THEN paper[d]
                  ELSE IF r.op = "baja" THEN Marked(paper[d], IF stays THEN id ELSE 0)
                  ELSE IF stays THEN Linked(paper[d], id)
                  ELSE Dropped(paper[d], Reverts(r.op))]
      /\ UNCHANGED <<trade, slot, sold, series, fisc>>
  <2>1. new = [kind |-> r.op, ref |-> r.ref, day |-> r.day, number |-> r.number, lines |-> r.lines, ticket |-> r.ticket,
               status |-> IF r.ticket \/ Unsent(r) THEN "PENDING" ELSE "ERROR"]
    BY <1>0, <1>4 DEF NoticeOf
  <2>2. notices' = Append(notices, new) /\ task' = [task EXCEPT ![t] = NoTaskYet]
        /\ UNCHANGED <<trade, slot, sold, series, fisc>>
    BY <1>3, <2>1 DEF CommitNotice, Undone
  <2>3. paper' = [d \in Docs |->
                  IF d \notin r.lines THEN paper[d]
                  ELSE IF r.op = "baja" THEN Marked(paper[d], IF r.ticket \/ Unsent(r) THEN id ELSE 0)
                  ELSE IF r.ticket \/ Unsent(r) THEN Linked(paper[d], id)
                  ELSE Dropped(paper[d], Reverts(r.op))]
    BY <1>3, <1>4 DEF CommitNotice, Marked, Linked, Dropped
  <2>4. QED
    BY <1>0, <2>2, <2>3
<1>6. /\ LinesFit(r.op, r.lines) /\ Len(notices) < MaxNotices /\ (\A d \in r.lines : Waiting(r.op, d)) /\ Alone(t)
      /\ r.ticket => Ticketed(FileOf(r), r.op, r.lines)
  BY <1>1, <1>2, <1>3 DEF TaskHolds, TellHolds, Waits
<1>7. /\ r.op \in Telling /\ status \in {"PENDING", "ERROR"} /\ (stays => status = "PENDING")
      /\ notices \in Seq(NoticeRows) /\ id \in 0..MaxNotices /\ id > 0 /\ 0 \in 0..MaxNotices
      /\ Reverts(r.op) = IF r.op = "add" THEN "BORRADOR" ELSE "ACEPTADO"
  BY <1>1, <1>4, <1>6, VouchersAssumption DEF VouchersTables, TellTasks, Reverts
<1>8. /\ new \in NoticeRows /\ new.kind = r.op /\ new.lines = r.lines /\ new.ticket = r.ticket /\ new.status = status
      /\ <<Table(new.kind), new.day, new.number>> = FileOf(r)
  BY <1>4, <1>7, NoticeWritten
<1>9. /\ notices' \in Seq(NoticeRows) /\ Len(notices') = id /\ DOMAIN notices' = 1..id /\ notices'[id] = new
      /\ \A i \in DOMAIN notices : i \in DOMAIN notices' /\ notices'[i] = notices[i] /\ i # id
      /\ \A i \in DOMAIN notices' : i = id \/ i \in DOMAIN notices
  BY <1>4, <1>5, <1>7, <1>8
<1>10. NoticesGoOn
  BY <1>9 DEF NoticesGoOn
<1>11. \A d \in Docs : d \notin r.lines => paper'[d] = paper[d]
  BY <1>5
<1>12. ASSUME NEW d \in r.lines
       PROVE  /\ d \in Docs /\ paper[d] # NoPaper /\ paper'[d] \in PaperRows /\ paper'[d].number = paper[d].number
              /\ r.op = "baja" => /\ paper'[d].baja = (IF stays THEN id ELSE 0)
                                  /\ paper'[d].link = paper[d].link /\ paper'[d].estado = paper[d].estado
              /\ r.op # "baja" => /\ paper'[d].baja = paper[d].baja
                                  /\ paper'[d].link = (IF stays THEN id ELSE 0)
                                  /\ paper'[d].estado = (IF stays THEN "ENVIADO" ELSE Reverts(r.op))
  <2>1. d \in Docs /\ paper[d] # NoPaper
    BY <1>6 DEF LinesFit
  <2>2. paper[d] \in PaperRows /\ Reverts(r.op) \in Estados
    BY <1>1, <1>7, <2>1 DEF VouchersTables, Estados
  <2>3. CASE r.op = "baja"
    <3>1. paper'[d] = Marked(paper[d], IF stays THEN id ELSE 0)
      BY <1>5, <2>1, <2>3, <1>12
    <3>2. (IF stays THEN id ELSE 0) \in 0..MaxNotices
      BY <1>7
    <3>3. QED
      BY <2>1, <2>2, <2>3, <3>1, <3>2, PaperMarked
  <2>4. CASE r.op # "baja" /\ stays
    <3>1. paper'[d] = Linked(paper[d], id)
      BY <1>5, <2>1, <2>4, <1>12
    <3>2. QED
      BY <1>7, <2>1, <2>2, <2>4, <3>1, PaperLinked
  <2>5. CASE r.op # "baja" /\ ~stays
    <3>1. paper'[d] = Dropped(paper[d], Reverts(r.op))
      BY <1>5, <2>1, <2>5, <1>12
    <3>2. QED
      BY <2>1, <2>2, <2>5, <3>1, PaperDropped
  <2>6. QED
    BY <2>3, <2>4, <2>5
<1>13. \A d \in r.lines : /\ r.op = "add" => paper[d].estado = "BORRADOR" /\ paper[d].link = 0 /\ paper[d].baja = 0
                          /\ r.op # "add" => paper[d].estado = "ACEPTADO" /\ Declared(d)
                          /\ r.op = "void" => d \in Boletas /\ paper[d].baja = 0
                          /\ r.op = "baja" => d \notin Boletas /\ paper[d].baja = 0
  <2>1. \A d \in r.lines : paper[d].estado = "BORRADOR" => paper[d].baja = 0
    BY <1>1, <1>12, PaperNumbers DEF FollowsNotice, Voided
  <2>2. \A d \in r.lines : d \in Boletas => paper[d].baja = 0
    BY BoletasHaveNoBaja
  <2>3. QED
    BY <1>6, <1>7, <2>1, <2>2 DEF Waiting, Accepted, LinesFit
<1>14. \A d \in Docs : Rewrites(d)
  <2>1. \A d \in r.lines : paper'[d].estado # "NONE"
    BY <1>7, <1>12, <1>13 DEF Telling
  <2>2. QED
    BY <1>11, <1>12, <2>1 DEF Rewrites
<1>15. TaskHolds(t)' /\ task' \in [Tasks -> TaskRows]
  BY <1>1, <1>5, NothingInFlight DEF VouchersTables
<1>16. /\ VouchersTables' /\ PapersHold' /\ NumbersHold' /\ TicketsHold' /\ PapersGoOn /\ FiscGoesOn
       /\ \A d \in Docs : paper[d] = NoPaper => paper'[d] = NoPaper
  <2>1. \E F : paper' = [d \in Docs |-> F[d]]
    BY <1>5
  <2>2. Len(notices') <= MaxNotices
    BY <1>7, <1>9
  <2>3. QED
    BY <1>5, <1>9, <1>14, <1>15, <2>1, <2>2, PapersMove
<1>17. NoticesHold'
  <2>1. \A i \in DOMAIN notices : NoticeFits(i)'
    BY <1>1, <1>10, <1>16, NoticesHoldOn
  <2>2. NoticeFits(id)'
    <3>1. PICK kind, lines, name : kind = r.op /\ lines = r.lines /\ name = FileOf(r)
      OBVIOUS
    <3>2. LinesFit(kind, lines)' /\ (r.ticket => Ticketed(name, kind, lines)')
      BY <1>6, <1>16, <3>1, LinesGoOn DEF FiscGoesOn
    <3>3. FileOfNotice(id)' = name
      BY <1>8, <1>9, <3>1 DEF FileOfNotice
    <3>4. QED
      BY <1>8, <1>9, <3>1, <3>2, <3>3 DEF NoticeFits
  <2>3. QED
    BY <1>9, <2>1, <2>2 DEF NoticesHold
<1>18. ASSUME NEW d \in Docs
       PROVE  FollowsNotice(d)'
  <2>1. CASE d \notin r.lines
    BY <1>1, <1>9, <1>11, <1>16, <2>1, FollowsOn
  <2>2. CASE d \in r.lines
    <3>1. Carried(d)'
      <4>1. CASE r.op # "baja" /\ stays
        <5>1. paper'[d].link = id /\ paper'[d].estado = "ENVIADO" /\ id > 0
          BY <1>7, <1>12, <2>2, <4>1
        <5>2. id \in DOMAIN notices' /\ notices'[id] = new
          BY <1>7, <1>9
        <5>3. d \in new.lines /\ new.kind # "baja" /\ new.status = "PENDING"
          BY <1>7, <1>8, <2>2, <4>1
        <5>5. d \in notices'[id].lines /\ notices'[id].kind # "baja" /\ notices'[id].status = "PENDING"
          BY <5>2, <5>3, Zenon
        <5>6. QED
          BY <5>1, <5>2, <5>5 DEF Carried, Standing
      <4>2. CASE r.op # "baja" /\ ~stays
        BY <1>12, <2>2, <4>2 DEF Carried
      <4>3. CASE r.op = "baja"
        <5>1. SUFFICES ASSUME NEW i, i = paper[d].link, i > 0
                       PROVE  Carried(d)'
          BY <1>12, <2>2, <4>3 DEF Carried
        <5>2. /\ i \in DOMAIN notices /\ d \in notices[i].lines /\ notices[i].kind # "baja" /\ Standing(notices[i])
              /\ notices[i].status \notin {"REJECTED", "PENDING"} /\ Decided(FileOfNotice(i), "0")
              /\ paper[d].estado = Outcome(notices[i].kind)
          BY <1>1, <1>13, <2>2, <4>3, <5>1 DEF FollowsNotice, Carried, Standing
        <5>3. PICK name : name = FileOfNotice(i)
          OBVIOUS
        <5>4. FileOfNotice(i)' = name /\ Decided(name, "0")'
          BY <1>10, <1>16, <5>2, <5>3, FileGoesOn DEF FiscGoesOn
        <5>5. QED
          BY <1>9, <1>12, <1>13, <2>2, <4>3, <5>1, <5>2, <5>4 DEF Carried
      <4>4. QED
        BY <4>1, <4>2, <4>3
    <3>2. Voided(d)'
      <4>1. CASE r.op = "baja" /\ stays
        <5>1. paper'[d].baja = id /\ paper'[d].estado = "ACEPTADO"
          BY <1>12, <1>13, <2>2, <4>1
        <5>2. id \in DOMAIN notices' /\ notices'[id] = new /\ id > 0
          BY <1>7, <1>9
        <5>3. d \in new.lines /\ new.kind = "baja" /\ new.status = "PENDING"
          BY <1>7, <1>8, <2>2, <4>1
        <5>5. d \in notices'[id].lines /\ notices'[id].kind = "baja" /\ notices'[id].status = "PENDING"
          BY <5>2, <5>3, Zenon
        <5>6. QED
          BY <5>1, <5>2, <5>5 DEF Voided, Accepted, Standing
      <4>2. CASE ~(r.op = "baja" /\ stays)
        <5>1. paper'[d].baja = 0
          BY <1>7, <1>12, <1>13, <2>2, <4>2 DEF Telling
        <5>2. QED
          BY <5>1 DEF Voided
      <4>3. QED
        BY <4>1, <4>2
    <3>3. Answered1(d)'
      <4>1. Declared(d) => Declared(d)'
        BY <1>16, <2>2, <1>12 DEF Declared, PapersGoOn, FiscGoesOn
      <4>2. paper'[d].estado \in {"ACEPTADO", "BORRADOR", "ENVIADO"}
        BY <1>7, <1>12, <1>13, <2>2 DEF Telling
      <4>3. paper'[d].estado = "ENVIADO" => paper'[d].link > 0
        BY <1>7, <1>12, <1>13, <2>2 DEF Telling
      <4>4. paper'[d].estado = "ACEPTADO" => Declared(d)'
        BY <1>7, <1>12, <1>13, <2>2, <4>1 DEF Telling
      <4>5. QED
        BY <4>2, <4>3, <4>4 DEF Answered1
    <3>4. QED
      BY <3>1, <3>2, <3>3 DEF FollowsNotice
  <2>3. QED
    BY <2>1, <2>2
<1>19. ASSUME NEW u \in Tasks, u # t
       PROVE  Still(u)
  <2>1. TaskHolds(u) /\ task'[u] = task[u]
    BY <1>1, <1>5, <1>19 DEF VouchersSound, VouchersTables
  <2>2. Locks(u) => paper[task[u].doc] = NoPaper /\ task[u].doc \in Docs
    BY <1>1, <2>1, KindOfTask DEF TaskHolds, IssueHolds, Locks, IssueTasks
  <2>3. Locks(u) => paper'[task[u].doc] = NoPaper
    BY <1>16, <2>2
  <2>4. ~Running(u, Telling)
    BY <1>2, <1>6, <1>19 DEF Alone
  <2>5. QED
    BY <1>5, <2>1, <2>3, <2>4 DEF Still
<1>20. \A u \in Tasks : TaskHolds(u)' \/ Still(u)
  BY <1>15, <1>19
<1>21. \A d \in Docs : Kept(d)
  BY <1>7, <1>11, <1>12, <1>13 DEF Kept, Accepted, Telling
<1>22. VouchersSound'
  BY <1>5, <1>10, <1>16, <1>17, <1>18, <1>20, VouchersGoOn
<1>23. QED
  BY <1>21, <1>22

\* SUNAT says one thing of a ticket, and has done what it says.
LEMMA OneVerdict ==
    ASSUME TicketsHold, NEW name
    PROVE  ~(Decided(name, "0") /\ Decided(name, "99"))
  BY DEF TicketsHold, Decided

LEMMA VerdictHolds ==
    ASSUME VouchersSound, NEW i \in DOMAIN notices, notices[i].ticket, Decided(FileOfNotice(i), "0"),
           NEW d \in notices[i].lines
    PROVE  Declared(d) /\ (notices[i].kind # "add" => d \in fisc.voided)
<1>1. TicketsHold /\ NoticeFits(i)
  BY DEF VouchersSound, NoticesHold
<1>2. PICK name : name = FileOfNotice(i)
  OBVIOUS
<1>3. PICK x \in fisc.tickets : x.name = name /\ x.kind = notices[i].kind /\ x.lines = notices[i].lines
  BY <1>1, <1>2 DEF NoticeFits, Ticketed
<1>4. PICK y \in fisc.tickets : y.name = name /\ y.state = "0"
  BY <1>2 DEF Decided
<1>5. x = y
  BY <1>1, <1>3, <1>4 DEF TicketsHold
<1>6. QED
  BY <1>1, <1>3, <1>4, <1>5 DEF TicketsHold, NoticeFits, LinesFit

Notified(r, status) == [r EXCEPT !.status = status]

LEMMA NoticeNotified ==
    ASSUME NEW r \in NoticeRows, NEW status \in {"ERROR", "ACCEPTED", "REJECTED"}
    PROVE  /\ Notified(r, status) \in NoticeRows /\ Notified(r, status).kind = r.kind
           /\ Notified(r, status).lines = r.lines /\ Notified(r, status).ticket = r.ticket
           /\ Notified(r, status).day = r.day /\ Notified(r, status).number = r.number
           /\ Notified(r, status).status = status
  BY DEF Notified, NoticeRows

\* What is known of a line of a notice whose answer is applied.
LEMMA LineOfNotice ==
    ASSUME VouchersSound, NEW i \in DOMAIN notices, i > 0, NEW d \in LinesNow(i)
    PROVE  /\ d \in Docs /\ paper[d] # NoPaper /\ d \in notices[i].lines
           /\ notices[i].kind # "add" => Declared(d)
           /\ notices[i].kind = "void" => d \in Boletas /\ paper[d].baja = 0
           /\ notices[i].kind = "baja" =>
                 /\ d \notin Boletas /\ paper[d].baja = i /\ paper[d].estado \in {"ACEPTADO", "ANULADO"}
                 /\ paper[d].estado = "ANULADO" => Decided(FileOfNotice(i), "0")
           /\ notices[i].kind # "baja" =>
                 /\ paper[d].link = i
                 /\ paper[d].estado # "ENVIADO" =>
                       Decided(FileOfNotice(i), "0") /\ (paper[d].estado = Outcome(notices[i].kind) \/ paper[d].baja > 0)
<1>1. d \in Docs /\ FollowsNotice(d) /\ NoticeFits(i)
  BY DEF LinesNow, VouchersSound, NoticesHold
<1>2. CASE notices[i].kind = "baja"
  <2>1. paper[d].baja = i
    BY <1>2 DEF LinesNow
  <2>2. d \in notices[i].lines /\ paper[d].estado \in {"ACEPTADO", "ANULADO"}
        /\ (paper[d].estado = "ANULADO" => Decided(FileOfNotice(i), "0"))
    BY <1>1, <2>1 DEF FollowsNotice, Voided
  <2>3. paper[d] # NoPaper /\ d \notin Boletas /\ Declared(d)
    BY <1>1, <1>2, <2>2 DEF NoticeFits, LinesFit
  <2>4. QED
    BY <1>1, <1>2, <2>1, <2>2, <2>3
<1>3. CASE notices[i].kind # "baja"
  <2>1. paper[d].link = i
    BY <1>3 DEF LinesNow
  <2>2. /\ d \in notices[i].lines
        /\ paper[d].estado # "ENVIADO" =>
              Decided(FileOfNotice(i), "0") /\ (paper[d].estado = Outcome(notices[i].kind) \/ paper[d].baja > 0)
    BY <1>1, <2>1 DEF FollowsNotice, Carried
  <2>3. paper[d] # NoPaper /\ (notices[i].kind = "void" => d \in Boletas) /\ (notices[i].kind # "add" => Declared(d))
    BY <1>1, <2>2 DEF NoticeFits, LinesFit
  <2>4. QED
    BY <1>1, <1>3, <2>1, <2>2, <2>3, BoletasHaveNoBaja
<1>4. QED
  BY <1>2, <1>3

LEMMA ApplyCdrStep ==
    ASSUME VouchersSound, NEW t \in Tasks, NEW readable \in BOOLEAN, ApplyCdr(t, readable)
    PROVE  VouchersSound' /\ \A d \in Docs : Kept(d)
<1>1. VouchersTables /\ NoticesHold /\ TicketsHold /\ TaskHolds(t) /\ \A d \in Docs : FollowsNotice(d)
  BY DEF VouchersSound
<1>2. PICK i, r, answer : i = task[t].notice /\ r = notices[i] /\ answer = task[t].answer
  OBVIOUS
<1>3. PICK status : status = IF ~readable THEN "ERROR" ELSE IF answer = "0" THEN "ACCEPTED" ELSE "REJECTED"
  OBVIOUS
<1>4. Running(t, {"poll"})
  BY DEF ApplyCdr
<1>5. /\ notices' = [notices EXCEPT ![i] = Notified(r, status)] /\ task' = [task EXCEPT ![t] = NoTaskYet]
      /\ paper' = [d \in Docs |->
             IF d \notin LinesNow(i) \/ status = "ERROR" THEN paper[d]
             ELSE IF status = "ACCEPTED" THEN Concluded(paper[d], Outcome(r.kind))
             ELSE IF r.kind = "baja" THEN Marked(paper[d], 0)
             ELSE Dropped(paper[d], Reverts(r.kind))]
      /\ UNCHANGED <<trade, slot, sold, series, fisc>>
  BY <1>2, <1>3 DEF ApplyCdr, Undone, LinesOf, Notified, Concluded, Marked, Dropped
<1>6. i \in DOMAIN notices /\ r.ticket /\ Decided(FileOfNotice(i), answer) /\ answer \in {"0", "99"}
  <2>1. task[t] \in PollTasks
    BY <1>1, <1>4, KindOfTask
  <2>2. QED
    BY <1>1, <1>2, <1>4, <2>1 DEF TaskHolds, PollHolds, PollTasks
<1>7. /\ notices \in Seq(NoticeRows) /\ r \in NoticeRows /\ i > 0 /\ 0 \in 0..MaxNotices
      /\ r.kind \in Telling /\ status \in {"ERROR", "ACCEPTED", "REJECTED"}
  <2>1. notices \in Seq(NoticeRows)
    BY <1>1 DEF VouchersTables
  <2>2. r \in NoticeRows /\ i > 0
    BY <1>2, <1>6, <2>1
  <2>3. r.kind \in Telling
    BY <2>2 DEF NoticeRows
  <2>4. 0 \in 0..MaxNotices /\ status \in {"ERROR", "ACCEPTED", "REJECTED"}
    BY <1>3, VouchersAssumption
  <2>5. QED
    BY <2>1, <2>2, <2>3, <2>4
<1>8. PICK new \in NoticeRows : /\ new = Notified(r, status) /\ new.kind = r.kind /\ new.lines = r.lines
                                /\ new.ticket = r.ticket /\ new.day = r.day /\ new.number = r.number
                                /\ new.status = status
  BY <1>7, NoticeNotified
<1>9. /\ notices' \in Seq(NoticeRows) /\ Len(notices') = Len(notices) /\ DOMAIN notices' = DOMAIN notices
      /\ notices'[i] = new /\ \A j \in DOMAIN notices : j # i => notices'[j] = notices[j]
  BY <1>5, <1>6, <1>7, <1>8
<1>10. NoticesGoOn
  BY <1>2, <1>8, <1>9 DEF NoticesGoOn
<1>11. /\ status = "ACCEPTED" => Decided(FileOfNotice(i), "0")
       /\ status = "REJECTED" => ~Decided(FileOfNotice(i), "0")
  BY <1>1, <1>3, <1>6, OneVerdict
<1>12. \A d \in Docs : d \notin LinesNow(i) \/ status = "ERROR" => paper'[d] = paper[d]
  BY <1>5
<1>13. ASSUME NEW d \in LinesNow(i)
       PROVE  /\ d \in Docs /\ paper[d] # NoPaper /\ d \in r.lines
              /\ r.kind # "add" => Declared(d)
              /\ r.kind = "void" => d \in Boletas /\ paper[d].baja = 0
              /\ r.kind = "baja" =>
                    /\ d \notin Boletas /\ paper[d].baja = i /\ paper[d].estado \in {"ACEPTADO", "ANULADO"}
                    /\ paper[d].estado = "ANULADO" => Decided(FileOfNotice(i), "0")
              /\ r.kind # "baja" =>
                    /\ paper[d].link = i
                    /\ paper[d].estado # "ENVIADO" =>
                          Decided(FileOfNotice(i), "0") /\ (paper[d].estado = Outcome(r.kind) \/ paper[d].baja > 0)
  BY <1>2, <1>6, <1>7, LineOfNotice
<1>14. ASSUME NEW d \in LinesNow(i)
       PROVE  /\ status # "ERROR" => paper'[d] \in PaperRows /\ paper'[d].number = paper[d].number
              /\ status = "ACCEPTED" => /\ paper'[d].link = paper[d].link /\ paper'[d].baja = paper[d].baja
                                        /\ paper'[d].estado = Outcome(r.kind)
              /\ status = "REJECTED" /\ r.kind = "baja" =>
                    paper'[d].link = paper[d].link /\ paper'[d].baja = 0 /\ paper'[d].estado = paper[d].estado
              /\ status = "REJECTED" /\ r.kind # "baja" =>
                    paper'[d].link = 0 /\ paper'[d].baja = paper[d].baja /\ paper'[d].estado = Reverts(r.kind)
  <2>1. d \in Docs /\ paper[d] \in PaperRows
    BY <1>1, <1>13, PaperNumbers
  <2>2. Outcome(r.kind) \in Estados /\ Reverts(r.kind) \in Estados
    BY DEF Outcome, Reverts, Estados
  <2>3. CASE status = "ERROR"
    BY <2>3
  <2>4. CASE status = "ACCEPTED"
    <3>1. paper'[d] = Concluded(paper[d], Outcome(r.kind))
      BY <1>5, <1>14, <2>1, <2>4
    <3>2. QED
      BY <2>1, <2>2, <2>4, <3>1, PaperConcluded
  <2>5. CASE status = "REJECTED" /\ r.kind = "baja"
    <3>1. paper'[d] = Marked(paper[d], 0)
      BY <1>5, <1>14, <2>1, <2>5
    <3>2. QED
      BY <1>7, <2>1, <2>5, <3>1, PaperMarked
  <2>6. CASE status = "REJECTED" /\ r.kind # "baja"
    <3>1. paper'[d] = Dropped(paper[d], Reverts(r.kind))
      BY <1>5, <1>14, <2>1, <2>6
    <3>2. QED
      BY <2>1, <2>2, <2>6, <3>1, PaperDropped
  <2>7. QED
    BY <1>7, <2>3, <2>4, <2>5, <2>6
<1>15. \A d \in Docs : Rewrites(d)
  <2>1. ASSUME NEW d \in LinesNow(i), status # "ERROR"
        PROVE  paper'[d].estado # "NONE"
    BY <1>7, <1>13, <1>14, <2>1 DEF Outcome, Reverts
  <2>2. QED
    BY <1>12, <1>13, <1>14, <2>1 DEF Rewrites
<1>16. TaskHolds(t)' /\ task' \in [Tasks -> TaskRows]
  BY <1>1, <1>5, NothingInFlight DEF VouchersTables
<1>17. /\ VouchersTables' /\ PapersHold' /\ NumbersHold' /\ TicketsHold' /\ PapersGoOn /\ FiscGoesOn
       /\ \A d \in Docs : paper[d] = NoPaper => paper'[d] = NoPaper
  <2>1. \E F : paper' = [d \in Docs |-> F[d]]
    BY <1>5
  <2>2. Len(notices') <= MaxNotices
    BY <1>1, <1>9 DEF VouchersTables
  <2>3. QED
    BY <1>5, <1>9, <1>15, <1>16, <2>1, <2>2, PapersMove
<1>18. NoticesHold'
  BY <1>1, <1>9, <1>10, <1>17, NoticesHoldOn DEF NoticesHold
\* The rows that are no lines of the notice do not hang on it.
<1>19. ASSUME NEW d \in Docs, paper'[d] = paper[d], d \in LinesNow(i) => status = "ERROR"
       PROVE  FollowsNotice(d)'
  <2>1. CASE d \notin LinesNow(i)
    <3>1. paper[d].link > 0 => paper[d].link # i
      BY <1>1, <1>19, <2>1 DEF FollowsNotice, Carried, LinesNow
    <3>2. paper[d].baja > 0 => paper[d].baja # i
      BY <1>1, <1>19, <2>1 DEF FollowsNotice, Voided, LinesNow
    <3>3. \A j \in DOMAIN notices : j \in {paper[d].link, paper[d].baja} =>
              j \in DOMAIN notices' /\ notices'[j] = notices[j]
      BY <1>7, <1>9, <3>1, <3>2
    <3>4. QED
      BY <1>1, <1>17, <1>19, <3>3, FollowsOn
  <2>2. CASE d \in LinesNow(i) /\ status = "ERROR"
    <3>1. \A j \in DOMAIN notices : /\ notices'[j].kind = notices[j].kind /\ notices'[j].lines = notices[j].lines
                                    /\ notices'[j].ticket = notices[j].ticket
      BY <1>10 DEF NoticesGoOn
    <3>2. \A j \in DOMAIN notices :
              notices'[j].status = notices[j].status \/ (notices'[j].status = "ERROR" /\ notices[j].ticket)
      BY <1>2, <1>6, <1>8, <1>9, <2>2
    <3>3. \A j \in DOMAIN notices : Decided(FileOfNotice(j), "0") => Decided(FileOfNotice(j), "0")'
      <4>1. SUFFICES ASSUME NEW j \in DOMAIN notices, Decided(FileOfNotice(j), "0")
                     PROVE  Decided(FileOfNotice(j), "0")'
        OBVIOUS
      <4>2. PICK name : name = FileOfNotice(j)
        OBVIOUS
      <4>3. FileOfNotice(j)' = name /\ Decided(name, "0")'
        BY <1>10, <1>17, <4>1, <4>2, FileGoesOn DEF FiscGoesOn
      <4>4. QED
        BY <4>3
    <3>4. Carried(d)'
      BY <1>1, <1>9, <1>19, <3>1, <3>2, <3>3 DEF FollowsNotice, Carried, Standing
    <3>5. Voided(d)'
      BY <1>1, <1>9, <1>19, <3>1, <3>2, <3>3 DEF FollowsNotice, Voided, Accepted, Standing
    <3>6. Answered1(d)'
      <4>1. paper[d].link > 0 => paper[d].link \in DOMAIN notices
        BY <1>1 DEF FollowsNotice, Carried
      <4>2. QED
        BY <1>1, <1>17, <1>19, <3>1, <4>1 DEF FollowsNotice, Answered1, Declared, FiscGoesOn
    <3>7. QED
      BY <3>4, <3>5, <3>6 DEF FollowsNotice
  <2>3. QED
    BY <1>19, <2>1, <2>2
\* The names of the files and what SUNAT decided of them stay.
<1>20. \A j \in DOMAIN notices : Decided(FileOfNotice(j), "0") => Decided(FileOfNotice(j), "0")'
  <2>1. SUFFICES ASSUME NEW j \in DOMAIN notices, Decided(FileOfNotice(j), "0")
                 PROVE  Decided(FileOfNotice(j), "0")'
    OBVIOUS
  <2>2. PICK name : name = FileOfNotice(j)
    OBVIOUS
  <2>3. FileOfNotice(j)' = name /\ Decided(name, "0")'
    BY <1>10, <1>17, <2>1, <2>2, FileGoesOn DEF FiscGoesOn
  <2>4. QED
    BY <2>3
<1>21. ASSUME NEW d \in LinesNow(i)
       PROVE  Declared(d) => Declared(d)'
  BY <1>13, <1>17 DEF Declared, PapersGoOn, FiscGoesOn
<1>22. ASSUME NEW d \in LinesNow(i), status = "ACCEPTED"
       PROVE  FollowsNotice(d)'
  <2>1. /\ paper'[d].link = paper[d].link /\ paper'[d].baja = paper[d].baja /\ paper'[d].estado = Outcome(r.kind)
        /\ d \in Docs /\ d \in r.lines
    BY <1>13, <1>14, <1>22
  <2>2. Decided(FileOfNotice(i), "0") /\ Decided(FileOfNotice(i), "0")'
    BY <1>6, <1>11, <1>20, <1>22
  <2>3. Declared(d) /\ (r.kind # "add" => d \in fisc.voided)
    BY <1>2, <1>6, <2>1, <2>2, VerdictHolds
  <2>4. Outcome(r.kind) = IF r.kind = "add" THEN "ACEPTADO" ELSE "ANULADO"
    BY DEF Outcome
  <2>5. CASE r.kind # "baja"
    <3>1. paper[d].link = i
      BY <1>13, <2>5
    <3>2. Carried(d)'
      <4>1. i \in DOMAIN notices' /\ notices'[i].kind = r.kind /\ notices'[i].lines = r.lines /\ notices'[i].ticket
            /\ notices'[i].status = "ACCEPTED"
        BY <1>6, <1>8, <1>9, <1>22
      <4>2. QED
        BY <2>1, <2>2, <2>4, <2>5, <3>1, <4>1 DEF Carried, Standing, Outcome
    <3>3. Voided(d)'
      <4>1. SUFFICES ASSUME NEW j, j = paper[d].baja, j > 0
                     PROVE  Voided(d)'
        BY <2>1 DEF Voided
      <4>2. /\ j \in DOMAIN notices /\ d \in notices[j].lines /\ notices[j].kind = "baja" /\ Standing(notices[j])
        BY <1>1, <2>1, <4>1 DEF FollowsNotice, Voided
      <4>3. j # i /\ notices'[j] = notices[j] /\ j \in DOMAIN notices'
        BY <1>2, <1>9, <2>5, <4>2
      <4>4. r.kind = "add"
        BY <1>7, <1>13, <2>5, <4>1 DEF Telling
      <4>5. QED
        BY <2>1, <2>4, <4>1, <4>2, <4>3, <4>4 DEF Voided, Accepted
    <3>4. Answered1(d)'
      <4>1. r.kind # "add" => r.kind = "void" /\ d \in Boletas
        BY <1>7, <1>13, <2>5 DEF Telling
      <4>2. notices'[i].kind = r.kind
        BY <1>8, <1>9
      <4>3. QED
        BY <1>7, <1>17, <1>21, <2>1, <2>3, <2>4, <3>1, <4>1, <4>2 DEF Answered1, FiscGoesOn
    <3>5. QED
      BY <3>2, <3>3, <3>4 DEF FollowsNotice
  <2>6. CASE r.kind = "baja"
    <3>1. paper[d].baja = i /\ paper[d].estado \in {"ACEPTADO", "ANULADO"} /\ d \notin Boletas
      BY <1>13, <2>6
    <3>2. Voided(d)'
      <4>1. i \in DOMAIN notices' /\ notices'[i].kind = r.kind /\ notices'[i].lines = r.lines /\ notices'[i].ticket
            /\ notices'[i].status = "ACCEPTED"
        BY <1>6, <1>8, <1>9, <1>22
      <4>2. QED
        BY <2>1, <2>2, <2>4, <2>6, <3>1, <4>1 DEF Voided, Standing
    <3>3. Carried(d)'
      <4>1. SUFFICES ASSUME NEW j, j = paper[d].link, j > 0
                     PROVE  Carried(d)'
        BY <2>1 DEF Carried
      <4>2. /\ j \in DOMAIN notices /\ d \in notices[j].lines /\ notices[j].kind # "baja" /\ Standing(notices[j])
            /\ notices[j].status # "PENDING" /\ Decided(FileOfNotice(j), "0")
        BY <1>1, <2>1, <3>1, <4>1 DEF FollowsNotice, Carried
      <4>3. j # i /\ notices'[j] = notices[j] /\ j \in DOMAIN notices' /\ Decided(FileOfNotice(j), "0")'
        BY <1>2, <1>9, <1>20, <2>6, <4>2
      <4>4. QED
        BY <1>7, <2>1, <2>4, <2>6, <3>1, <4>1, <4>2, <4>3 DEF Carried
    <3>4. Answered1(d)'
      BY <1>7, <1>17, <1>21, <2>1, <2>3, <2>4, <2>6, <3>1 DEF Answered1, FiscGoesOn
    <3>5. QED
      BY <3>2, <3>3, <3>4 DEF FollowsNotice
  <2>7. QED
    BY <2>5, <2>6
<1>23. ASSUME NEW d \in LinesNow(i), status = "REJECTED"
       PROVE  FollowsNotice(d)'
  <2>1. d \in Docs /\ d \in r.lines /\ ~Decided(FileOfNotice(i), "0")
    BY <1>11, <1>13, <1>23
  <2>2. CASE r.kind # "baja"
    <3>1. paper[d].link = i /\ paper[d].estado = "ENVIADO"
      BY <1>13, <2>1, <2>2
    <3>2. paper[d].baja = 0
      BY <1>1, <2>1, <3>1, PaperNumbers DEF FollowsNotice, Voided
    <3>3. paper'[d].link = 0 /\ paper'[d].baja = 0 /\ paper'[d].estado = Reverts(r.kind)
      BY <1>14, <1>23, <2>2, <3>2
    <3>4. Reverts(r.kind) = IF r.kind = "add" THEN "BORRADOR" ELSE "ACEPTADO"
      BY DEF Reverts
    <3>5. r.kind # "add" => Declared(d)'
      BY <1>13, <1>21
    <3>6. Carried(d)' /\ Voided(d)'
      BY <3>3 DEF Carried, Voided
    <3>7. Answered1(d)'
      BY <3>3, <3>4, <3>5 DEF Answered1
    <3>8. QED
      BY <3>6, <3>7 DEF FollowsNotice
  <2>3. CASE r.kind = "baja"
    <3>1. paper[d].baja = i /\ paper[d].estado = "ACEPTADO" /\ d \notin Boletas /\ Declared(d)
      BY <1>13, <2>1, <2>3
    <3>2. paper'[d].link = paper[d].link /\ paper'[d].baja = 0 /\ paper'[d].estado = "ACEPTADO"
      BY <1>14, <1>23, <2>3, <3>1
    <3>3. Voided(d)' /\ Answered1(d)'
      BY <1>21, <3>1, <3>2 DEF Voided, Answered1
    <3>4. Carried(d)'
      <4>1. SUFFICES ASSUME NEW j, j = paper[d].link, j > 0
                     PROVE  Carried(d)'
        BY <3>2 DEF Carried
      <4>2. /\ j \in DOMAIN notices /\ d \in notices[j].lines /\ notices[j].kind # "baja" /\ Standing(notices[j])
            /\ notices[j].status # "PENDING" /\ Decided(FileOfNotice(j), "0")
        BY <1>1, <2>1, <3>1, <4>1 DEF FollowsNotice, Carried
      <4>3. notices[j].kind # "void" /\ notices[j].kind = "add"
        <5>1. NoticeFits(j) /\ notices[j] \in NoticeRows
          BY <1>1, <1>7, <4>2 DEF NoticesHold
        <5>2. notices[j].kind # "void"
          BY <3>1, <4>2, <5>1 DEF NoticeFits, LinesFit
        <5>3. QED
          BY <4>2, <5>1, <5>2 DEF NoticeRows, Telling
      <4>4. j # i /\ notices'[j] = notices[j] /\ j \in DOMAIN notices' /\ Decided(FileOfNotice(j), "0")'
        BY <1>2, <1>9, <1>20, <2>3, <4>2
      <4>5. Outcome(notices[j].kind) = "ACEPTADO"
        BY <4>3 DEF Outcome
      <4>6. QED
        BY <3>2, <4>1, <4>2, <4>4, <4>5 DEF Carried
    <3>5. QED
      BY <3>3, <3>4 DEF FollowsNotice
  <2>4. QED
    BY <2>2, <2>3
<1>24. \A d \in Docs : FollowsNotice(d)'
  BY <1>7, <1>12, <1>19, <1>22, <1>23
<1>25. ASSUME NEW u \in Tasks, u # t
       PROVE  Still(u)
  <2>1. TaskHolds(u) /\ task'[u] = task[u]
    BY <1>1, <1>5, <1>25 DEF VouchersSound, VouchersTables
  <2>2. Locks(u) => paper[task[u].doc] = NoPaper /\ task[u].doc \in Docs
    BY <1>1, <2>1, KindOfTask DEF TaskHolds, IssueHolds, Locks, IssueTasks
  <2>3. Locks(u) => paper'[task[u].doc] = NoPaper
    BY <1>17, <2>2
  <2>4. Running(u, Telling) => Waits(u)'
    <3>1. SUFFICES ASSUME Running(u, Telling), NEW e \in task[u].lines
                   PROVE  Waiting(task[u].op, e)'
      BY <2>1 DEF Waits
    <3>2. PICK kind : kind = task[u].op
      OBVIOUS
    <3>3. e \in Docs /\ Waiting(kind, e) /\ (kind = "void" => e \in Boletas) /\ kind \in Telling
      BY <2>1, <3>1, <3>2 DEF TaskHolds, TellHolds, Waits, LinesFit, Running
    <3>4. Waiting(kind, e)'
      <4>1. CASE e \notin LinesNow(i) \/ status = "ERROR"
        BY <1>12, <3>3, <4>1 DEF Waiting, Accepted
      <4>2. CASE e \in LinesNow(i) /\ status # "ERROR"
        <5>1. kind # "add"
          BY <1>7, <1>13, <3>3, <4>2 DEF Waiting
        <5>2. paper[e].estado = "ACEPTADO" /\ (kind = "baja" => paper[e].baja = 0) /\ paper[e].baja = 0
          BY <3>3, <5>1, BoletasHaveNoBaja DEF Waiting, Accepted, Telling
        <5>3. r.kind # "baja"
          BY <1>7, <1>13, <4>2, <5>2
        <5>4. Decided(FileOfNotice(i), "0") /\ Outcome(r.kind) = "ACEPTADO"
          BY <1>13, <4>2, <5>2, <5>3
        <5>5. status = "ACCEPTED"
          BY <1>7, <1>11, <4>2, <5>4
        <5>6. paper'[e].estado = "ACEPTADO" /\ paper'[e].baja = 0
          BY <1>14, <4>2, <5>2, <5>4, <5>5
        <5>7. QED
          BY <5>1, <5>6 DEF Waiting, Accepted
      <4>3. QED
        BY <4>1, <4>2
    <3>5. task'[u].op = kind
      BY <2>1, <3>2
    <3>6. QED
      BY <3>4, <3>5
  <2>5. Running(u, Telling) => Len(notices') < MaxNotices
    BY <1>9, <2>1 DEF TaskHolds, TellHolds
  <2>6. QED
    BY <1>5, <2>1, <2>3, <2>4, <2>5 DEF Still
<1>26. \A u \in Tasks : TaskHolds(u)' \/ Still(u)
  BY <1>16, <1>25
<1>27. VouchersSound'
  BY <1>5, <1>10, <1>17, <1>18, <1>24, <1>26, VouchersGoOn
<1>28. ASSUME NEW d \in Docs
       PROVE  Kept(d)
  <2>1. CASE d \notin LinesNow(i) \/ status = "ERROR"
    BY <1>12, <2>1 DEF Kept, Accepted
  <2>2. CASE d \in LinesNow(i) /\ status = "REJECTED"
    <3>1. CASE r.kind = "baja"
      BY <1>11, <1>13, <1>14, <2>2, <3>1 DEF Kept, Accepted
    <3>2. CASE r.kind # "baja"
      <4>1. paper[d].estado = "ENVIADO" /\ paper[d].link = i /\ paper'[d].estado = Reverts(r.kind)
        BY <1>11, <1>13, <1>14, <2>2, <3>2
      <4>2. r.kind = "void" => Reverts(r.kind) = "ACEPTADO"
        BY DEF Reverts
      <4>3. QED
        BY <1>2, <4>1, <4>2 DEF Kept, Accepted
    <3>3. QED
      BY <3>1, <3>2
  <2>3. CASE d \in LinesNow(i) /\ status = "ACCEPTED"
    <3>1. paper'[d].estado = Outcome(r.kind) /\ Outcome(r.kind) \in {"ACEPTADO", "ANULADO"}
      BY <1>14, <2>3 DEF Outcome
    <3>2. paper[d].estado = "ANULADO" /\ d \in Sales => r.kind # "add"
      <4>1. SUFFICES ASSUME paper[d].estado = "ANULADO", d \in Sales, r.kind = "add"
                     PROVE  FALSE
        OBVIOUS
      <4>2. paper[d].link = i
        BY <1>13, <2>3, <4>1
      <4>3. d \in Boletas
        <5>1. NoticeFits(i) /\ d \in notices[i].lines
          BY <1>1, <1>2, <1>6, <1>13, <2>3 DEF NoticesHold
        <5>2. ByBoleta(d)
          BY <1>2, <4>1, <5>1 DEF NoticeFits, LinesFit
        <5>3. QED
          BY <4>1, <5>2, VouchersAssumption DEF ByBoleta, Boletas
      <4>4. QED
        BY <1>1, <1>2, <4>1, <4>2, <4>3 DEF FollowsNotice, Answered1
    <3>3. r.kind # "add" => Outcome(r.kind) = "ANULADO"
      BY DEF Outcome
    <3>4. QED
      BY <3>1, <3>2, <3>3 DEF Kept
  <2>4. QED
    BY <1>7, <2>1, <2>2, <2>3
<1>29. QED
  BY <1>27, <1>28

-----------------------------------------------------------------------------
(* The theorems about the vouchers.                                            *)

\* The rows of the vouchers are left alone by all else.
LEMMA KeptAlone ==
    ASSUME UNCHANGED paper, NEW d \in Docs
    PROVE  Kept(d)
  BY DEF Kept, Accepted

LEMMA CommitKeeps ==
    ASSUME VouchersSound, NEW t \in Tasks, CommitVoucher(t), NEW d \in Docs
    PROVE  Kept(d)
<1>1. VouchersTables /\ TaskHolds(t) /\ Locks(t) /\ Running(t, Issuing)
  BY DEF VouchersSound, CommitVoucher, Locks
<1>2. PICK e : e = task[t].doc
  OBVIOUS
<1>3. paper[e] = NoPaper /\ NoPaper.estado = "NONE"
  BY <1>1, <1>2 DEF TaskHolds, IssueHolds, NoPaper
<1>4. \E row : paper' = [paper EXCEPT ![e] = row]
  BY <1>2 DEF CommitVoucher
<1>5. d # e => paper'[d] = paper[d]
  BY <1>1, <1>4 DEF VouchersTables
<1>6. QED
  BY <1>3, <1>5 DEF Kept, Accepted

LEMMA VouchersSteps ==
    ASSUME VouchersSound, OneNotice, [VouchersNext]_vouchersVars
    PROVE  VouchersSound' /\ \A d \in Docs : Kept(d)
<1>1. CASE UNCHANGED vouchersVars
  <2>1. slot' \in 0..MaxSlot /\ task' \in [Tasks -> TaskRows] /\ UNCHANGED <<trade, slot, sold, paper, series, notices, fisc, task>>
    BY <1>1 DEF VouchersSound, VouchersTables, vouchersVars
  <2>2. \A u \in Tasks : Still(u)
    BY <2>1 DEF VouchersSound, TaskHolds, IssueHolds, TellHolds, Still, Waits, Waiting, Accepted
  <2>3. /\ VouchersTables' /\ PapersHold' /\ NumbersHold' /\ TicketsHold' /\ NoticesHold'
        /\ \A d \in Docs : FollowsNotice(d)'
        /\ PapersGoOn /\ FiscGoesOn /\ NoticesGoOn
    BY <2>1, RowsStay
  <2>4. VouchersSound'
    BY <2>1, <2>2, <2>3, VouchersGoOn
  <2>5. QED
    BY <2>1, <2>4, KeptAlone
<1>2. CASE Midday
  BY <1>2, MiddayStep, KeptAlone DEF Midday
<1>3. CASE \E s \in Sales : SellPlain(s)
  BY <1>3, SellPlainStep, KeptAlone DEF SellPlain
<1>4. CASE \E x \in fisc.tickets, verdict \in {"0", "99"} : Decide(x, verdict)
  BY <1>4, DecideStep, KeptAlone DEF Decide
<1>5. ASSUME NEW t \in Tasks,
             \/ \E s \in Sales : SellWithVoucher(t, s) \/ \E via \in BOOLEAN : IssueForOrder(t, s, via)
             \/ \E n \in Notes : IssueNote(t, n)
      PROVE  VouchersSound' /\ \A d \in Docs : Kept(d)
  <2>1. VouchersSound'
    BY <1>5, IssueSteps
  <2>2. UNCHANGED paper
    BY <1>5 DEF SellWithVoucher, IssueForOrder, IssueNote, Issue, Launch
  <2>3. QED
    BY <2>1, <2>2, KeptAlone
<1>6. ASSUME NEW t \in Tasks, ReserveNextNumber(t) \/ LinkLines(t) \/ Cut(t)
      PROVE  VouchersSound' /\ \A d \in Docs : Kept(d)
  <2>1. VouchersSound'
    BY <1>6, ReserveStep, LinkStep, UndoneStep DEF Cut
  <2>2. UNCHANGED paper
    BY <1>6 DEF ReserveNextNumber, LinkLines, Cut
  <2>3. QED
    BY <2>1, <2>2, KeptAlone
<1>7. ASSUME NEW t \in Tasks, CommitVoucher(t)
      PROVE  VouchersSound' /\ \A d \in Docs : Kept(d)
  BY <1>7, CommitVoucherStep, CommitKeeps
<1>8. ASSUME NEW t \in Tasks,
             \/ \E answer \in {"accept", "reject", "fault", "lost", "unstored", "unread"} : SendBill(t, answer)
             \/ \E answer \in {"ticket", "fault", "lost"} : SendSummary(t, answer)
             \/ \E i \in 1..MaxNotices : Consultar(t, i)
      PROVE  VouchersSound' /\ \A d \in Docs : Kept(d)
  <2>1. VouchersSound'
    BY <1>8, SendBillStep, SendSummaryStep, ConsultarStep
  <2>2. UNCHANGED paper
    BY <1>8 DEF SendBill, SendSummary, Consultar, Launch
  <2>3. QED
    BY <2>1, <2>2, KeptAlone
<1>9. ASSUME NEW t \in Tasks, NEW day \in 0..MaxSlot,
             \/ GenerarResumen(t, day)
             \/ \E lines \in SUBSET (Boletas \intersect trade) : AnularBoletas(t, lines, day)
             \/ \E lines \in SUBSET (trade \ Boletas) : GenerarBaja(t, lines, day)
      PROVE  VouchersSound' /\ \A d \in Docs : Kept(d)
  <2>1. VouchersSound'
    BY <1>9, TellSteps
  <2>2. UNCHANGED paper
    BY <1>9 DEF GenerarResumen, AnularBoletas, GenerarBaja, Tell, Launch
  <2>3. QED
    BY <2>1, <2>2, KeptAlone
<1>10. ASSUME NEW t \in Tasks, CommitNotice(t) \/ \E readable \in BOOLEAN : ApplyCdr(t, readable)
       PROVE  VouchersSound' /\ \A d \in Docs : Kept(d)
  BY <1>10, CommitNoticeStep, ApplyCdrStep
<1>11. QED
  BY <1>1, <1>2, <1>3, <1>4, <1>5, <1>6, <1>7, <1>8, <1>9, <1>10 DEF VouchersNext

LEMMA VouchersAreSound ==
    ASSUME OneNotice
    PROVE  FiscalSpec => []VouchersSound
<1>1. FiscalInit => VouchersSound
  BY VouchersBegin DEF FiscalInit
<1>2. VouchersSound /\ [FiscalNext]_fiscalVars => VouchersSound'
  BY StepOfFiscal, VouchersSteps
<1>3. QED
  BY <1>1, <1>2, PTL DEF FiscalSpec, fiscalVars

LEMMA VouchersPromise ==
    ASSUME VouchersSound
    PROVE  BooksAgree /\ VouchersTypeOK
<1>1. /\ VouchersTables /\ PapersHold /\ NumbersHold /\ \A d \in Docs : FollowsNotice(d)
  BY DEF VouchersSound
<1>2. VouchersTypeOK
  BY <1>1, BoletasAreDocs DEF VouchersTables, VouchersTypeOK, PaperRows, PapersHold
<1>3. NumbersAreDense
  <2>1. DOMAIN series = Scopes1
    BY <1>1 DEF VouchersTables
  <2>2. QED
    BY <1>1, <2>1 DEF NumbersAreDense, NumbersHold, Issued
<1>4. AcceptedBySunat
  BY <1>1 DEF AcceptedBySunat, FollowsNotice, Answered1, Declared, NameOf
<1>5. SentWithItsNotice
  <2>1. SUFFICES ASSUME NEW d \in Docs
                 PROVE  /\ paper[d].estado = "ENVIADO" => paper[d].link > 0
                        /\ paper[d].link > 0 =>
                              LET r == notices[paper[d].link]
                              IN  /\ d \in r.lines /\ Standing(r)
                                  /\ r.status = "PENDING" => paper[d].estado = "ENVIADO"
                                  /\ r.status = "ACCEPTED" => paper[d].estado = Outcome(r.kind) \/ paper[d].baja > 0
                        /\ paper[d].baja > 0 =>
                              LET r == notices[paper[d].baja]
                              IN  /\ d \in r.lines /\ r.kind = "baja" /\ Standing(r)
                                  /\ r.status = "PENDING" => Accepted(d)
    BY DEF SentWithItsNotice
  <2>2. Carried(d) /\ Voided(d) /\ Answered1(d)
    BY <1>1 DEF FollowsNotice
  <2>3. QED
    BY <2>2 DEF Carried, Voided, Answered1
<1>6. QED
  BY <1>2, <1>3, <1>4, <1>5 DEF BooksAgree

\* While the office sends one summary or communication at a time, the books
\* agree with what SUNAT has - numbers without a gap, whatever is undone, no
\* voucher accepted or voided but by SUNAT, every line at the state of its
\* notice, also when this one could not be sent and keeps its lines for good - and
\* a message of Meta is stored where it belongs and counted once.
THEOREM OutsideAlwaysAgrees ==
    ASSUME OneNotice
    PROVE  FiscalSpec => []OutsideAgrees
<1>1. VouchersSound /\ AttentionSound => OutsideAgrees
  BY VouchersPromise, AttentionPromises DEF OutsideAgrees
<1>2. QED
  BY <1>1, VouchersAreSound, AttentionIsSound, PTL

\* A voucher whose acceptance is on record is never a draft again, and a sale that is
\* void stays void.  (An acceptance whose answer could not be read or stored is not
\* on record, and its boleta is declared again.)
THEOREM AcceptanceStaysOnRecord ==
    ASSUME OneNotice
    PROVE  FiscalSpec => AcceptanceIsKept
<1>1. VouchersSound /\ [FiscalNext]_fiscalVars =>
          [\A d \in Docs :
              /\ Accepted(d) => paper'[d].estado \in {"ACEPTADO", "ENVIADO", "ANULADO"}
              /\ paper[d].estado = "ENVIADO" /\ notices[paper[d].link].kind = "void" =>
                    paper'[d].estado \in {"ENVIADO", "ACEPTADO", "ANULADO"}
              /\ paper[d].estado = "ANULADO" /\ d \in Sales => paper'[d].estado = "ANULADO"]_vouchersVars
  BY StepOfFiscal, VouchersSteps DEF Kept
<1>2. QED
  BY <1>1, VouchersAreSound, PTL DEF FiscalSpec, fiscalVars, AcceptanceIsKept

\* The rows have their types.
THEOREM FiscalTyped ==
    ASSUME OneNotice
    PROVE  FiscalSpec => []FiscalTypeOK
<1>1. VouchersSound /\ AttentionSound /\ BackfillSound => FiscalTypeOK
  <2>1. BackfillSound => BackfillTypeOK
    BY DEF BackfillSound, BackfillTables, BackfillTypeOK, Checkpoints, Seals
  <2>2. QED
    BY <2>1, VouchersPromise, AttentionPromises DEF FiscalTypeOK
<1>2. QED
  BY <1>1, VouchersAreSound, AttentionIsSound, BackfillIsSound, PTL
=============================================================================
