---------------------------- MODULE SunatJobQueue ----------------------------
(* The durable queue of background jobs (modules/platform/sunat-job-queue.ts) *)
(* and the worker processes that drain it (scripts/sunat-worker.ts).          *)
(*                                                                            *)
(* A row of the table SunatJob is job[j]; every queue operation is one SQL    *)
(* statement or one transaction, hence one action, except fail(), which reads *)
(* the row and then writes it by id: that is two actions.  A member of        *)
(* Workers is one operating-system process: its lockedBy identifier carries   *)
(* a fresh UUID, so a process that ends never comes back under its own name.  *)
(*                                                                            *)
(* The wall clock is abstracted to the two comparisons the code makes with    *)
(* it: due (nextRunAt <= now) and stale (lockedAt < now - 15 minutes).        *)
(*                                                                            *)
(* A definition named after the one below it (EnqueueResets, Claimable-       *)
(* ForEver, ...) is a mutation of it that PROJECT.json uses; the              *)
(* specification never does.                                                  *)
EXTENDS Integers, FiniteSets

CONSTANTS
    Jobs,           \* rows that may be enqueued
    Workers,        \* worker processes that may be started
    Nobody,         \* a null lockedBy, or no claimed job
    MaxAttempts,    \* maxAttempts of every row
    MaxAlive,       \* processes alive at the same time (replicas)
    Mortal          \* processes that may be killed or asked to stop

ASSUME QueueAssumption ==
    /\ MaxAttempts \in Nat \ {0}
    /\ MaxAlive \in Nat \ {0}
    /\ Nobody \notin Jobs \union Workers
    /\ IsFiniteSet(Workers)
    /\ Mortal \subseteq Workers

VARIABLES
    job,    \* table SunatJob
    pc,     \* where each process is in sunat-worker.ts
    cur,    \* the job that a process claimed
    seen,   \* attempts, as read by the first statement of fail()
    done    \* jobs whose work was committed at least once

vars == <<job, pc, cur, seen, done>>

Absent == [status |-> "ABSENT", attempts |-> 0, lockedBy |-> Nobody,
           due |-> FALSE, stale |-> FALSE]

Status == {"ABSENT", "PENDING", "RUNNING", "FAILED", "SUCCEEDED", "DEAD"}
Settled == {"SUCCEEDED", "DEAD"}

JobRow == [status: Status, attempts: 0..MaxAttempts,
           lockedBy: Workers \union {Nobody}, due: BOOLEAN, stale: BOOLEAN]

Busy == {"execute", "complete", "failRead", "failWrite", "defer"}
Alive == Busy \union {"poll"}

AliveWorkers == {w \in Workers : pc[w] \in Alive}

Init ==
    /\ job = [j \in Jobs |-> Absent]
    /\ pc = [w \in Workers |-> "new"]
    /\ cur = [w \in Workers |-> Nobody]
    /\ seen = [w \in Workers |-> 0]
    /\ done = {}

-----------------------------------------------------------------------------
(* The queue.                                                                *)

Owns(w, j) == job[j].status = "RUNNING" /\ job[j].lockedBy = w

Unlocked(row, status, due) ==
    [row EXCEPT !.status = status, !.due = due, !.lockedBy = Nobody, !.stale = FALSE]

EnqueueResets(j) ==
    /\ job' = [job EXCEPT ![j] = Unlocked(Absent, "PENDING", TRUE)]
    /\ UNCHANGED <<pc, cur, seen, done>>

\* enqueue(): an upsert on the idempotency key whose update part is empty.
Enqueue(j) ==
    /\ \E due \in BOOLEAN :
         job' = [job EXCEPT ![j] = IF @.status = "ABSENT"
                                   THEN Unlocked(Absent, "PENDING", due)
                                   ELSE @]
    /\ UNCHANGED <<pc, cur, seen, done>>

ClaimableForEver(row) == row.status \in {"PENDING", "FAILED"} /\ row.due

Claimable(row) ==
    row.status \in {"PENDING", "FAILED"} /\ row.due /\ row.attempts < MaxAttempts

LockedAnonymously(row, w) ==
    [row EXCEPT !.status = "RUNNING", !.attempts = row.attempts + 1, !.stale = FALSE]

Locked(row, w) ==
    [row EXCEPT !.status = "RUNNING", !.attempts = row.attempts + 1,
                !.lockedBy = w, !.stale = FALSE]

\* claim(): SELECT ... FOR UPDATE SKIP LOCKED LIMIT 1, then UPDATE.  Which of
\* the claimable rows comes first depends on dates that are not modelled.
Claim(w, j) ==
    /\ pc[w] = "poll"
    /\ Claimable(job[j])
    /\ job' = [job EXCEPT ![j] = Locked(@, w)]
    /\ pc' = [pc EXCEPT ![w] = "execute"]
    /\ cur' = [cur EXCEPT ![w] = j]
    /\ UNCHANGED <<seen, done>>

\* recoverStaleLocks(), over the whole table.
Recovered ==
    [j \in Jobs |-> IF job[j].status = "RUNNING" /\ job[j].stale
                    THEN Unlocked(job[j], "FAILED", TRUE)
                    ELSE job[j]]

-----------------------------------------------------------------------------
(* A worker process.                                                         *)

Return(w) ==
    /\ pc' = [pc EXCEPT ![w] = "poll"]
    /\ cur' = [cur EXCEPT ![w] = Nobody]

Goto(w, label) ==
    /\ pc' = [pc EXCEPT ![w] = label]
    /\ UNCHANGED cur

\* main(): recoverStaleLocks runs once, before the polling loop.
Start(w) ==
    /\ pc[w] = "new"
    /\ Cardinality(AliveWorkers) < MaxAlive
    /\ job' = Recovered
    /\ Goto(w, "poll")
    /\ UNCHANGED <<seen, done>>

ExecuteNotAwaited(w) ==
    /\ pc[w] = "execute"
    /\ Goto(w, "complete")
    /\ UNCHANGED <<job, seen, done>>

\* runOne(): execute() commits the work of the job, throws, or throws the
\* DeferredJobError of a ticket that SUNAT has not answered yet.
Execute(w) ==
    /\ pc[w] = "execute"
    /\ \/ Goto(w, "complete") /\ done' = done \union {cur[w]}
       \/ Goto(w, "failRead") /\ UNCHANGED done
       \/ Goto(w, "defer") /\ UNCHANGED done
    /\ UNCHANGED <<job, seen>>

\* complete(): conditional on ownership; its error is caught by runOne, which
\* then calls fail().
Complete(w) ==
    /\ pc[w] = "complete"
    /\ IF Owns(w, cur[w])
       THEN /\ job' = [job EXCEPT ![cur[w]] = Unlocked(@, "SUCCEEDED", @.due)]
            /\ Return(w)
       ELSE Goto(w, "failRead") /\ UNCHANGED job
    /\ UNCHANGED <<seen, done>>

\* fail(), the read: an error thrown here leaves runOne and ends the process.
FailRead(w) ==
    /\ pc[w] = "failRead"
    /\ IF Owns(w, cur[w])
       THEN /\ seen' = [seen EXCEPT ![w] = job[cur[w]].attempts]
            /\ Goto(w, "failWrite")
       ELSE Goto(w, "exited") /\ UNCHANGED seen
    /\ UNCHANGED <<job, done>>

FailWriteOffByOne(w) ==
    /\ pc[w] = "failWrite"
    /\ job' = [job EXCEPT ![cur[w]] =
                 Unlocked(@, IF seen[w] > MaxAttempts THEN "DEAD" ELSE "FAILED", FALSE)]
    /\ Return(w)
    /\ UNCHANGED <<seen, done>>

\* fail(), the write: by id only, whatever the row has become meanwhile.
FailWrite(w) ==
    /\ pc[w] = "failWrite"
    /\ job' = [job EXCEPT ![cur[w]] =
                 Unlocked(@, IF seen[w] >= MaxAttempts THEN "DEAD" ELSE "FAILED", FALSE)]
    /\ Return(w)
    /\ UNCHANGED <<seen, done>>

DeferredKeepsLock(row) == [row EXCEPT !.attempts = row.attempts - 1]

Deferred(row) ==
    [Unlocked(row, "PENDING", FALSE) EXCEPT !.attempts = row.attempts - 1]

\* defer(): gives the attempt back; called from the catch block, so that an
\* error thrown here ends the process.
Defer(w) ==
    /\ pc[w] = "defer"
    /\ IF Owns(w, cur[w]) /\ job[cur[w]].attempts > 0
       THEN /\ job' = [job EXCEPT ![cur[w]] = Deferred(@)]
            /\ Return(w)
       ELSE Goto(w, "exited") /\ UNCHANGED job
    /\ UNCHANGED <<seen, done>>

\* SIGTERM, --once or an empty queue under --drain: the loop ends between jobs.
Stop(w) ==
    /\ w \in Mortal
    /\ pc[w] = "poll"
    /\ Goto(w, "exited")
    /\ UNCHANGED <<job, seen, done>>

\* The process is killed with a job in its hands.
Crash(w) ==
    /\ w \in Mortal
    /\ pc[w] \in Busy
    /\ Goto(w, "exited")
    /\ UNCHANGED <<job, seen, done>>

\* The clock passes the nextRunAt of a waiting job, or makes a lock stale.
Elapse(j) ==
    /\ \/ /\ job[j].status \in {"PENDING", "FAILED"} /\ ~job[j].due
          /\ job' = [job EXCEPT ![j].due = TRUE]
       \/ /\ job[j].status = "RUNNING" /\ ~job[j].stale
          /\ job' = [job EXCEPT ![j].stale = TRUE]
    /\ UNCHANGED <<pc, cur, seen, done>>

Work(w) ==
    \/ \E j \in Jobs : Claim(w, j)
    \/ Execute(w)
    \/ Complete(w)
    \/ FailRead(w)
    \/ FailWrite(w)
    \/ Defer(w)

Next ==
    \/ \E j \in Jobs : Enqueue(j) \/ Elapse(j)
    \/ \E w \in Workers : Start(w) \/ Work(w) \/ Stop(w) \/ Crash(w)

Spec == Init /\ [][Next]_vars

\* A process that is not killed keeps running, time passes, and SUNAT does not
\* leave a ticket unanswered for ever.
Fairness ==
    /\ \A w \in Workers : /\ WF_vars(Start(w))
                          /\ WF_vars(Work(w))
                          /\ SF_vars(Execute(w) /\ pc'[w] # "defer")
    /\ \A j \in Jobs : WF_vars(Elapse(j))

FairSpec == Spec /\ Fairness

-----------------------------------------------------------------------------
(* Properties.                                                               *)

\* Every variable stays in its domain; in particular attempts never exceeds
\* maxAttempts although defer() decrements it and recovery leaves it alone.
TypeOK ==
    /\ job \in [Jobs -> JobRow]
    /\ pc \in [Workers -> Alive \union {"new", "exited"}]
    /\ cur \in [Workers -> Jobs \union {Nobody}]
    /\ seen \in [Workers -> 0..MaxAttempts]
    /\ done \subseteq Jobs

\* A row RUNNING in the name of a process is the row this process has in its
\* hands, or the process is gone: a live worker never forgets a job it locked,
\* whatever errors complete(), fail() and defer() threw on the way.
OwnerIsWorking ==
    \A j \in Jobs : job[j].status = "RUNNING" =>
        /\ job[j].lockedBy \in Workers
        /\ cur[job[j].lockedBy] = j
        /\ pc[job[j].lockedBy] \in Busy \union {"exited"}

\* complete() is only reached after the transaction of execute() committed: a
\* job reported as SUCCEEDED did its work, also after recoveries and retries.
SuccessMeansDone == \A j \in Jobs : job[j].status = "SUCCEEDED" => j \in done

\* What a row says of its job is so.
RowsAreTrue == OwnerIsWorking /\ SuccessMeansDone

\* With one worker process at a time, the process that holds a job keeps its
\* lock until it gives it back itself (recoverStaleLocks only runs at startup).
LeaseHeld ==
    MaxAlive = 1 => \A w \in Workers : pc[w] \in Busy => Owns(w, cur[w])

\* With one worker process at a time, a SUCCEEDED or DEAD row is never changed
\* again, in particular not by the unconditional write of fail().
SettledStays ==
    \A j \in Jobs : job[j].status \in Settled => job'[j] = job[j]
SettledIsFinal == [][MaxAlive = 1 => SettledStays]_vars

\* A process died with j in its hands, and nothing will run j again: its row is
\* still RUNNING after the last process started (only a start recovers rows), or
\* it was recovered with its attempts used up.
Stranded(j) ==
    \E w \in Mortal :
        /\ pc[w] = "exited" /\ cur[w] = j
        /\ \/ Owns(w, j)
           \/ job[j].status = "FAILED" /\ job[j].attempts >= MaxAttempts

\* Every job that was enqueued ends SUCCEEDED or DEAD, whatever fails, is put
\* off or is recovered on the way; only the death of its worker can strand it.
EverySettles ==
    \A j \in Jobs : <>[](\/ job[j].status \in Settled \union {"ABSENT"}
                        \/ Stranded(j))
=============================================================================
