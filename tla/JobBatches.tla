------------------------------ MODULE JobBatches ------------------------------
(***************************************************************************)
(* Batches of jobs: Delayed::Batch.serial_batch collects the jobs enqueued *)
(* in a block and enqueues them as one job whose payload is the list; the  *)
(* worker that performs it creates a row of its own for each item, already *)
(* locked, and performs the items one by one.  An item that raises is      *)
(* retried as its own row; a batch that raises is retried from its first   *)
(* item.                                                                   *)
(*                                                                         *)
(* Only jobs without a strand are batched, so strands are left out.  The   *)
(* search for a job and its locking are one step here: what may happen     *)
(* between them is the subject of DelayedJobs.                             *)
(***************************************************************************)
EXTENDS Integers, Sequences

CONSTANTS Items,         \* the jobs enqueued in the block
          Groups,        \* values of the enqueue arguments that make a batch
          Pids,          \* process ids of workers
          Nobody,        \* locked_at IS NULL
          MaxAttempts,   \* Delayed::Worker.max_attempts
          Once,          \* the jobs enqueued with :max_attempts => 1
          MaxId          \* bound: ids the sequence may hand out

ASSUME NobodyAssumption == Nobody \notin Pids
ASSUME OnceAssumption == Once \subseteq Items
ASSUME BoundsAssumption == MaxAttempts \in Nat \ {0} /\ MaxId \in Nat

VARIABLES caller,    \* the process inside serial_batch, and what it collected
          table,     \* ids of the rows of delayed_jobs
          row,       \* row[i]: the columns of row i
          nextId,    \* the id sequence
          proc,      \* proc[p]: the worker process p
          pool,      \* the pool process: the rows its sweep has still to free
          done,      \* history: done[k], how often item k has returned, up to Often
          tried,     \* history: the items some worker has invoked
          dropped,   \* items given up after the last attempt
          refused    \* items of batches whose enqueue raised

vars == <<caller, table, row, nextId, proc, pool, done, tried, dropped, refused>>
database == <<table, row, nextId>>
history == <<done, tried, dropped, refused>>

Ids == 1..MaxId
NoId == 0
Often == 2    \* bound: more returns are not counted

Row == [items    : Seq(Items),               \* the payload; a batch has several
        by       : Pids \cup {Nobody},       \* locked_by, locked_at
        attempts : Nat,
        due      : BOOLEAN,                  \* run_at <= now
        old      : BOOLEAN]                  \* locked_at < now - max_run_time

\* A Ruby object made from a row, with the attempts it had then.
Copy == [id : Ids \cup {NoId}, att : Nat, items : Seq(Items)]
NoCopy == [id |-> NoId, att |-> 0, items |-> <<>>]

\* "idle": about to look for a job; "batch": between two items of its batch;
\* "item": about to invoke a job; "ran": invoke_job is over; "failed": an
\* error has left the batch; "check": at the exit? test; "zombie": dead, its
\* pool has not waited for it.
Proc == [st    : {"none", "idle", "batch", "item", "ran", "failed", "check", "zombie"},
         batch : Copy,      \* the batch being performed
         pos   : Nat,       \* the item of the batch reached so far
         item  : Copy,      \* the job being invoked: an item, or no batch at all
         ok    : BOOLEAN]   \* the job returned, it did not raise
NoProc == [st |-> "none", batch |-> NoCopy, pos |-> 0, item |-> NoCopy, ok |-> TRUE]

Orphan == [copy : Copy, pid : Pids]

TypeOK == /\ caller \in [st : {"out", "in", "flush"}, batches : [Groups -> Seq(Items)]]
          /\ table \in SUBSET Ids
          /\ row \in [Ids -> Row]
          /\ nextId \in 1..(MaxId + 1)
          /\ proc \in [Pids -> Proc]
          /\ pool \in [sweep : BOOLEAN, orphans : SUBSET Orphan]
          /\ done \in [Items -> 0..Often]
          /\ tried \in SUBSET Items
          /\ dropped \in SUBSET Items
          /\ refused \in SUBSET Items

NewRow(items, by, due) == [items |-> items, by |-> by, attempts |-> 0,
                           due |-> due, old |-> FALSE]

Init == /\ caller = [st |-> "out", batches |-> [g \in Groups |-> <<>>]]
        /\ table = {}
        /\ row = [i \in Ids |-> NewRow(<<>>, Nobody, FALSE)]
        /\ nextId = 1
        /\ proc = [p \in Pids |-> NoProc]
        /\ pool = [sweep |-> FALSE, orphans |-> {}]
        /\ done = [k \in Items |-> 0]
        /\ tried = {}
        /\ dropped = {}
        /\ refused = {}

ItemsOf(c) == {c.items[n] : n \in 1..Len(c.items)}
Collected == UNION {{caller.batches[g][n] : n \in 1..Len(caller.batches[g])} : g \in Groups}
Sent == (UNION {ItemsOf(row[i]) : i \in Ids \cap 1..(nextId - 1)}) \cup Collected \cup refused

-----------------------------------------------------------------------------
(* The table.                                                              *)

Insert(r) == /\ nextId <= MaxId
             /\ table' = table \cup {nextId}
             /\ row' = [row EXCEPT ![nextId] = r]
             /\ nextId' = nextId + 1

Destroy(i) == table' = table \ {i} /\ UNCHANGED <<row, nextId>>

Unlock(U) == /\ row' = [i \in Ids |-> IF i \in U
                                      THEN [row[i] EXCEPT !.by = Nobody, !.old = FALSE]
                                      ELSE row[i]]
             /\ UNCHANGED <<table, nextId>>

\* The attempt on the object c was the last one.  A batch has the default
\* limit, whatever its items have.
Exhausted(c) == \/ c.att + 1 >= MaxAttempts
                \/ Len(c.items) = 1 /\ c.items[1] \in Once

\* Mutation of Reschedule: the row keeps its lock.
RescheduleLocked(c) ==
    IF Exhausted(c)
    THEN Destroy(c.id) /\ dropped' = dropped \cup ItemsOf(c)
    ELSE /\ row' = [row EXCEPT ![c.id] = IF c.id \in table
                        THEN [@ EXCEPT !.attempts = c.att + 1, !.due = FALSE]
                        ELSE @]
         /\ UNCHANGED <<table, nextId, dropped>>

\* job.reschedule, on the object c.
Reschedule(c) ==
    IF Exhausted(c)
    THEN Destroy(c.id) /\ dropped' = dropped \cup ItemsOf(c)
    ELSE /\ row' = [row EXCEPT ![c.id] = IF c.id \in table
                        THEN [@ EXCEPT !.by = Nobody, !.old = FALSE,
                                       !.attempts = c.att + 1, !.due = FALSE]
                        ELSE @]
         /\ UNCHANGED <<table, nextId, dropped>>

-----------------------------------------------------------------------------
(* Collecting.                                                             *)

\* prepare_batches: the block begins.
Begin ==
    /\ caller.st = "out"
    /\ Collected = {}
    /\ caller' = [caller EXCEPT !.st = "in"]
    /\ UNCHANGED <<database, proc, pool, history>>

\* enqueue in the block, of a job with neither strand nor run_at.
Collect(k, g) ==
    /\ caller.st = "in"
    /\ k \notin Sent
    /\ caller' = [caller EXCEPT !.batches[g] = Append(@, k)]
    /\ UNCHANGED <<database, proc, pool, history>>

\* enqueue of a job with a run_at, in the block or outside: its own row.
EnqueueAt(k) ==
    /\ caller.st # "flush"
    /\ k \notin Sent
    /\ Insert(NewRow(<<k>>, Nobody, FALSE))
    /\ UNCHANGED <<caller, proc, pool, history>>

\* The block returns or raises: the ensure clause runs in either case.  It
\* also runs when a serial_batch within the block is refused, with the
\* batches of the outer one; the rest of that block enqueues as outside.
BlockEnds ==
    /\ caller.st = "in"
    /\ caller' = [caller EXCEPT !.st = "flush"]
    /\ UNCHANGED <<database, proc, pool, history>>

\* Mutation of Flush: the list is wrapped once more.
FlushNested(g) ==
    /\ caller.st = "flush"
    /\ caller.batches[g] # <<>>
    /\ Insert(NewRow(<<caller.batches[g]>>, Nobody, TRUE))
    /\ caller' = [caller EXCEPT !.batches[g] = <<>>]
    /\ UNCHANGED <<proc, pool, history>>

\* One batch is enqueued: a single job as itself, several as a batch.  Both
\* are a row with the list of the jobs.
Flush(g) ==
    /\ caller.st = "flush"
    /\ caller.batches[g] # <<>>
    /\ Insert(NewRow(caller.batches[g], Nobody, TRUE))
    /\ caller' = [caller EXCEPT !.batches[g] = <<>>]
    /\ UNCHANGED <<proc, pool, history>>

\* An enqueue raises: the batches not yet enqueued are lost to the caller,
\* which sees the error.
FlushRaises ==
    /\ caller.st = "flush"
    /\ Collected # {}
    /\ caller' = [st |-> "out", batches |-> [g \in Groups |-> <<>>]]
    /\ refused' = refused \cup Collected
    /\ UNCHANGED <<database, proc, pool, done, tried, dropped>>

FlushDone ==
    /\ caller.st = "flush"
    /\ Collected = {}
    /\ caller' = [caller EXCEPT !.st = "out"]
    /\ UNCHANGED <<database, proc, pool, history>>

-----------------------------------------------------------------------------
(* Workers.                                                                *)

InBatch(p) == proc[p].batch # NoCopy

\* get_and_lock_next_available.
Take(p, i) ==
    /\ proc[p].st = "idle"
    /\ i \in table /\ row[i].due /\ row[i].by = Nobody
    /\ row' = [row EXCEPT ![i].by = p, ![i].old = FALSE]
    /\ LET c == [id |-> i, att |-> row[i].attempts, items |-> row[i].items] IN
          proc' = [proc EXCEPT ![p] = IF Len(c.items) > 1
                        THEN [NoProc EXCEPT !.st = "batch", !.batch = c]
                        ELSE [NoProc EXCEPT !.st = "item", !.item = c]]
    /\ UNCHANGED <<caller, table, nextId, pool, history>>

TakeNothing(p) ==
    /\ proc[p].st = "idle"
    /\ \A i \in table : ~row[i].due \/ row[i].by # Nobody
    /\ proc' = [proc EXCEPT ![p].st = "check"]
    /\ UNCHANGED <<caller, database, pool, history>>

\* Mutation of CreateAndLock: the items are begun from the last one.
CreateLastFirst(p) ==
    /\ proc[p].st = "batch"
    /\ proc[p].pos < Len(proc[p].batch.items)
    /\ LET items == proc[p].batch.items
           k == items[Len(items) - proc[p].pos] IN
          /\ Insert(NewRow(<<k>>, p, TRUE))
          /\ proc' = [proc EXCEPT ![p].st = "item", ![p].pos = @ + 1,
                          ![p].item = [id |-> nextId, att |-> 0, items |-> <<k>>]]
    /\ UNCHANGED <<caller, pool, history>>

\* perform_batch: the next item gets a row, locked by this worker.
CreateAndLock(p) ==
    /\ proc[p].st = "batch"
    /\ proc[p].pos < Len(proc[p].batch.items)
    /\ LET k == proc[p].batch.items[proc[p].pos + 1] IN
          /\ Insert(NewRow(<<k>>, p, TRUE))
          /\ proc' = [proc EXCEPT ![p].st = "item", ![p].pos = @ + 1,
                          ![p].item = [id |-> nextId, att |-> 0, items |-> <<k>>]]
    /\ UNCHANGED <<caller, pool, history>>

\* An error between the items: create_and_lock! or configure_for_job raises.
BatchRaises(p) ==
    /\ InBatch(p)
    /\ \/ proc[p].st = "batch" /\ proc[p].pos < Len(proc[p].batch.items)
       \/ proc[p].st = "item"
    /\ proc' = [proc EXCEPT ![p].st = "failed", ![p].item = NoCopy]
    /\ UNCHANGED <<caller, database, pool, history>>

\* invoke_job returns or raises.
Invoke(p, ok) ==
    /\ proc[p].st = "item"
    /\ proc' = [proc EXCEPT ![p].st = "ran", ![p].ok = ok]
    /\ LET k == proc[p].item.items[1] IN
          /\ tried' = tried \cup {k}
          /\ done' = IF ok THEN [done EXCEPT ![k] = IF @ < Often THEN @ + 1 ELSE @] ELSE done
    /\ UNCHANGED <<caller, database, pool, dropped, refused>>

\* The worker is through with the item: back to its batch, if it is in one.
Back(p) == [proc[p] EXCEPT !.st = IF InBatch(p) THEN "batch" ELSE "check",
                           !.item = NoCopy, !.ok = TRUE]

\* job.destroy of the item.
Complete(p) ==
    /\ proc[p].st = "ran" /\ proc[p].ok
    /\ Destroy(proc[p].item.id)
    /\ proc' = [proc EXCEPT ![p] = Back(p)]
    /\ UNCHANGED <<caller, pool, history>>

\* job.destroy raises: the item has been performed, but counts as failed.
DestroyRaises(p) ==
    /\ proc[p].st = "ran" /\ proc[p].ok
    /\ proc' = [proc EXCEPT ![p].ok = FALSE]
    /\ UNCHANGED <<caller, database, pool, history>>

\* Mutation of HandleFailedJob: the error of an item fails its batch too.
FailWithItem(p) ==
    /\ proc[p].st = "ran" /\ ~proc[p].ok
    /\ Reschedule(proc[p].item)
    /\ proc' = [proc EXCEPT ![p] = [Back(p) EXCEPT !.st = IF InBatch(p) THEN "failed" ELSE "check"]]
    /\ UNCHANGED <<caller, pool, done, tried, refused>>

\* handle_failed_job of the item: the batch goes on.
HandleFailedJob(p) ==
    /\ proc[p].st = "ran" /\ ~proc[p].ok
    /\ Reschedule(proc[p].item)
    /\ proc' = [proc EXCEPT ![p] = Back(p)]
    /\ UNCHANGED <<caller, pool, done, tried, refused>>

\* Mutation of HandlingRaises: the worker goes on as if nothing had been
\* raised, with a batch that is through.
HandlingIgnored(p) ==
    /\ InBatch(p)
    /\ proc[p].st = "ran" /\ ~proc[p].ok
    /\ \/ UNCHANGED table
       \/ Exhausted(proc[p].item) /\ table' = table \ {proc[p].item.id}
    /\ proc' = [proc EXCEPT ![p] = Back(p)]
    /\ UNCHANGED <<caller, row, nextId, pool, history>>

\* job.reschedule of an item raises in the rescue clause of its perform: the
\* error goes up to the perform of the batch.  The item stays locked, or, if
\* it was fail! that raised, has been destroyed without a failed row.
HandlingRaises(p) ==
    /\ InBatch(p)
    /\ proc[p].st = "ran" /\ ~proc[p].ok
    /\ \/ UNCHANGED table
       \/ Exhausted(proc[p].item) /\ table' = table \ {proc[p].item.id}
    /\ proc' = [proc EXCEPT ![p].st = "failed", ![p].item = NoCopy, ![p].ok = TRUE]
    /\ UNCHANGED <<caller, row, nextId, pool, history>>

\* perform_batch has returned: job.destroy of the batch.
CompleteBatch(p) ==
    /\ proc[p].st = "batch"
    /\ proc[p].pos = Len(proc[p].batch.items)
    /\ Destroy(proc[p].batch.id)
    /\ proc' = [proc EXCEPT ![p] = [NoProc EXCEPT !.st = "check"]]
    /\ UNCHANGED <<caller, pool, history>>

DestroyBatchRaises(p) ==
    /\ proc[p].st = "batch"
    /\ proc[p].pos = Len(proc[p].batch.items)
    /\ proc' = [proc EXCEPT ![p].st = "failed"]
    /\ UNCHANGED <<caller, database, pool, history>>

\* handle_failed_job of the batch: it is retried as a whole, or given up.
HandleFailedBatch(p) ==
    /\ proc[p].st = "failed"
    /\ Reschedule(proc[p].batch)
    /\ proc' = [proc EXCEPT ![p] = [NoProc EXCEPT !.st = "check"]]
    /\ UNCHANGED <<caller, pool, done, tried, refused>>

LockedBy(p) == {i \in table : row[i].by = p}
Dead == [NoProc EXCEPT !.st = "zombie"]

\* An error leaves the run loop: configure_for_job of the job taken, or the
\* handling of its failure, raises.  start rescues, clear_locks! runs.
Abort(p) ==
    /\ \/ proc[p].st = "failed"
       \/ proc[p].st = "batch" /\ proc[p].pos = 0
       \/ proc[p].st = "item" /\ ~InBatch(p)
       \/ proc[p].st = "ran" /\ ~proc[p].ok /\ ~InBatch(p)
    /\ Unlock(LockedBy(p))
    /\ proc' = [proc EXCEPT ![p] = Dead]
    /\ UNCHANGED <<caller, pool, history>>

Loop(p) ==
    /\ proc[p].st = "check"
    /\ proc' = [proc EXCEPT ![p].st = "idle"]
    /\ UNCHANGED <<caller, database, pool, history>>

\* The worker leaves the loop (INT, job count or memory limit).
Exit(p) ==
    /\ proc[p].st = "check"
    /\ Unlock(LockedBy(p))
    /\ proc' = [proc EXCEPT ![p] = Dead]
    /\ UNCHANGED <<caller, pool, history>>

\* The process is killed, at any point.
Crash(p) ==
    /\ proc[p].st \notin {"none", "zombie"}
    /\ proc' = [proc EXCEPT ![p] = Dead]
    /\ UNCHANGED <<caller, database, pool, history>>

-----------------------------------------------------------------------------
(* The pool, and time.                                                     *)

\* Process.wait returns a dead child, whose locked rows are read.
Reap(p) ==
    /\ ~pool.sweep
    /\ proc[p].st = "zombie"
    /\ proc' = [proc EXCEPT ![p] = NoProc]
    /\ pool' = [sweep |-> TRUE,
                orphans |-> {[copy |-> [id |-> i, att |-> row[i].attempts, items |-> row[i].items],
                              pid |-> p] : i \in LockedBy(p)}]
    /\ UNCHANGED <<caller, database, history>>

\* One round of unlock_orphaned_jobs.
SweepOne(o) ==
    /\ o \in pool.orphans
    /\ pool' = [pool EXCEPT !.orphans = @ \ {o}]
    /\ Reschedule(o.copy)
    /\ UNCHANGED <<caller, proc, done, tried, refused>>

SweepDone ==
    /\ pool.sweep /\ pool.orphans = {}
    /\ pool' = [pool EXCEPT !.sweep = FALSE]
    /\ UNCHANGED <<caller, database, proc, history>>

\* spawn_worker, at the start and after each exit.
Spawn(p) ==
    /\ ~pool.sweep
    /\ proc[p].st = "none"
    /\ proc' = [proc EXCEPT ![p] = [NoProc EXCEPT !.st = "idle"]]
    /\ UNCHANGED <<caller, database, pool, history>>

BecomeDue(i) ==
    /\ i \in table /\ ~row[i].due
    /\ row' = [row EXCEPT ![i].due = TRUE]
    /\ UNCHANGED <<caller, table, nextId, proc, pool, history>>

\* A lock outlives max_run_time.  The timeout of perform covers one job, and
\* for a batch each of its items, but not the batch.
BecomeOld(i) ==
    /\ i \in table /\ row[i].by # Nobody /\ ~row[i].old
    /\ row' = [row EXCEPT ![i].old = TRUE]
    /\ UNCHANGED <<caller, table, nextId, proc, pool, history>>

\* unlock_expired_jobs, a periodic job.
UnlockExpired ==
    LET U == {i \in table : row[i].old /\ row[i].by # Nobody} IN
       /\ U # {}
       /\ Unlock(U)
       /\ UNCHANGED <<caller, proc, pool, history>>

-----------------------------------------------------------------------------

CallerNext == \/ Begin \/ BlockEnds \/ FlushRaises \/ FlushDone
              \/ \E g \in Groups : Flush(g) \/ \E k \in Items : Collect(k, g)
              \/ \E k \in Items : EnqueueAt(k)
Step(p) == \/ \E i \in Ids : Take(p, i)
           \/ TakeNothing(p) \/ CreateAndLock(p)
           \/ \E ok \in BOOLEAN : Invoke(p, ok)
           \/ Complete(p) \/ HandleFailedJob(p)
           \/ CompleteBatch(p) \/ HandleFailedBatch(p) \/ Loop(p) \/ Exit(p)
PoolNext == \/ SweepDone
            \/ \E p \in Pids : Reap(p) \/ Spawn(p)
            \/ \E o \in pool.orphans : SweepOne(o)
TimeNext == \E i \in Ids : BecomeDue(i)

\* What the system and the database do to a worker, and expired locks.
Fail(p) == \/ BatchRaises(p) \/ DestroyRaises(p) \/ HandlingRaises(p)
           \/ DestroyBatchRaises(p) \/ Abort(p) \/ Crash(p)
ExpiryNext == UnlockExpired \/ \E i \in Ids : BecomeOld(i)

\* The batch in operation: jobs raise, but nothing else goes wrong.
CoreNext == CallerNext \/ PoolNext \/ TimeNext \/ \E p \in Pids : Step(p)
CoreSpec == Init /\ [][CoreNext]_vars

Next == CoreNext \/ ExpiryNext \/ \E p \in Pids : Fail(p)
Spec == Init /\ [][Next]_vars

-----------------------------------------------------------------------------
(* Liveness, when workers are killed and batches raise.  Fairness: the     *)
(* caller leaves its block, processes that are up keep going, time passes, *)
(* and a job that is ready again and again is taken in the end: workers    *)
(* are not killed every time before that.  At the bound on the ids,        *)
(* create_and_lock! can only raise.                                        *)

LiveNext == CoreNext \/ \E p \in Pids : Crash(p) \/ BatchRaises(p)
Fairness == /\ WF_vars(BlockEnds) /\ WF_vars(FlushDone)
            /\ \A g \in Groups : WF_vars(Flush(g) \/ (nextId > MaxId /\ FlushRaises))
            /\ \A p \in Pids : /\ WF_vars(Step(p) \/ (nextId > MaxId /\ BatchRaises(p)))
                               /\ WF_vars(Spawn(p))
                               /\ SF_vars(Reap(p))
            /\ WF_vars(SweepDone \/ \E o \in pool.orphans : SweepOne(o))
            /\ \A i \in Ids : /\ WF_vars(BecomeDue(i))
                              /\ SF_vars(\E p \in Pids : Take(p, i))
LiveSpec == Init /\ [][LiveNext]_vars /\ Fairness

-----------------------------------------------------------------------------
(* Properties.                                                             *)

\* Item k needs no batch: it has returned, it was given up, or it has a row.
Settled(k) == \/ done[k] > 0
              \/ k \in dropped
              \/ \E i \in table : row[i].items = <<k>>

\* No item is lost: from the call that collected it, through workers that
\* die, errors and expired locks, it stays with the caller, in the row of its
\* batch or in a row of its own until it has returned or was given up.
ItemsKept == \A k \in Sent : \/ Settled(k)
                             \/ k \in Collected \cup refused
                             \/ \E i \in table : k \in ItemsOf(row[i])

\* While no worker dies and the database does not refuse, no item is
\* performed again after it returned, though items raise and are retried
\* beside their batch (worker_spec.rb:58-74, "should succeed regardless of
\* the success/failure of its component jobs").
OncePerItem == \A k \in Items : done[k] <= 1

\* The items of a batch are begun in the order they were enqueued
\* (worker_spec.rb:41, "should run each job in order").
InOrder ==
    \A i \in table : \A m, n \in 1..Len(row[i].items) :
        m < n /\ row[i].items[n] \in tried => row[i].items[m] \in tried

\* Every item that was handed over returns, or is given up, in the end.
EveryItemSettles ==
    \A k \in Items : k \in Sent ~> done[k] > 0 \/ k \in dropped \cup refused
=============================================================================
