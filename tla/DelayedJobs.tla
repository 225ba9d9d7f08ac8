----------------------------- MODULE DelayedJobs -----------------------------
(***************************************************************************)
(* The background job queue of vendor/plugins/delayed_job with its         *)
(* ActiveRecord backend on PostgreSQL: the delayed_jobs table and its two  *)
(* triggers, the code that enqueues jobs, the worker processes, the pool   *)
(* process that spawns them and frees the jobs of the dead ones, periodic  *)
(* jobs, the expiry of old locks, and the bulk operations of the           *)
(* administrator's page.                                                   *)
(*                                                                         *)
(* A statement (or one transaction holding a strand's advisory lock) is    *)
(* one step; what a process keeps between statements is its own, possibly  *)
(* stale, copy of the row.  Time is abstracted to two facts that become    *)
(* true of a row: its run_at has passed ("due") and its lock is older than *)
(* max_run_time ("old").  Payloads, priorities and queue names are not     *)
(* modelled: which ready job a worker picks is a free choice.              *)
(***************************************************************************)
EXTENDS Integers

CONSTANTS Strands,       \* strand names, those of singletons included
          Singletons,    \* strands used through the :singleton option
          Periodic,      \* the singletons of periodic jobs: max_attempts is 1
          NoStrand,      \* strand IS NULL
          Pids,          \* process ids of workers: locked_by is "host:pid"
          Nobody,        \* locked_at IS NULL
          OnHold,        \* ON_HOLD_LOCKED_BY
          MaxAttempts,   \* Delayed::Worker.max_attempts
          MaxId          \* bound: ids the sequence may hand out

ASSUME StrandsAssumption == /\ Singletons \subseteq Strands
                            /\ Periodic \subseteq Singletons
                            /\ NoStrand \notin Strands
ASSUME HoldersAssumption == /\ Nobody \notin Pids
                            /\ OnHold \notin Pids
                            /\ Nobody # OnHold
ASSUME BoundsAssumption == MaxAttempts \in Nat \ {0} /\ MaxId \in Nat

VARIABLES table,    \* ids of the rows of delayed_jobs
          row,      \* row[i]: the columns of row i
          nextId,   \* the id sequence
          failed,   \* original_id of the rows of failed_jobs
          proc,     \* proc[p]: the worker process p
          pool,     \* the pool process
          asked     \* history: asked[s], a request on singleton s is not yet taken up

vars == <<table, row, nextId, failed, proc, pool, asked>>

Ids == 1..MaxId
NoJob == 0
OnHoldCount == 50

Row == [strand   : Strands \cup {NoStrand},
        next     : BOOLEAN,                         \* next_in_strand
        by       : Pids \cup {Nobody, OnHold},      \* locked_by, locked_at
        attempts : Nat,
        due      : BOOLEAN,                         \* run_at <= now
        old      : BOOLEAN]                         \* locked_at < now - max_run_time

\* "none": no such process; "idle": about to look for a job; "locking": has a
\* candidate; "run": in invoke_job; "ran": invoke_job is over; "check": at
\* the exit? test; "zombie": dead, its pool has not waited for it.
Proc == [st  : {"none", "idle", "locking", "run", "ran", "check", "zombie"},
         job : Ids \cup {NoJob},
         att : Nat,        \* attempts in the copy of the row it works with
         ok  : BOOLEAN,    \* the job returned, it did not raise
         own : BOOLEAN]    \* its parent pool is still the running pool

Orphan == [id : Ids, att : Nat, pid : Pids]
Pool == [st : {"down", "sweep", "up"}, orphans : SUBSET Orphan, killed : BOOLEAN]

TypeOK == /\ table \in SUBSET Ids
          /\ row \in [Ids -> Row]
          /\ nextId \in 1..(MaxId + 1)
          /\ failed \in SUBSET Ids
          /\ proc \in [Pids -> Proc]
          /\ pool \in Pool
          /\ asked \in [Singletons -> BOOLEAN]

NewRow(s, next, due) == [strand |-> s, next |-> next, by |-> Nobody,
                         attempts |-> 0, due |-> due, old |-> FALSE]
NoProc == [st |-> "none", job |-> NoJob, att |-> 0, ok |-> TRUE, own |-> FALSE]

Init == /\ table = {}
        /\ row = [i \in Ids |-> NewRow(NoStrand, TRUE, FALSE)]
        /\ nextId = 1
        /\ failed = {}
        /\ proc = [p \in Pids |-> NoProc]
        /\ pool = [st |-> "down", orphans |-> {}, killed |-> FALSE]
        /\ asked = [s \in Singletons |-> FALSE]

-----------------------------------------------------------------------------
(* The table and its triggers.                                             *)

RowsOn(s) == {i \in table : row[i].strand = s}
Limit(i) == IF row[i].strand \in Periodic THEN 1 ELSE MaxAttempts

\* Mutation of Insert: the trigger leaves the column at its default.
InsertWithoutTrigger(s, due) ==
    /\ nextId <= MaxId
    /\ table' = table \cup {nextId}
    /\ row' = [row EXCEPT ![nextId] = NewRow(s, TRUE, due)]
    /\ nextId' = nextId + 1

\* INSERT, with the before-insert trigger: the row is next in its strand
\* unless the strand already has a row.
Insert(s, due) ==
    /\ nextId <= MaxId
    /\ table' = table \cup {nextId}
    /\ row' = [row EXCEPT ![nextId] =
                   NewRow(s, s = NoStrand \/ RowsOn(s) = {}, due)]
    /\ nextId' = nextId + 1

\* Mutation of MadeNext: the newest row left becomes next.
NewestMadeNext(i, D) ==
    /\ i \in table \ D
    /\ row[i].strand # NoStrand
    /\ \E d \in D : row[d].strand = row[i].strand /\ row[d].next
    /\ \A k \in table \ D : row[k].strand = row[i].strand => i >= k

\* Mutation of MadeNext: no trigger.
NeverMadeNext(i, D) == FALSE

\* The after-delete trigger makes row i next when a next row of its strand
\* was among the deleted rows D and i is the oldest row left on the strand.
MadeNext(i, D) ==
    /\ i \in table \ D
    /\ row[i].strand # NoStrand
    /\ \E d \in D : row[d].strand = row[i].strand /\ row[d].next
    /\ \A k \in table \ D : row[k].strand = row[i].strand => i <= k

Delete(D) ==
    /\ table' = table \ D
    /\ row' = [i \in Ids |-> IF MadeNext(i, D \cap table)
                             THEN [row[i] EXCEPT !.next = TRUE]
                             ELSE row[i]]

\* UPDATE of the lock columns of the rows in U.
Unlock(U) == /\ row' = [i \in Ids |-> IF i \in U
                                      THEN [row[i] EXCEPT !.by = Nobody, !.old = FALSE]
                                      ELSE row[i]]
             /\ UNCHANGED table

-----------------------------------------------------------------------------
(* Enqueuing.                                                              *)

\* enqueue without :singleton, for now or for later.
Enqueue(s, due) ==
    /\ s \in (Strands \ Singletons) \cup {NoStrand}
    /\ Insert(s, due)
    /\ UNCHANGED <<failed, proc, pool, asked>>

\* Mutation of CreateSingleton: a running job counts as the one to keep.
CreateUnlessPresent(s, due) ==
    /\ asked' = [asked EXCEPT ![s] = TRUE]
    /\ \/ /\ RowsOn(s) # {}
          /\ UNCHANGED <<table, row, nextId>>
       \/ /\ RowsOn(s) = {}
          /\ Insert(s, due)

\* Mutation of CreateSingleton: an ordinary enqueue.
CreateAlways(s, due) ==
    /\ asked' = [asked EXCEPT ![s] = TRUE]
    /\ Insert(s, due)

\* create_singleton: under the strand's lock, keep the first unlocked job if
\* there is one, otherwise create a job.
CreateSingleton(s, due) ==
    /\ asked' = [asked EXCEPT ![s] = TRUE]
    /\ \/ /\ \E i \in RowsOn(s) : row[i].by = Nobody
          /\ UNCHANGED <<table, row, nextId>>
       \/ /\ \A i \in RowsOn(s) : row[i].by # Nobody
          /\ Insert(s, due)

EnqueueSingleton(s, due) ==
    /\ CreateSingleton(s, due)
    /\ UNCHANGED <<failed, proc, pool>>

-----------------------------------------------------------------------------
(* What a failed attempt does to the job, from the copy of the row whose   *)
(* attempts column was att: give the job up when attempts are exhausted    *)
(* (the on_max_failures callback, or an error while copying the row, keep  *)
(* it out of failed_jobs), otherwise unlock it and set a later run_at.     *)

\* Mutation of Exhausted: one attempt too many.
ExhaustedLate(i, att) == att + 1 > Limit(i)

Exhausted(i, att) == att + 1 >= Limit(i)

Reschedule(i, att, keep) ==
    IF Exhausted(i, att)
    THEN /\ Delete({i})
         /\ failed' = IF keep THEN failed \cup {i} ELSE failed
    ELSE /\ row' = [row EXCEPT ![i] = IF i \in table
                        THEN [@ EXCEPT !.by = Nobody, !.old = FALSE,
                                       !.attempts = att + 1, !.due = FALSE]
                        ELSE @]
         /\ UNCHANGED <<table, failed>>

-----------------------------------------------------------------------------
(* Workers.                                                                *)

\* Mutation of Ready: the strand is not looked at.
ReadyInAnyOrder(i) == i \in table /\ row[i].due /\ row[i].by = Nobody

\* ready_to_run
Ready(i) == /\ i \in table
            /\ row[i].due
            /\ row[i].by = Nobody
            /\ row[i].next

\* find_available: the worker now holds a copy of a ready row.
Find(p) ==
    /\ proc[p].st = "idle"
    /\ \E i \in Ids :
          /\ Ready(i)
          /\ proc' = [proc EXCEPT ![p].st = "locking", ![p].job = i,
                                  ![p].att = row[i].attempts]
    /\ UNCHANGED <<table, row, nextId, failed, pool, asked>>

\* Nothing is ready: sleep, then the exit? test.
FindNothing(p) ==
    /\ proc[p].st = "idle"
    /\ \A i \in Ids : ~Ready(i)
    /\ proc' = [proc EXCEPT ![p].st = "check"]
    /\ UNCHANGED <<table, row, nextId, failed, pool, asked>>

\* Mutation of CanLock: the UPDATE does not test locked_at.
CanLockAnyway(i) == i \in table /\ row[i].due

\* lock_exclusively!: one UPDATE that tests locked_at and run_at again, but
\* not next_in_strand.
CanLock(i) == i \in table /\ row[i].by = Nobody /\ row[i].due

Lock(p) ==
    /\ proc[p].st = "locking"
    /\ LET i == proc[p].job IN
          \/ /\ CanLock(i)
             /\ row' = [row EXCEPT ![i].by = p, ![i].old = FALSE]
             /\ proc' = [proc EXCEPT ![p].st = "run"]
             /\ asked' = [s \in Singletons |-> asked[s] /\ s # row[i].strand]
          \/ /\ ~CanLock(i)
             /\ proc' = [proc EXCEPT ![p].st = "idle", ![p].job = NoJob, ![p].att = 0]
             /\ UNCHANGED <<row, asked>>
    /\ UNCHANGED <<table, nextId, failed, pool>>

\* invoke_job returns or raises (an error, a signal, the max_run_time
\* timeout).  A periodic job enqueues its next run whatever happened, and
\* swallows a failure to do so.
Perform(p, ok) ==
    /\ proc[p].st = "run"
    /\ proc' = [proc EXCEPT ![p].st = "ran", ![p].ok = ok]
    /\ LET s == row[proc[p].job].strand IN
          \/ /\ s \in Periodic
             /\ CreateSingleton(s, FALSE)
          \/ UNCHANGED <<table, row, nextId, asked>>
    /\ UNCHANGED <<failed, pool>>

\* job.destroy
Complete(p) ==
    /\ proc[p].st = "ran" /\ proc[p].ok
    /\ Delete({proc[p].job})
    /\ proc' = [proc EXCEPT ![p].st = "check", ![p].job = NoJob, ![p].att = 0]
    /\ UNCHANGED <<nextId, failed, pool, asked>>

\* job.destroy raises: the job has been performed, but counts as failed.
DestroyRaises(p) ==
    /\ proc[p].st = "ran" /\ proc[p].ok
    /\ proc' = [proc EXCEPT ![p].ok = FALSE]
    /\ UNCHANGED <<table, row, nextId, failed, pool, asked>>

\* handle_failed_job
HandleFailedJob(p) ==
    /\ proc[p].st = "ran" /\ ~proc[p].ok
    /\ \E keep \in BOOLEAN : Reschedule(proc[p].job, proc[p].att, keep)
    /\ proc' = [proc EXCEPT ![p].st = "check", ![p].job = NoJob, ![p].att = 0,
                            ![p].ok = TRUE]
    /\ UNCHANGED <<nextId, pool, asked>>

\* The loop goes round unless the parent pool is gone.
Loop(p) ==
    /\ proc[p].st = "check" /\ proc[p].own
    /\ proc' = [proc EXCEPT ![p].st = "idle"]
    /\ UNCHANGED <<table, row, nextId, failed, pool, asked>>

Dead(p) == IF proc[p].own THEN [NoProc EXCEPT !.st = "zombie", !.own = TRUE]
                          ELSE NoProc

LockedBy(p) == {i \in table : row[i].by = p}

\* The worker leaves the loop (parent gone, INT, job count or memory limit)
\* and the ensure clause runs clear_locks!.
Exit(p) ==
    /\ proc[p].st = "check"
    /\ Unlock(LockedBy(p))
    /\ proc' = [proc EXCEPT ![p] = Dead(p)]
    /\ UNCHANGED <<nextId, failed, pool, asked>>

\* configure_for_job raises before the job is invoked, or job.reschedule
\* raises after it: start rescues, clear_locks! runs, no attempt is counted.
Abort(p) ==
    /\ \/ proc[p].st = "run"
       \/ proc[p].st = "ran" /\ ~proc[p].ok
    /\ Unlock(LockedBy(p))
    /\ proc' = [proc EXCEPT ![p] = Dead(p)]
    /\ UNCHANGED <<nextId, failed, pool, asked>>

\* The process is killed, at any point.
Crash(p) ==
    /\ proc[p].st \notin {"none", "zombie"}
    /\ proc' = [proc EXCEPT ![p] = Dead(p)]
    /\ UNCHANGED <<table, row, nextId, failed, pool, asked>>

-----------------------------------------------------------------------------
(* The pool.                                                               *)

Alive(p) == proc[p].st # "none"

\* Mutation of RunningJobs: held jobs count as running.
LockedJobs(P) == {[id |-> i, att |-> row[i].attempts, pid |-> row[i].by] :
                     i \in {k \in table : row[k].by # Nobody}}

\* Mutation of RunningJobs: the sweep finds nothing.
NoRunningJobs(P) == {}

\* The running_jobs locked by a process of P, as copies.
RunningJobs(P) == {[id |-> i, att |-> row[i].attempts, pid |-> row[i].by] :
                      i \in {k \in table : row[k].by \in P}}

\* start: unlock_orphaned_jobs reads the locked rows of this host.
PoolStart ==
    /\ pool.st = "down"
    /\ pool' = [st |-> "sweep", orphans |-> RunningJobs(Pids), killed |-> FALSE]
    /\ UNCHANGED <<table, row, nextId, failed, proc, asked>>

\* join: Process.wait returns a dead child, whose locked rows are read.
Reap(p) ==
    /\ pool.st = "up"
    /\ proc[p].st = "zombie"
    /\ proc' = [proc EXCEPT ![p] = NoProc]
    /\ pool' = [st |-> "sweep", orphans |-> RunningJobs({p}), killed |-> TRUE]
    /\ UNCHANGED <<table, row, nextId, failed, asked>>

\* One round of the loop of unlock_orphaned_jobs: the job of a dead process
\* is rescheduled from the copy read when the sweep began.
SweepOne(o) ==
    /\ pool.st = "sweep"
    /\ o \in pool.orphans
    /\ pool' = [pool EXCEPT !.orphans = @ \ {o}]
    /\ \/ /\ pool.killed \/ ~Alive(o.pid)
          /\ Reschedule(o.id, o.att, TRUE)
       \/ /\ ~pool.killed /\ Alive(o.pid)
          /\ UNCHANGED <<table, row, failed>>
    /\ UNCHANGED <<nextId, proc, asked>>

SweepDone ==
    /\ pool.st = "sweep"
    /\ pool.orphans = {}
    /\ pool' = [pool EXCEPT !.st = "up", !.killed = FALSE]
    /\ UNCHANGED <<table, row, nextId, failed, proc, asked>>

\* spawn_worker, at the start and after each exit.
Spawn(p) ==
    /\ pool.st = "up"
    /\ proc[p].st = "none"
    /\ proc' = [proc EXCEPT ![p] = [NoProc EXCEPT !.st = "idle", !.own = TRUE]]
    /\ UNCHANGED <<table, row, nextId, failed, pool, asked>>

\* perform_audit!, for one periodic job: a child of the pool, it runs beside
\* every sweep but the first.
Audit(s) ==
    /\ pool.st = "up" \/ pool.killed
    /\ CreateSingleton(s, FALSE)
    /\ UNCHANGED <<failed, proc, pool>>

\* The pool dies; its workers find out at their next exit? test.
PoolDie ==
    /\ pool.st # "down"
    /\ pool' = [st |-> "down", orphans |-> {}, killed |-> FALSE]
    /\ proc' = [p \in Pids |-> IF proc[p].st = "zombie" THEN NoProc
                               ELSE [proc[p] EXCEPT !.own = FALSE]]
    /\ UNCHANGED <<table, row, nextId, failed, asked>>

-----------------------------------------------------------------------------
(* Time, the expiry of locks, and the administrator's page.                *)

BecomeDue(i) ==
    /\ i \in table /\ ~row[i].due
    /\ row' = [row EXCEPT ![i].due = TRUE]
    /\ UNCHANGED <<table, nextId, failed, proc, pool, asked>>

\* A lock outlives max_run_time: its holder died, or runs a batch, which has
\* no timeout, or is about to be timed out.
BecomeOld(i) ==
    /\ i \in table /\ row[i].by \in Pids /\ ~row[i].old
    /\ row' = [row EXCEPT ![i].old = TRUE]
    /\ UNCHANGED <<table, nextId, failed, proc, pool, asked>>

UnlockExpired ==
    /\ \E i \in table : row[i].old /\ row[i].by \in Pids
    /\ Unlock({i \in table : row[i].old /\ row[i].by \in Pids})
    /\ UNCHANGED <<nextId, failed, proc, pool, asked>>

BulkHold(D) ==
    /\ row' = [i \in Ids |-> IF i \in D
                  THEN [row[i] EXCEPT !.by = OnHold, !.attempts = OnHoldCount, !.old = FALSE]
                  ELSE row[i]]
    /\ UNCHANGED <<table, nextId, failed, proc, pool, asked>>

BulkUnhold(D) ==
    /\ row' = [i \in Ids |-> IF i \in D
                  THEN [row[i] EXCEPT !.by = Nobody, !.attempts = 0, !.old = FALSE]
                  ELSE row[i]]
    /\ UNCHANGED <<table, nextId, failed, proc, pool, asked>>

BulkDestroy(D) ==
    /\ Delete(D)
    /\ UNCHANGED <<nextId, failed, proc, pool, asked>>

-----------------------------------------------------------------------------
(* CoreNext: the queue in operation, with jobs that raise and workers that *)
(* die.  The other groups are what an operator, a restart of the pool, or  *)
(* an expired lock add to it.                                              *)

EnqueueNext == \E due \in BOOLEAN :
                  \/ \E s \in Strands \cup {NoStrand} : Enqueue(s, due)
                  \/ \E s \in Singletons : EnqueueSingleton(s, due)
WorkerNext == \E p \in Pids :
                 \/ Find(p) \/ FindNothing(p) \/ Lock(p)
                 \/ \E ok \in BOOLEAN : Perform(p, ok)
                 \/ Complete(p) \/ DestroyRaises(p) \/ HandleFailedJob(p)
                 \/ Loop(p) \/ Exit(p) \/ Abort(p) \/ Crash(p)
PoolNext == \/ PoolStart \/ SweepDone
            \/ \E p \in Pids : Reap(p) \/ Spawn(p)
            \/ \E o \in pool.orphans : SweepOne(o)
            \/ \E s \in Periodic : Audit(s)
TimeNext == \E i \in Ids : BecomeDue(i)

RestartNext == PoolDie
ExpiryNext == (\E i \in Ids : BecomeOld(i)) \/ UnlockExpired
HoldNext == \E D \in SUBSET table : BulkHold(D) \/ BulkUnhold(D)
DestroyNext == \E D \in SUBSET table : BulkDestroy(D)

CoreNext == EnqueueNext \/ WorkerNext \/ PoolNext \/ TimeNext
CoreSpec == Init /\ [][CoreNext]_vars

NoHoldNext == CoreNext \/ RestartNext \/ ExpiryNext \/ DestroyNext
NoHoldSpec == Init /\ [][NoHoldNext]_vars

Next == NoHoldNext \/ HoldNext
Spec == Init /\ [][Next]_vars

-----------------------------------------------------------------------------
(* Fairness: processes that are up keep going, the pool keeps sweeping and *)
(* spawning, time passes.  A job that is ready again and again is in the   *)
(* end found and locked, one that is locked again and again is in the end  *)
(* invoked, and one that is invoked again and again is in the end          *)
(* completed or marked failed: workers are not killed, and neither the     *)
(* system nor the database refuses, every single time.                     *)

Notice(i) == \E p \in Pids : Find(p) /\ proc'[p].job = i
Take(i) == \E p \in Pids : proc[p].job = i /\ CanLock(i) /\ Lock(p)
Invoke(i) == \E p \in Pids, ok \in BOOLEAN : proc[p].job = i /\ Perform(p, ok)
Finish(i) == \E p \in Pids : proc[p].job = i /\ (Complete(p) \/ HandleFailedJob(p))
Advance(p) == \/ Find(p) \/ FindNothing(p) \/ Lock(p)
              \/ \E ok \in BOOLEAN : Perform(p, ok)
              \/ Complete(p) \/ HandleFailedJob(p) \/ Loop(p)
              \/ Spawn(p)
Manage == \/ PoolStart \/ SweepDone
          \/ \E o \in pool.orphans : SweepOne(o)

Fairness == /\ \A p \in Pids : /\ WF_vars(Advance(p))
                               /\ SF_vars(Reap(p))
            /\ WF_vars(Manage)
            /\ \A i \in Ids : /\ WF_vars(BecomeDue(i))
                              /\ SF_vars(Notice(i))
                              /\ SF_vars(Take(i))
                              /\ SF_vars(Invoke(i))
                              /\ SF_vars(Finish(i))
LiveSpec == CoreSpec /\ Fairness

-----------------------------------------------------------------------------
(* Properties.                                                             *)

\* No row of its strand is older than row i.
Oldest(i) == \A k \in table : row[k].strand = row[i].strand => i <= k

Working(p) == proc[p].st \in {"run", "ran"}

\* The two triggers together keep exactly the oldest row of every strand
\* next, whatever is inserted, deleted in bulk, held, unlocked or retried
\* (the comment at active_record.rb:35-41).
NextIsOldest ==
    \A i \in table :
        row[i].next <=> row[i].strand = NoStrand \/ Oldest(i)

\* Although lock_exclusively! does not test next_in_strand, a row locked by a
\* worker is always the oldest of its strand: the answer of find_available
\* does not go stale in this respect (active_record.rb:290-296).
LockedIsOldest ==
    \A i \in table : row[i].by \in Pids /\ row[i].strand # NoStrand => Oldest(i)

\* No two workers perform the same job, or two jobs of one strand, however
\* jobs fail and workers die while the pool frees what dead ones held.
OneAtATime ==
    \A p, q \in Pids :
        p # q /\ Working(p) /\ Working(q) =>
            /\ proc[p].job # proc[q].job
            /\ \/ row[proc[p].job].strand = NoStrand
               \/ row[proc[p].job].strand # row[proc[q].job].strand

\* A request on a singleton that create_singleton answered with an existing
\* job is not lost: until a worker locks a job of the singleton, an unlocked
\* one is in the table.
RequestKept == \A s \in Singletons : asked[s] => \E i \in RowsOn(s) : row[i].by = Nobody

\* A singleton never has more than two rows, one being performed or retried
\* and one waiting, across failures, pool restarts and expired locks.
SingletonBound ==
    \A s \in Singletons : \A i, j, k \in RowsOn(s) : i = j \/ j = k \/ i = k

\* A row locked by a worker is being performed by it, or the worker's death
\* is still to be noticed, or the sweep that will free the row is under way:
\* no lock is forgotten.
LocksAccountedFor ==
    \A i \in table : row[i].by \in Pids =>
        LET p == row[i].by IN
            \/ Working(p) /\ proc[p].job = i
            \/ proc[p].st = "zombie"
            \/ \E o \in pool.orphans : o.id = i

\* Every job leaves the queue: it is completed or given up.  In particular a
\* strand is never left without a next row, nor a row locked by a process
\* that no longer exists.
EveryJobLeaves == \A i \in Ids : i \in table ~> i \notin table

\* The queue in operation implements StrandQueue.
Queue == INSTANCE StrandQueue WITH
            queued <- table,
            strandOf <- [i \in Ids |-> row[i].strand],
            running <- {proc[p].job : p \in {q \in Pids : Working(q)}}
\* Every step of the queue in operation is a step StrandQueue allows: jobs
\* start from the head of their strand only, and keep their place on failure.
ImplementsQueue == Queue!Spec
=============================================================================
