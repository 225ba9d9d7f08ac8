------------------------------ MODULE JobRetries -----------------------------
(***************************************************************************)
(* The queue in operation with a count of the failures of each job: the    *)
(* calls of reschedule, from a worker whose job raised or from a sweep     *)
(* that found its worker dead.                                             *)
(***************************************************************************)
EXTENDS DelayedJobs

VARIABLES fails,  \* history: fails[i], failures of job i
          stale   \* history: the jobs that were locked from an old copy

retryVars == <<vars, fails, stale>>

Fails(i) == \/ \E p \in Pids : proc[p].job = i /\ HandleFailedJob(p)
            \/ \E o \in pool.orphans : o.id = i /\ SweepOne(o)

\* The job failed between the worker's SELECT and its UPDATE, which does not test
\* attempts: the count of this failure is lost when the worker's attempt fails too.
LocksOldCopy(i) == \E p \in Pids : /\ proc[p].job = i
                                   /\ proc[p].att # row[i].attempts
                                   /\ CanLock(i)
                                   /\ Lock(p)

RetryInit == Init /\ fails = [i \in Ids |-> 0] /\ stale = {}
RetryNext == /\ CoreNext
             /\ fails' = [i \in Ids |-> IF Fails(i) THEN fails[i] + 1 ELSE fails[i]]
             /\ stale' = stale \cup {i \in Ids : LocksOldCopy(i)}
RetrySpec == RetryInit /\ [][RetryNext]_retryVars

\* "should be failed if it failed more than Worker.max_attempts times"
\* (worker_spec.rb:236), "when a delayed job fails max_attempts times"
\* (worker.rb:24): a job that is still in the queue failed fewer times, whichever
\* workers raise and die.  Excepted are the jobs a worker locked from a copy older
\* than a failure (active_record.rb:290-296, base.rb:132).
FailuresBounded == \A i \in table \ stale : fails[i] < Limit(i)
=============================================================================
