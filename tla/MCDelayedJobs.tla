---------------------------- MODULE MCDelayedJobs ----------------------------
(* TLC instances of DelayedJobs. *)
EXTENDS DelayedJobs, TLC

\* Process ids are interchangeable.
PidSymmetry == Permutations(Pids)

\* Of a row that has left the table only the strand is ever read, and
\* failed_jobs is only written.
View == <<table,
          [i \in Ids |-> IF i \in table THEN row[i] ELSE NewRow(row[i].strand, TRUE, TRUE)],
          nextId, proc, pool, asked>>

\* The queue in operation and the administrator's holds.
HoldSpec == Init /\ [][CoreNext \/ HoldNext]_vars
=============================================================================
