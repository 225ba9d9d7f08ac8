----------------------------- MODULE MCJobRetries -----------------------------
(* TLC instance of JobRetries. *)
EXTENDS JobRetries, TLC

\* Process ids are interchangeable.
PidSymmetry == Permutations(Pids)

\* Of a row that has left the table only the strand is ever read, and
\* failed_jobs is only written; the count of a job that is stale is not read.
View == <<table,
          [i \in Ids |-> IF i \in table THEN row[i] ELSE NewRow(row[i].strand, TRUE, TRUE)],
          nextId, proc, pool, asked,
          [i \in table \ stale |-> fails[i]], stale \cap table>>
=============================================================================
