----------------------------- MODULE MCJobBatches -----------------------------
(* TLC instances of JobBatches. *)
EXTENDS JobBatches, TLC

\* Process ids are interchangeable, and so are the jobs before they are sent.
Symmetries == Permutations(Pids) \cup Permutations(Items)

\* Of a row that has left the table only the items are ever read.
Rows == [i \in Ids |-> IF i \in table THEN row[i] ELSE NewRow(row[i].items, Nobody, TRUE)]

\* For ItemsKept, the order of the invocations and their number do not matter.
KeptView == <<caller, table, Rows, nextId, proc, pool,
              {k \in Items : done[k] > 0}, dropped, refused>>
=============================================================================
