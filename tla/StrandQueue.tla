----------------------------- MODULE StrandQueue -----------------------------
(***************************************************************************)
(* What the job queue promises to the code that enqueues on a strand: jobs *)
(* of one strand are performed one at a time, each by one worker, in the   *)
(* order they were enqueued; an interrupted or failed job keeps its place; *)
(* jobs without a strand are independent.                                  *)
(* (vendor/plugins/delayed_job/spec_canvas/shared_backend_spec.rb:222-291) *)
(***************************************************************************)
EXTENDS Integers

CONSTANTS Ids,       \* job ids, numbers in the order of creation
          Strands,   \* strand names
          NoStrand   \* the strand of a job that has none

VARIABLES queued,    \* ids of the jobs in the queue
          strandOf,  \* strandOf[i]: the strand of job i
          running    \* ids of the jobs some worker is performing

vars == <<queued, strandOf, running>>

TypeOK == /\ queued \in SUBSET Ids
          /\ strandOf \in [Ids -> Strands \cup {NoStrand}]
          /\ running \in SUBSET Ids

Init == /\ queued = {}
        /\ strandOf = [i \in Ids |-> NoStrand]
        /\ running = {}

\* Job i is the oldest of its strand.
IsHead(i) == /\ i \in queued
             /\ \/ strandOf[i] = NoStrand
                \/ \A k \in queued : strandOf[k] = strandOf[i] => i <= k

\* Job i enters behind every job of the queue.
Enqueue(i, s) == /\ \A k \in queued : k < i
                 /\ queued' = queued \cup {i}
                 /\ strandOf' = [strandOf EXCEPT ![i] = s]
                 /\ UNCHANGED running

\* A worker begins the oldest job of a strand, and no other worker has it.
Start(i) == /\ IsHead(i)
            /\ i \notin running
            /\ running' = running \cup {i}
            /\ UNCHANGED <<queued, strandOf>>

\* The worker stops without completing the job, which stays queued.
Stop(i) == /\ i \in running
           /\ running' = running \ {i}
           /\ UNCHANGED <<queued, strandOf>>

\* The job is completed, or given up.
Remove(i) == /\ i \in queued
             /\ queued' = queued \ {i}
             /\ running' = running \ {i}
             /\ UNCHANGED strandOf

Next == \E i \in Ids : \/ \E s \in Strands \cup {NoStrand} : Enqueue(i, s)
                       \/ Start(i)
                       \/ Stop(i)
                       \/ Remove(i)

Spec == Init /\ [][Next]_vars

\* At most one job of a strand is being performed (shared_backend_spec.rb:233,
\* "normally w2 would now be able to lock job2, but strands prevent it").
OneAtATime == \A i, k \in running :
                 strandOf[i] = strandOf[k] /\ strandOf[i] # NoStrand => i = k
=============================================================================
