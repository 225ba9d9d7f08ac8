-------------------------- MODULE DelayedJobsProofs --------------------------
(***************************************************************************)
(* Theorems about DelayedJobs for any strands, processes, retry limit and  *)
(* number of ids.                                                          *)
(***************************************************************************)
EXTENDS JobRetries, NaturalsInduction, WellFoundedInduction, TLAPS

\* A process that holds a job holds a real one.
JobInHand == \A p \in Pids : proc[p].st \in {"locking", "run", "ran"} => proc[p].job \in Ids

TypeInv == TypeOK /\ JobInHand

-----------------------------------------------------------------------------
(* The building blocks keep the table well typed.                          *)

\* An insert adds an issued id with a well-formed row.
LEMMA InsertType ==
    ASSUME TypeOK, NEW s \in Strands \cup {NoStrand}, NEW due \in BOOLEAN, Insert(s, due)
    PROVE  /\ table' \in SUBSET Ids
           /\ row' \in [Ids -> Row]
           /\ nextId' \in 1..(MaxId + 1)
<1> DEFINE r == NewRow(s, s = NoStrand \/ RowsOn(s) = {}, due)
<1>1. r \in Row
      BY HoldersAssumption DEF NewRow, Row
<1>2. nextId \in Ids /\ nextId \in Nat
      BY BoundsAssumption DEF TypeOK, Insert, Ids
<1>3. row' = [row EXCEPT ![nextId] = r]
      BY DEF Insert
<1> HIDE DEF r
<1> QED BY <1>1, <1>2, <1>3, BoundsAssumption DEF TypeOK, Insert, Ids

\* A delete changes at most next_in_strand of the remaining rows.
LEMMA DeleteType ==
    ASSUME TypeOK, NEW D, Delete(D)
    PROVE  /\ table' \in SUBSET Ids
           /\ row' \in [Ids -> Row]
<1>1. \A r \in Row : [r EXCEPT !.next = TRUE] \in Row
      BY DEF Row
<1>2. \A i \in Ids : row[i] \in Row
      BY DEF TypeOK
<1>3. row' = [i \in Ids |-> IF MadeNext(i, D \cap table)
                           THEN [row[i] EXCEPT !.next = TRUE] ELSE row[i]]
      BY DEF Delete
<1>4. row' \in [Ids -> Row]
      BY <1>1, <1>2, <1>3
<1> QED BY <1>4 DEF TypeOK, Delete

\* The ways a row is updated in place yield well-formed rows.
LEMMA RowUpdates ==
    \A r \in Row :
        /\ [r EXCEPT !.by = Nobody, !.old = FALSE] \in Row
        /\ \A p \in Pids : [r EXCEPT !.by = p, !.old = FALSE] \in Row
        /\ \A n \in Nat : [r EXCEPT !.by = Nobody, !.old = FALSE,
                                     !.attempts = n, !.due = FALSE] \in Row
        /\ [r EXCEPT !.due = TRUE] \in Row
        /\ [r EXCEPT !.old = TRUE] \in Row
        /\ [r EXCEPT !.by = OnHold, !.attempts = OnHoldCount, !.old = FALSE] \in Row
        /\ [r EXCEPT !.by = Nobody, !.attempts = 0, !.old = FALSE] \in Row
BY DEF Row, OnHoldCount

\* Unlocking keeps the table well typed.
LEMMA UnlockType ==
    ASSUME TypeOK, NEW U, Unlock(U)
    PROVE  /\ table' \in SUBSET Ids
           /\ row' \in [Ids -> Row]
<1>1. \A i \in Ids : row[i] \in Row
      BY DEF TypeOK
<1> QED BY <1>1, RowUpdates DEF TypeOK, Unlock

\* So does create_singleton.
LEMMA CreateType ==
    ASSUME TypeOK, NEW s \in Singletons, NEW due \in BOOLEAN, CreateSingleton(s, due)
    PROVE  /\ table' \in SUBSET Ids
           /\ row' \in [Ids -> Row]
           /\ nextId' \in 1..(MaxId + 1)
           /\ asked' \in [Singletons -> BOOLEAN]
<1>1. asked' \in [Singletons -> BOOLEAN]
      BY DEF CreateSingleton, TypeOK
<1>2. CASE UNCHANGED <<table, row, nextId>>
      BY <1>1, <1>2 DEF TypeOK
<1>3. CASE Insert(s, due)
      BY <1>1, <1>3, InsertType, StrandsAssumption
<1> QED BY <1>2, <1>3 DEF CreateSingleton

\* So does a retry or giving up.
LEMMA RescheduleType ==
    ASSUME TypeOK, NEW i \in Ids, NEW att \in Nat, NEW keep \in BOOLEAN,
           Reschedule(i, att, keep)
    PROVE  /\ table' \in SUBSET Ids
           /\ row' \in [Ids -> Row]
           /\ failed' \in SUBSET Ids
<1>1. CASE Exhausted(i, att)
      BY <1>1, DeleteType DEF Reschedule, TypeOK
<1>2. CASE ~Exhausted(i, att)
  <2>1. row[i] \in Row /\ att + 1 \in Nat
        BY DEF TypeOK
  <2>2. [row[i] EXCEPT !.by = Nobody, !.old = FALSE,
                       !.attempts = att + 1, !.due = FALSE] \in Row
        BY <2>1, RowUpdates
  <2>3. row' = [row EXCEPT ![i] = IF i \in table
                   THEN [row[i] EXCEPT !.by = Nobody, !.old = FALSE,
                                       !.attempts = att + 1, !.due = FALSE]
                   ELSE row[i]]
        BY <1>2 DEF Reschedule, TypeOK
  <2>4. row' \in [Ids -> Row]
        BY <2>1, <2>2, <2>3 DEF TypeOK
  <2> QED BY <1>2, <2>4 DEF Reschedule, TypeOK
<1> QED BY <1>1, <1>2

-----------------------------------------------------------------------------
(* TypeInv is inductive.                                                   *)

LEMMA TypeInit == Init => TypeInv
<1> SUFFICES ASSUME Init PROVE TypeInv
    OBVIOUS
<1>1. \A s \in Strands \cup {NoStrand}, b, c \in BOOLEAN : NewRow(s, b, c) \in Row
      BY DEF NewRow, Row
<1>2. NoProc \in Proc
      BY DEF NoProc, Proc, NoJob
<1>3. pool \in Pool
      BY DEF Init, Pool
<1>4. 1 \in 1..(MaxId + 1)
      BY BoundsAssumption
<1>5. JobInHand
      BY DEF Init, JobInHand, NoProc
<1> QED BY <1>1, <1>2, <1>3, <1>4, <1>5 DEF Init, TypeInv, TypeOK

\* Enqueuing and the passing of time leave the processes alone.
LEMMA TypeTable ==
    ASSUME TypeInv,
           \/ EnqueueNext
           \/ \E s \in Periodic : Audit(s)
           \/ TimeNext
           \/ ExpiryNext
           \/ HoldNext
           \/ DestroyNext
    PROVE  TypeInv'
<1> USE DEF TypeInv
<1>0. ASSUME UNCHANGED <<failed, proc, pool>>,
             table' \in SUBSET Ids, row' \in [Ids -> Row],
             nextId' \in 1..(MaxId + 1), asked' \in [Singletons -> BOOLEAN]
      PROVE  TypeInv'
      BY <1>0 DEF TypeOK, JobInHand
<1>r. \A i \in Ids : row[i] \in Row
      BY DEF TypeOK
<1>1. ASSUME NEW s \in Strands \cup {NoStrand}, NEW due \in BOOLEAN, Enqueue(s, due)
      PROVE  TypeInv'
      BY <1>0, <1>1, InsertType DEF Enqueue, TypeOK
<1>2. ASSUME NEW s \in Singletons, NEW due \in BOOLEAN, EnqueueSingleton(s, due)
      PROVE  TypeInv'
      BY <1>0, <1>2, CreateType DEF EnqueueSingleton
<1>3. ASSUME NEW s \in Periodic, Audit(s)
      PROVE  TypeInv'
      BY <1>0, <1>3, CreateType, StrandsAssumption DEF Audit
<1>4. ASSUME NEW i \in Ids, BecomeDue(i) \/ BecomeOld(i)
      PROVE  TypeInv'
      BY <1>0, <1>r, <1>4, RowUpdates DEF BecomeDue, BecomeOld, TypeOK
<1>5. CASE UnlockExpired
      BY <1>0, <1>5, UnlockType DEF UnlockExpired, TypeOK
<1>6. ASSUME NEW D \in SUBSET table, BulkHold(D) \/ BulkUnhold(D)
      PROVE  TypeInv'
      BY <1>0, <1>r, <1>6, RowUpdates DEF BulkHold, BulkUnhold, TypeOK
<1>7. ASSUME NEW D \in SUBSET table, BulkDestroy(D)
      PROVE  TypeInv'
      BY <1>0, <1>7, DeleteType DEF BulkDestroy, TypeOK
<1> QED BY <1>1, <1>2, <1>3, <1>4, <1>5, <1>6, <1>7
        DEF EnqueueNext, TimeNext, ExpiryNext, HoldNext, DestroyNext

\* A step of a worker.
LEMMA TypeWorker ==
    ASSUME TypeInv, WorkerNext
    PROVE  TypeInv'
<1> USE DEF TypeInv
<1> SUFFICES ASSUME NEW p \in Pids,
                    \/ Find(p) \/ FindNothing(p) \/ Lock(p)
                    \/ \E ok \in BOOLEAN : Perform(p, ok)
                    \/ Complete(p) \/ DestroyRaises(p) \/ HandleFailedJob(p)
                    \/ Loop(p) \/ Exit(p) \/ Abort(p) \/ Crash(p)
             PROVE  TypeInv'
    BY DEF WorkerNext
<1>p. proc[p] \in Proc /\ proc[p].att \in Nat
      BY DEF TypeOK, Proc
<1>r. \A i \in Ids : row[i] \in Row /\ row[i].attempts \in Nat
      BY DEF TypeOK, Row
<1>0. ASSUME NEW r \in Proc, proc' = [proc EXCEPT ![p] = r],
             r.st \in {"locking", "run", "ran"} => r.job \in Ids,
             UNCHANGED pool,
             table' \in SUBSET Ids, row' \in [Ids -> Row], failed' \in SUBSET Ids,
             nextId' \in 1..(MaxId + 1), asked' \in [Singletons -> BOOLEAN]
      PROVE  TypeInv'
      BY <1>0 DEF TypeOK, JobInHand
<1>1. CASE Find(p)
  <2>1. PICK i \in Ids : proc' = [proc EXCEPT ![p].st = "locking", ![p].job = i,
                                            ![p].att = row[i].attempts]
        BY <1>1 DEF Find
  <2> DEFINE r == [proc[p] EXCEPT !.st = "locking", !.job = i, !.att = row[i].attempts]
  <2>2. r \in Proc /\ r.job \in Ids
        BY <1>p, <1>r DEF Proc
  <2>3. proc' = [proc EXCEPT ![p] = r]
        BY <2>1
  <2> QED BY <1>0, <1>1, <2>2, <2>3 DEF Find, TypeOK
<1>2. CASE FindNothing(p) \/ Loop(p)
  <2>1. PICK t \in {"idle", "check"} : proc' = [proc EXCEPT ![p].st = t]
        BY <1>2 DEF FindNothing, Loop
  <2> DEFINE r == [proc[p] EXCEPT !.st = t]
  <2>2. r \in Proc /\ r.st = t
        BY <1>p DEF Proc, NoJob
  <2>3. proc' = [proc EXCEPT ![p] = r]
        BY <2>1
  <2> QED BY <1>0, <1>2, <2>2, <2>3 DEF FindNothing, Loop, TypeOK
<1>3. CASE Lock(p)
  <2> DEFINE i == proc[p].job
  <2>1. i \in Ids
        BY <1>3 DEF Lock, JobInHand
  <2>2. CASE CanLock(i) /\ row' = [row EXCEPT ![i].by = p, ![i].old = FALSE]
                        /\ proc' = [proc EXCEPT ![p].st = "run"]
                        /\ asked' = [s \in Singletons |-> asked[s] /\ s # row[i].strand]
    <3> DEFINE r == [proc[p] EXCEPT !.st = "run"]
    <3>1. r \in Proc /\ r.job \in Ids
          BY <1>p, <2>1 DEF Proc
    <3>2. proc' = [proc EXCEPT ![p] = r]
          BY <2>2
    <3>3. row' \in [Ids -> Row]
          BY <2>1, <2>2, <1>r, RowUpdates DEF TypeOK
    <3>4. asked' \in [Singletons -> BOOLEAN]
          BY <2>2 DEF TypeOK
    <3> QED BY <1>0, <1>3, <3>1, <3>2, <3>3, <3>4 DEF Lock, TypeOK
  <2>3. CASE /\ proc' = [proc EXCEPT ![p].st = "idle", ![p].job = NoJob, ![p].att = 0]
             /\ UNCHANGED <<row, asked>>
    <3> DEFINE r == [proc[p] EXCEPT !.st = "idle", !.job = NoJob, !.att = 0]
    <3>1. r \in Proc /\ r.st = "idle"
          BY <1>p DEF Proc, NoJob
    <3>2. proc' = [proc EXCEPT ![p] = r]
          BY <2>3
    <3> QED BY <1>0, <1>3, <2>3, <3>1, <3>2 DEF Lock, TypeOK
  <2> QED BY <1>3, <2>2, <2>3 DEF Lock
<1>4. ASSUME NEW ok \in BOOLEAN, Perform(p, ok)
      PROVE  TypeInv'
  <2> DEFINE r == [proc[p] EXCEPT !.st = "ran", !.ok = ok]
  <2>1. r \in Proc /\ r.job \in Ids
        BY <1>p, <1>4 DEF Proc, Perform, JobInHand
  <2>2. proc' = [proc EXCEPT ![p] = r]
        BY <1>4 DEF Perform
  <2>3. \/ \E s \in Periodic : CreateSingleton(s, FALSE)
        \/ UNCHANGED <<table, row, nextId, asked>>
        BY <1>4 DEF Perform
  <2>4. /\ table' \in SUBSET Ids
        /\ row' \in [Ids -> Row]
        /\ nextId' \in 1..(MaxId + 1)
        /\ asked' \in [Singletons -> BOOLEAN]
        BY <2>3, CreateType, StrandsAssumption DEF TypeOK
  <2> HIDE DEF r
  <2> QED BY <1>0, <1>4, <2>1, <2>2, <2>4 DEF Perform, TypeOK
<1>5. CASE Complete(p)
  <2> DEFINE r == [proc[p] EXCEPT !.st = "check", !.job = NoJob, !.att = 0]
  <2>1. r \in Proc /\ r.st = "check"
        BY <1>p DEF Proc, NoJob
  <2>2. proc' = [proc EXCEPT ![p] = r]
        BY <1>5 DEF Complete
  <2> HIDE DEF r
  <2> QED BY <1>0, <1>5, <2>1, <2>2, DeleteType DEF Complete, TypeOK
<1>6. CASE DestroyRaises(p)
  <2> DEFINE r == [proc[p] EXCEPT !.ok = FALSE]
  <2>1. r \in Proc /\ r.job = proc[p].job /\ proc[p].job \in Ids
        BY <1>p, <1>6 DEF Proc, DestroyRaises, JobInHand
  <2>2. proc' = [proc EXCEPT ![p] = r]
        BY <1>6 DEF DestroyRaises
  <2> HIDE DEF r
  <2> QED BY <1>0, <1>6, <2>1, <2>2 DEF DestroyRaises, TypeOK
<1>7. CASE HandleFailedJob(p)
  <2> DEFINE r == [proc[p] EXCEPT !.st = "check", !.job = NoJob, !.att = 0, !.ok = TRUE]
  <2>1. r \in Proc /\ r.st = "check"
        BY <1>p DEF Proc, NoJob
  <2>2. proc' = [proc EXCEPT ![p] = r]
        BY <1>7 DEF HandleFailedJob
  <2>3. proc[p].job \in Ids
        BY <1>7 DEF HandleFailedJob, JobInHand
  <2>4. PICK keep \in BOOLEAN : Reschedule(proc[p].job, proc[p].att, keep)
        BY <1>7 DEF HandleFailedJob
  <2>5. table' \in SUBSET Ids /\ row' \in [Ids -> Row] /\ failed' \in SUBSET Ids
        BY <1>p, <2>3, <2>4, RescheduleType
  <2> HIDE DEF r
  <2> QED BY <1>0, <1>7, <2>1, <2>2, <2>5 DEF HandleFailedJob, TypeOK
<1>8. CASE Exit(p) \/ Abort(p) \/ Crash(p)
  <2>1. Dead(p) \in Proc /\ Dead(p).st \in {"none", "zombie"}
        BY <1>p DEF Dead, NoProc, NoJob, Proc
  <2>2. proc' = [proc EXCEPT ![p] = Dead(p)]
        BY <1>8 DEF Exit, Abort, Crash
  <2>3. table' \in SUBSET Ids /\ row' \in [Ids -> Row]
        BY <1>8, UnlockType DEF Exit, Abort, Crash, TypeOK
  <2> QED BY <1>0, <1>8, <2>1, <2>2, <2>3 DEF Exit, Abort, Crash, TypeOK
<1> QED BY <1>1, <1>2, <1>3, <1>4, <1>5, <1>6, <1>7, <1>8

\* A step of the pool process, its death included.
LEMMA TypePool ==
    ASSUME TypeInv,
           \/ PoolStart \/ SweepDone \/ PoolDie
           \/ \E p \in Pids : Reap(p) \/ Spawn(p)
           \/ \E o \in pool.orphans : SweepOne(o)
    PROVE  TypeInv'
<1> USE DEF TypeInv
<1>n. NoProc \in Proc /\ NoProc.st = "none"
      BY DEF NoProc, Proc, NoJob
<1>o. ASSUME NEW P \in SUBSET Pids
      PROVE  RunningJobs(P) \in SUBSET Orphan
      BY DEF RunningJobs, Orphan, TypeOK, Row
<1>1. CASE PoolStart
  <2>1. pool' \in Pool
        BY <1>1, <1>o DEF PoolStart, Pool
  <2> QED BY <1>1, <2>1 DEF PoolStart, TypeOK, JobInHand
<1>2. CASE SweepDone
  <2>1. pool' \in Pool
        BY <1>2 DEF SweepDone, Pool, TypeOK
  <2> QED BY <1>2, <2>1 DEF SweepDone, TypeOK, JobInHand
<1>3. CASE PoolDie
  <2>1. pool' \in Pool
        BY <1>3 DEF PoolDie, Pool
  <2>2. \A p \in Pids : /\ [proc[p] EXCEPT !.own = FALSE] \in Proc
                        /\ [proc[p] EXCEPT !.own = FALSE].st = proc[p].st
                        /\ [proc[p] EXCEPT !.own = FALSE].job = proc[p].job
        BY DEF TypeOK, Proc
  <2>3. proc' = [p \in Pids |-> IF proc[p].st = "zombie" THEN NoProc
                               ELSE [proc[p] EXCEPT !.own = FALSE]]
        BY <1>3 DEF PoolDie
  <2>4. proc' \in [Pids -> Proc]
        BY <1>n, <2>2, <2>3
  <2>5. JobInHand'
        BY <1>n, <2>2, <2>3 DEF JobInHand
  <2> QED BY <1>3, <2>1, <2>4, <2>5 DEF PoolDie, TypeOK
<1>4. ASSUME NEW p \in Pids, Reap(p)
      PROVE  TypeInv'
  <2>1. pool' \in Pool
        BY <1>4, <1>o DEF Reap, Pool
  <2> QED BY <1>4, <1>n, <2>1 DEF Reap, TypeOK, JobInHand
<1>5. ASSUME NEW p \in Pids, Spawn(p)
      PROVE  TypeInv'
  <2> DEFINE r == [NoProc EXCEPT !.st = "idle", !.own = TRUE]
  <2>1. r \in Proc /\ r.st = "idle"
        BY <1>n DEF Proc, NoProc
  <2> QED BY <1>5, <2>1 DEF Spawn, TypeOK, JobInHand
<1>6. ASSUME NEW o \in pool.orphans, SweepOne(o)
      PROVE  TypeInv'
  <2>1. o.id \in Ids /\ o.att \in Nat /\ pool \in Pool
        BY DEF TypeOK, Pool, Orphan
  <2>2. pool' \in Pool
        BY <1>6, <2>1 DEF SweepOne, Pool
  <2>3. table' \in SUBSET Ids /\ row' \in [Ids -> Row] /\ failed' \in SUBSET Ids
        BY <1>6, <2>1, RescheduleType DEF SweepOne, TypeOK
  <2> QED BY <1>6, <2>2, <2>3 DEF SweepOne, TypeOK, JobInHand
<1> QED BY <1>1, <1>2, <1>3, <1>4, <1>5, <1>6

\* Every step keeps the types.
LEMMA TypeStep == TypeInv /\ [Next]_vars => TypeInv'
<1> SUFFICES ASSUME TypeInv, [Next]_vars PROVE TypeInv'
    OBVIOUS
<1>1. CASE UNCHANGED vars
      BY <1>1 DEF vars, TypeInv, TypeOK, JobInHand
<1>2. CASE Next
      BY <1>2, TypeTable, TypeWorker, TypePool
      DEF Next, NoHoldNext, CoreNext, PoolNext, RestartNext
<1> QED BY <1>1, <1>2

\* Type correctness of the queue with everything an operator may do to it.
THEOREM TypeCorrect == Spec => []TypeOK
<1>1. TypeInv => TypeOK
      BY DEF TypeInv
<1> QED BY TypeInit, TypeStep, <1>1, PTL DEF Spec

-----------------------------------------------------------------------------
(***************************************************************************)
(* The order of a strand.  NextIsOldest is kept by each of the ways the    *)
(* table changes (an insert, a delete, an update of other columns).  That  *)
(* a locked row is next needs more: the row a worker is about to lock was  *)
(* next when it was found, a next row stays next until it is deleted, and  *)
(* its id is never issued again.                                           *)
(***************************************************************************)

IdsIssued == /\ \A i \in table : i < nextId
             /\ \A p \in Pids : proc[p].job < nextId

LockedIsNext == \A i \in table : row[i].by \in Pids => row[i].next

CandidateIsNext ==
    \A p \in Pids : proc[p].st = "locking" /\ proc[p].job \in table => row[proc[p].job].next

StrandInv == NextIsOldest /\ IdsIssued /\ LockedIsNext /\ CandidateIsNext

\* What a change of the table other than by Lock leaves true.
RowsKept ==
    \A i \in table' \cap table :
        /\ row'[i].strand = row[i].strand
        /\ row[i].next => row'[i].next
        /\ row'[i].by \in Pids => row[i].by \in Pids
NewRows == \A i \in table' \ table : /\ i = nextId
                                     /\ row'[i].by = Nobody
TableKept == /\ NextIsOldest' /\ RowsKept /\ NewRows
             /\ nextId <= nextId'
             /\ \A i \in table' : i < nextId'

\* A set of numbers that has a member has a smallest one.
LEMMA SmallestNat ==
    ASSUME NEW S \in SUBSET Nat, NEW x \in S
    PROVE  \E d \in S : \A k \in S : d <= k
<1> DEFINE R == OpToRel(<, Nat)
<1>1. IsWellFoundedOn(R, Nat) /\ S # {}
      BY NatLessThanWellFounded
<1>2. \A k, d \in Nat : k < d => <<k, d>> \in R
      BY DEF OpToRel
<1> HIDE DEF R
<1>3. PICK d \in S : \A k \in S : <<k, d>> \notin R
      BY <1>1, WFMin
<1>4. ASSUME NEW k \in S PROVE d <= k
  <2>1. k \in Nat /\ d \in Nat /\ ~(k < d)
        BY <1>2, <1>3
  <2> QED BY <2>1
<1> QED BY <1>4

\* An update that leaves strand and next_in_strand alone, and locks nothing.
SameStrands ==
    /\ table' = table
    /\ \A i \in table : /\ row'[i].strand = row[i].strand
                        /\ row'[i].next = row[i].next
                        /\ row'[i].by \in Pids => row[i].by \in Pids

\* It keeps the order of the strands.
LEMMA UpdateKeeps ==
    ASSUME TypeOK, NextIsOldest, IdsIssued, nextId' = nextId, SameStrands
    PROVE  TableKept
<1>1. ASSUME NEW i \in table PROVE Oldest(i)' <=> Oldest(i)
      BY DEF SameStrands, Oldest
<1>2. NextIsOldest'
      BY <1>1 DEF SameStrands, NextIsOldest
<1>3. RowsKept /\ NewRows
      BY DEF SameStrands, RowsKept, NewRows
<1>4. nextId <= nextId' /\ \A i \in table' : i < nextId'
      BY BoundsAssumption DEF SameStrands, IdsIssued, TypeOK
<1> QED BY <1>2, <1>3, <1>4 DEF TableKept

\* The insert trigger.
LEMMA InsertKeeps ==
    ASSUME TypeOK, NextIsOldest, IdsIssued,
           NEW s \in Strands \cup {NoStrand}, NEW due \in BOOLEAN, Insert(s, due)
    PROVE  TableKept
<1> DEFINE n == nextId
           r == NewRow(s, s = NoStrand \/ RowsOn(s) = {}, due)
<1>1. /\ n \in Ids /\ n \notin table
      /\ table \subseteq Ids /\ Ids \subseteq Nat
      /\ \A i \in table : i < n
      BY BoundsAssumption DEF Insert, IdsIssued, TypeOK, Ids
<1>2. /\ table' = table \cup {n}
      /\ row'[n] = r
      /\ \A i \in table : row'[i] = row[i]
      /\ nextId' = n + 1
      BY <1>1 DEF Insert, TypeOK
<1>3. /\ r.strand = s
      /\ r.next = (s = NoStrand \/ RowsOn(s) = {})
      /\ r.by = Nobody
      BY DEF NewRow
<1> HIDE DEF n, r
<1>4. ASSUME NEW i \in table'
      PROVE  row'[i].next <=> row'[i].strand = NoStrand \/ Oldest(i)'
  <2>1. CASE i \in table
    <3>1. Oldest(i)' <=> Oldest(i)
          BY <1>1, <1>2, <2>1 DEF Oldest
    <3> QED BY <1>2, <2>1, <3>1 DEF NextIsOldest
  <2>2. CASE i = n
    <3>1. ASSUME RowsOn(s) = {} PROVE Oldest(i)'
      <4>1. \A k \in table : row'[k].strand # row'[n].strand
            BY <1>2, <1>3, <3>1 DEF RowsOn
      <4>2. n <= n
            BY <1>1
      <4> QED BY <1>2, <2>2, <4>1, <4>2 DEF Oldest
    <3>2. ASSUME NEW k \in RowsOn(s) PROVE ~Oldest(i)'
      <4>1. k \in table /\ row[k].strand = s /\ k < n
            BY <1>1 DEF RowsOn
      <4>2. k \in table' /\ row'[k].strand = row'[n].strand /\ ~(n <= k)
            BY <1>1, <1>2, <1>3, <4>1
      <4> QED BY <2>2, <4>2 DEF Oldest
    <3> QED BY <1>2, <1>3, <2>2, <3>1, <3>2
  <2> QED BY <1>2, <2>1, <2>2
<1>5. NextIsOldest'
      BY <1>4 DEF NextIsOldest
<1>6. RowsKept
      BY <1>2 DEF RowsKept
<1>7. NewRows
      BY <1>2, <1>3 DEF NewRows, n
<1>8. nextId <= nextId' /\ \A i \in table' : i < nextId'
      BY <1>1, <1>2 DEF n
<1> QED BY <1>5, <1>6, <1>7, <1>8 DEF TableKept

\* The delete trigger: whichever rows go, the oldest one left is next.
LEMMA DeleteKeeps ==
    ASSUME TypeOK, NextIsOldest, IdsIssued, NEW D, Delete(D), nextId' = nextId
    PROVE  TableKept
<1> DEFINE E == D \cap table
<1>1. /\ table' = table \ E
      /\ table \subseteq Ids /\ Ids \subseteq Nat
      BY DEF Delete, TypeOK, Ids
<1>2. \A i \in table' : /\ row'[i].strand = row[i].strand
                        /\ row'[i].by = row[i].by
                        /\ row'[i].next = (row[i].next \/ MadeNext(i, E))
      BY <1>1 DEF Delete, TypeOK, Row
<1>3. ASSUME NEW i \in table'
      PROVE  row'[i].next <=> row'[i].strand = NoStrand \/ Oldest(i)'
  <2>1. Oldest(i) => Oldest(i)'
        BY <1>1, <1>2 DEF Oldest
  <2>2. MadeNext(i, E) => Oldest(i)'
        BY <1>1, <1>2 DEF MadeNext, Oldest
  <2>3. ASSUME Oldest(i)', ~Oldest(i), row[i].strand # NoStrand
        PROVE  MadeNext(i, E)
    <3> DEFINE S == {k \in table : row[k].strand = row[i].strand}
    <3>1. PICK m \in S : \A k \in S : m <= k
      <4>1. S \subseteq Nat /\ i \in S
            BY <1>1
      <4> QED BY <4>1, SmallestNat
    <3>2. Oldest(m) /\ m \in table
          BY <3>1 DEF Oldest
    <3>3. row[m].next
          BY <2>3, <3>1, <3>2 DEF NextIsOldest
    <3>4. m \in E
          BY <1>1, <1>2, <2>3, <3>1, <3>2 DEF Oldest
    <3> QED BY <1>1, <1>2, <2>3, <3>1, <3>3, <3>4 DEF MadeNext, Oldest
  <2> QED BY <1>1, <1>2, <2>1, <2>2, <2>3 DEF NextIsOldest
<1>4. NextIsOldest'
      BY <1>3 DEF NextIsOldest
<1>5. RowsKept
      BY <1>1, <1>2 DEF RowsKept
<1> QED BY <1>1, <1>4, <1>5 DEF TableKept, NewRows, IdsIssued, TypeOK, Ids

\* clear_locks!, and the unlocking of expired rows.
LEMMA UnlockKeeps ==
    ASSUME TypeOK, NextIsOldest, IdsIssued, NEW U, Unlock(U), nextId' = nextId
    PROVE  TableKept
<1>1. SameStrands
      BY HoldersAssumption DEF SameStrands, Unlock, TypeOK, Row
<1> QED BY <1>1, UpdateKeeps

\* create_singleton, whichever way it goes.
LEMMA CreateKeeps ==
    ASSUME TypeOK, NextIsOldest, IdsIssued,
           NEW s \in Singletons, NEW due \in BOOLEAN, CreateSingleton(s, due)
    PROVE  TableKept
<1>1. CASE UNCHANGED <<table, row, nextId>>
      BY <1>1, UpdateKeeps DEF SameStrands
<1>2. CASE Insert(s, due)
      BY <1>2, InsertKeeps, StrandsAssumption
<1> QED BY <1>1, <1>2 DEF CreateSingleton

\* A retry, or giving the job up.
LEMMA RescheduleKeeps ==
    ASSUME TypeOK, NextIsOldest, IdsIssued, nextId' = nextId,
           NEW i \in Ids, NEW att \in Nat, NEW keep \in BOOLEAN, Reschedule(i, att, keep)
    PROVE  TableKept
<1>1. CASE Exhausted(i, att)
      BY <1>1, DeleteKeeps DEF Reschedule
<1>2. CASE ~Exhausted(i, att)
  <2>1. \A k \in table : /\ row'[k].strand = row[k].strand
                         /\ row'[k].next = row[k].next
                         /\ row'[k].by \in Pids => row[k].by \in Pids
    <3> SUFFICES ASSUME NEW k \in table
                 PROVE  /\ row'[k].strand = row[k].strand
                        /\ row'[k].next = row[k].next
                        /\ row'[k].by \in Pids => row[k].by \in Pids
        OBVIOUS
    <3>1. k \in Ids /\ row[k] \in Row
          BY DEF TypeOK
    <3>2. row'[k] = IF k = i
                    THEN [row[k] EXCEPT !.by = Nobody, !.old = FALSE,
                                        !.attempts = att + 1, !.due = FALSE]
                    ELSE row[k]
          BY <1>2, <3>1 DEF Reschedule, TypeOK
    <3>3. CASE k # i
          BY <3>2, <3>3
    <3>4. CASE k = i
          BY <3>1, <3>2, <3>4, HoldersAssumption DEF Row
    <3> QED BY <3>3, <3>4
  <2>2. SameStrands
        BY <1>2, <2>1 DEF Reschedule, SameStrands
  <2> QED BY <2>2, UpdateKeeps
<1> QED BY <1>1, <1>2

\* The induction step, from what it needs of the table and of the candidates.
LEMMA StrandKept ==
    ASSUME TypeOK, StrandInv, TableKept,
           \A p \in Pids : proc'[p].job < nextId',
           \A p \in Pids : proc'[p].st = "locking" =>
               /\ proc'[p].job \in table => row[proc'[p].job].next
               /\ proc'[p].job < nextId
    PROVE  StrandInv'
<1>0. nextId \in Nat
      BY BoundsAssumption DEF TypeOK
<1>1. LockedIsNext'
      BY HoldersAssumption DEF LockedIsNext, StrandInv, TableKept, RowsKept, NewRows
<1>2. CandidateIsNext'
  <2> SUFFICES ASSUME NEW p \in Pids, proc'[p].st = "locking", proc'[p].job \in table'
               PROVE  row'[proc'[p].job].next
      BY DEF CandidateIsNext
  <2>1. proc'[p].job \in table
        BY <1>0 DEF TableKept, NewRows
  <2> QED BY <2>1 DEF TableKept, RowsKept
<1> QED BY <1>1, <1>2 DEF StrandInv, TableKept, IdsIssued

\* A change of the table under which the processes keep their candidates.
LEMMA StrandTable ==
    ASSUME TypeOK, TypeOK', StrandInv, TableKept,
           \A p \in Pids : proc'[p].job = proc[p].job \/ proc'[p].job = NoJob,
           \A p \in Pids : proc'[p].st = "locking" => proc[p].st = "locking" /\ proc'[p].job = proc[p].job
    PROVE  StrandInv'
<1>1. nextId \in Nat \ {0}
      BY BoundsAssumption DEF TypeOK
<1>2. nextId <= nextId' /\ \A p \in Pids : proc[p].job < nextId
      BY DEF TableKept, StrandInv, IdsIssued
<1>3. \A p \in Pids : proc[p].job \in Nat
      BY DEF TypeOK, Proc, Ids, NoJob
<1>4. nextId' \in Nat
      BY BoundsAssumption DEF TypeOK
<1>5. \A p \in Pids : proc'[p].job < nextId'
      BY <1>1, <1>2, <1>3, <1>4 DEF NoJob
<1>6. \A p \in Pids : proc'[p].st = "locking" =>
               /\ proc'[p].job \in table => row[proc'[p].job].next
               /\ proc'[p].job < nextId
      BY <1>2 DEF StrandInv, CandidateIsNext
<1> QED BY <1>5, <1>6, StrandKept

LEMMA StrandInit == Init => StrandInv
BY DEF Init, StrandInv, NextIsOldest, IdsIssued, LockedIsNext, CandidateIsNext, NoProc, NoJob

\* Steps that leave the processes alone.
LEMMA StrandOthers ==
    ASSUME TypeInv, TypeInv', StrandInv,
           \/ EnqueueNext
           \/ \E s \in Periodic : Audit(s)
           \/ TimeNext
           \/ ExpiryNext
           \/ HoldNext
           \/ DestroyNext
    PROVE  StrandInv'
<1> USE DEF TypeInv
<1>0. ASSUME TableKept, UNCHANGED proc PROVE StrandInv'
      BY <1>0, StrandTable
<1>i. NextIsOldest /\ IdsIssued
      BY DEF StrandInv
<1>1. ASSUME NEW s \in Strands \cup {NoStrand}, NEW due \in BOOLEAN, Enqueue(s, due)
      PROVE  StrandInv'
      BY <1>0, <1>i, <1>1, InsertKeeps DEF Enqueue
<1>2. ASSUME NEW s \in Singletons, NEW due \in BOOLEAN, EnqueueSingleton(s, due)
      PROVE  StrandInv'
      BY <1>0, <1>i, <1>2, CreateKeeps DEF EnqueueSingleton
<1>3. ASSUME NEW s \in Periodic, Audit(s)
      PROVE  StrandInv'
      BY <1>0, <1>i, <1>3, CreateKeeps, StrandsAssumption DEF Audit
<1>4. ASSUME NEW i \in Ids, BecomeDue(i) \/ BecomeOld(i)
      PROVE  StrandInv'
  <2>1. SameStrands
        BY <1>4 DEF SameStrands, BecomeDue, BecomeOld, TypeOK, Row
  <2> QED BY <1>0, <1>i, <1>4, <2>1, UpdateKeeps DEF BecomeDue, BecomeOld
<1>5. CASE UnlockExpired
      BY <1>0, <1>i, <1>5, UnlockKeeps DEF UnlockExpired
<1>6. ASSUME NEW D \in SUBSET table, BulkHold(D) \/ BulkUnhold(D)
      PROVE  StrandInv'
  <2>2. ASSUME NEW i \in table
        PROVE  /\ row'[i].strand = row[i].strand
               /\ row'[i].next = row[i].next
               /\ row'[i].by \in Pids => row[i].by \in Pids
    <3>1. row[i] \in Row /\ i \in Ids
          BY DEF TypeOK
    <3>2. \/ row'[i] = row[i]
          \/ row'[i] = [row[i] EXCEPT !.by = OnHold, !.attempts = OnHoldCount, !.old = FALSE]
          \/ row'[i] = [row[i] EXCEPT !.by = Nobody, !.attempts = 0, !.old = FALSE]
          BY <1>6, <3>1 DEF BulkHold, BulkUnhold
    <3> QED BY <3>1, <3>2, HoldersAssumption DEF Row
  <2>3. SameStrands
        BY <1>6, <2>2 DEF SameStrands, BulkHold, BulkUnhold
  <2> QED BY <1>0, <1>i, <1>6, <2>3, UpdateKeeps DEF BulkHold, BulkUnhold
<1>7. ASSUME NEW D \in SUBSET table, BulkDestroy(D)
      PROVE  StrandInv'
      BY <1>0, <1>i, <1>7, DeleteKeeps DEF BulkDestroy
<1> QED BY <1>1, <1>2, <1>3, <1>4, <1>5, <1>6, <1>7
        DEF EnqueueNext, TimeNext, ExpiryNext, HoldNext, DestroyNext

\* Steps of a worker.
LEMMA StrandWorker ==
    ASSUME TypeInv, TypeInv', StrandInv, WorkerNext
    PROVE  StrandInv'
<1> USE DEF TypeInv
<1> SUFFICES ASSUME NEW p \in Pids,
                    \/ Find(p) \/ FindNothing(p) \/ Lock(p)
                    \/ \E ok \in BOOLEAN : Perform(p, ok)
                    \/ Complete(p) \/ DestroyRaises(p) \/ HandleFailedJob(p)
                    \/ Loop(p) \/ Exit(p) \/ Abort(p) \/ Crash(p)
             PROVE  StrandInv'
    BY DEF WorkerNext
<1>i. NextIsOldest /\ IdsIssued
      BY DEF StrandInv
<1>t. proc[p] \in Proc /\ proc \in [Pids -> Proc]
      BY DEF TypeOK
<1>0. ASSUME NEW r, proc' = [proc EXCEPT ![p] = r],
             r.job = proc[p].job \/ r.job = NoJob,
             r.st # "locking", TableKept
      PROVE  StrandInv'
      BY <1>0, <1>t, StrandTable
<1>1. CASE Find(p)
  <2>1. PICK i \in Ids :
             /\ Ready(i)
             /\ proc' = [proc EXCEPT ![p].st = "locking", ![p].job = i,
                                     ![p].att = row[i].attempts]
        BY <1>1 DEF Find
  <2>2. TableKept
        BY <1>i, <1>1, UpdateKeeps DEF Find, SameStrands
  <2>3. i < nextId /\ nextId' = nextId /\ row[i].next
        BY <1>i, <1>1, <2>1 DEF Find, Ready, IdsIssued
  <2>4. \A q \in Pids : /\ proc'[q].job = IF q = p THEN i ELSE proc[q].job
                        /\ q # p => proc'[q].st = proc[q].st
        BY <1>t, <2>1 DEF Proc
  <2>5. \A q \in Pids : proc'[q].job < nextId'
        BY <1>i, <2>3, <2>4 DEF IdsIssued
  <2>6. \A q \in Pids : proc'[q].st = "locking" =>
               /\ proc'[q].job \in table => row[proc'[q].job].next
               /\ proc'[q].job < nextId
        BY <2>3, <2>4, <2>5 DEF StrandInv, CandidateIsNext
  <2> QED BY <2>2, <2>5, <2>6, StrandKept
<1>2. CASE FindNothing(p) \/ Loop(p)
  <2>1. TableKept
        BY <1>i, <1>2, UpdateKeeps DEF FindNothing, Loop, SameStrands
  <2>2. PICK t \in {"idle", "check"} : proc' = [proc EXCEPT ![p].st = t]
        BY <1>2 DEF FindNothing, Loop
  <2>3. proc' = [proc EXCEPT ![p] = [proc[p] EXCEPT !.st = t]]
        BY <2>2
  <2>4. [proc[p] EXCEPT !.st = t].job = proc[p].job /\ [proc[p] EXCEPT !.st = t].st = t
        BY <1>t DEF Proc
  <2> QED BY <1>0, <2>1, <2>3, <2>4
<1>3. CASE Lock(p)
  <2> DEFINE i == proc[p].job
  <2>1. CASE /\ CanLock(i)
             /\ row' = [row EXCEPT ![i].by = p, ![i].old = FALSE]
             /\ proc' = [proc EXCEPT ![p].st = "run"]
    <3>1. i \in table /\ i \in Ids /\ row[i].next
          BY <1>3, <2>1 DEF CanLock, Lock, TypeOK, StrandInv, CandidateIsNext
    <3>2. table' = table /\ nextId' = nextId
          BY <1>3 DEF Lock
    <3>3. \A k \in table : /\ row'[k].strand = row[k].strand
                           /\ row'[k].next = row[k].next
                           /\ k # i => row'[k].by = row[k].by
          BY <2>1, <3>1 DEF TypeOK, Row
    <3>4. NextIsOldest'
      <4>1. ASSUME NEW k \in table PROVE Oldest(k)' <=> Oldest(k)
            BY <3>2, <3>3 DEF Oldest
      <4> QED BY <1>i, <3>2, <3>3, <4>1 DEF NextIsOldest
    <3>5. LockedIsNext'
          BY <3>1, <3>2, <3>3 DEF LockedIsNext, StrandInv
    <3>6. \A q \in Pids : /\ proc'[q].job = proc[q].job
                          /\ q # p => proc'[q].st = proc[q].st
                          /\ proc'[p].st = "run"
          BY <1>t, <2>1 DEF Proc
    <3>7. CandidateIsNext'
          BY <3>2, <3>3, <3>6 DEF CandidateIsNext, StrandInv
    <3>8. IdsIssued'
          BY <1>i, <3>2, <3>6 DEF IdsIssued
    <3> QED BY <3>4, <3>5, <3>7, <3>8 DEF StrandInv
  <2>2. CASE /\ proc' = [proc EXCEPT ![p].st = "idle", ![p].job = NoJob, ![p].att = 0]
             /\ UNCHANGED <<row, asked>>
    <3> DEFINE r == [proc[p] EXCEPT !.st = "idle", !.job = NoJob, !.att = 0]
    <3>1. TableKept
          BY <1>i, <1>3, <2>2, UpdateKeeps DEF Lock, SameStrands
    <3>2. r.job = NoJob /\ r.st = "idle"
          BY <1>t DEF Proc
    <3>3. proc' = [proc EXCEPT ![p] = r]
          BY <2>2
    <3> HIDE DEF r
    <3> QED BY <1>0, <3>1, <3>2, <3>3
  <2> QED BY <1>3, <2>1, <2>2 DEF Lock
<1>4. ASSUME NEW ok \in BOOLEAN, Perform(p, ok)
      PROVE  StrandInv'
  <2> DEFINE r == [proc[p] EXCEPT !.st = "ran", !.ok = ok]
  <2>1. TableKept
        BY <1>i, <1>4, CreateKeeps, UpdateKeeps, StrandsAssumption DEF Perform, SameStrands
  <2>2. r.job = proc[p].job /\ r.st = "ran"
        BY <1>t DEF Proc
  <2>3. proc' = [proc EXCEPT ![p] = r]
        BY <1>4 DEF Perform
  <2> HIDE DEF r
  <2> QED BY <1>0, <2>1, <2>2, <2>3
<1>5. CASE Complete(p)
  <2> DEFINE r == [proc[p] EXCEPT !.st = "check", !.job = NoJob, !.att = 0]
  <2>1. TableKept
        BY <1>i, <1>5, DeleteKeeps DEF Complete
  <2>2. r.job = NoJob /\ r.st = "check"
        BY <1>t DEF Proc
  <2>3. proc' = [proc EXCEPT ![p] = r]
        BY <1>5 DEF Complete
  <2> HIDE DEF r
  <2> QED BY <1>0, <2>1, <2>2, <2>3
<1>6. CASE DestroyRaises(p)
  <2> DEFINE r == [proc[p] EXCEPT !.ok = FALSE]
  <2>1. TableKept
        BY <1>i, <1>6, UpdateKeeps DEF DestroyRaises, SameStrands
  <2>2. r.job = proc[p].job /\ r.st = "ran"
        BY <1>t, <1>6 DEF Proc, DestroyRaises
  <2>3. proc' = [proc EXCEPT ![p] = r]
        BY <1>6 DEF DestroyRaises
  <2> HIDE DEF r
  <2> QED BY <1>0, <2>1, <2>2, <2>3
<1>7. CASE HandleFailedJob(p)
  <2> DEFINE r == [proc[p] EXCEPT !.st = "check", !.job = NoJob, !.att = 0, !.ok = TRUE]
  <2>1. PICK keep \in BOOLEAN : Reschedule(proc[p].job, proc[p].att, keep)
        BY <1>7 DEF HandleFailedJob
  <2>2. proc[p].job \in Ids /\ proc[p].att \in Nat /\ nextId' = nextId
        BY <1>t, <1>7 DEF HandleFailedJob, JobInHand, Proc
  <2>3. TableKept
        BY <1>i, <2>1, <2>2, RescheduleKeeps
  <2>4. r.job = NoJob /\ r.st = "check"
        BY <1>t DEF Proc
  <2>5. proc' = [proc EXCEPT ![p] = r]
        BY <1>7 DEF HandleFailedJob
  <2> HIDE DEF r
  <2> QED BY <1>0, <2>3, <2>4, <2>5
<1>8. CASE Exit(p) \/ Abort(p) \/ Crash(p)
  <2>1. TableKept
        BY <1>i, <1>8, UnlockKeeps, UpdateKeeps DEF Exit, Abort, Crash, SameStrands
  <2>2. Dead(p).job = NoJob /\ Dead(p).st # "locking"
        BY DEF Dead, NoProc
  <2>3. proc' = [proc EXCEPT ![p] = Dead(p)]
        BY <1>8 DEF Exit, Abort, Crash
  <2> QED BY <1>0, <2>1, <2>2, <2>3
<1> QED BY <1>1, <1>2, <1>3, <1>4, <1>5, <1>6, <1>7, <1>8

\* Steps of the pool.
LEMMA StrandPool ==
    ASSUME TypeInv, TypeInv', StrandInv,
           \/ PoolStart \/ SweepDone \/ PoolDie
           \/ \E p \in Pids : Reap(p) \/ Spawn(p)
           \/ \E o \in pool.orphans : SweepOne(o)
    PROVE  StrandInv'
<1> USE DEF TypeInv
<1>i. NextIsOldest /\ IdsIssued
      BY DEF StrandInv
<1>t. proc \in [Pids -> Proc]
      BY DEF TypeOK
<1>1. ASSUME UNCHANGED <<table, row, nextId>> PROVE TableKept
      BY <1>i, <1>1, UpdateKeeps DEF SameStrands
<1>2. CASE PoolStart \/ SweepDone
  <2>1. TableKept /\ UNCHANGED proc
        BY <1>1, <1>2 DEF PoolStart, SweepDone
  <2> QED BY <2>1, StrandTable
<1>3. CASE PoolDie
  <2>1. TableKept
        BY <1>1, <1>3 DEF PoolDie
  <2>2. ASSUME NEW p \in Pids
        PROVE  /\ proc'[p].job = proc[p].job \/ proc'[p].job = NoJob
               /\ proc'[p].st = "locking" => proc[p].st = "locking" /\ proc'[p].job = proc[p].job
        BY <1>3, <1>t DEF PoolDie, NoProc, Proc
  <2> QED BY <2>1, <2>2, StrandTable
<1>4. ASSUME NEW p \in Pids, Reap(p) \/ Spawn(p)
      PROVE  StrandInv'
  <2>1. TableKept
        BY <1>1, <1>4 DEF Reap, Spawn
  <2>2. NoProc.job = NoJob /\ NoProc.st = "none"
        BY DEF NoProc
  <2>3. [NoProc EXCEPT !.st = "idle", !.own = TRUE].job = NoJob
        /\ [NoProc EXCEPT !.st = "idle", !.own = TRUE].st = "idle"
        BY DEF NoProc
  <2>4. ASSUME NEW q \in Pids
        PROVE  /\ proc'[q].job = proc[q].job \/ proc'[q].job = NoJob
               /\ proc'[q].st = "locking" => proc[q].st = "locking" /\ proc'[q].job = proc[q].job
        BY <1>4, <1>t, <2>2, <2>3 DEF Reap, Spawn
  <2> QED BY <2>1, <2>4, StrandTable
<1>5. ASSUME NEW o \in pool.orphans, SweepOne(o)
      PROVE  StrandInv'
  <2>1. o.id \in Ids /\ o.att \in Nat /\ nextId' = nextId /\ proc' = proc
        BY <1>5 DEF SweepOne, TypeOK, Pool, Orphan
  <2>2. CASE Reschedule(o.id, o.att, TRUE)
        BY <1>i, <2>1, <2>2, RescheduleKeeps, StrandTable
  <2>3. CASE UNCHANGED <<table, row, failed>>
    <3>1. TableKept
          BY <1>1, <2>1, <2>3
    <3> QED BY <2>1, <3>1, StrandTable
  <2> QED BY <1>5, <2>2, <2>3 DEF SweepOne
<1> QED BY <1>2, <1>3, <1>4, <1>5

\* Every step of the whole specification keeps the strand invariant.
LEMMA StrandStep ==
    ASSUME TypeInv, TypeInv', StrandInv, [Next]_vars
    PROVE  StrandInv'
<1>1. CASE UNCHANGED vars
      BY <1>1 DEF vars, StrandInv, NextIsOldest, Oldest, IdsIssued, LockedIsNext, CandidateIsNext
<1>2. CASE Next
      BY <1>2, StrandOthers, StrandWorker, StrandPool
      DEF Next, NoHoldNext, CoreNext, PoolNext, RestartNext
<1> QED BY <1>1, <1>2

\* The invariant holds in every state the queue can reach.
LEMMA StrandInvariant == Spec => [](TypeInv /\ StrandInv)
<1>1. Init => TypeInv /\ StrandInv
      BY TypeInit, StrandInit
<1>2. TypeInv /\ StrandInv /\ [Next]_vars => (TypeInv /\ StrandInv)'
      BY TypeStep, StrandStep
<1> QED BY <1>1, <1>2, PTL DEF Spec

\* In every state the queue can reach, with any numbers of workers, strands
\* and jobs, restarts, expired locks and bulk operations, the next row of a
\* strand is exactly its oldest one: the two triggers are enough.
THEOREM StrandOrder == Spec => []NextIsOldest
<1>1. TypeInv /\ StrandInv => NextIsOldest
      BY DEF StrandInv
<1> QED BY <1>1, StrandInvariant, PTL

\* A row locked by a worker is the oldest of its strand, in every state the
\* queue can reach, although lock_exclusively! does not test next_in_strand.
THEOREM LockedOrder == Spec => []LockedIsOldest
<1>1. TypeInv /\ StrandInv => LockedIsOldest
      BY DEF TypeInv, TypeOK, StrandInv, NextIsOldest, LockedIsNext, LockedIsOldest
<1> QED BY <1>1, StrandInvariant, PTL

-----------------------------------------------------------------------------
(* Theorems about singletons while no job is put on hold (NoHoldSpec): a   *)
(* locked row is then locked by a worker, so it is the oldest of its       *)
(* strand, and create_singleton, which adds a row only behind locked ones, *)
(* can add only the second.                                                *)

NotHeld == \A i \in table : row[i].by # OnHold

SingletonInv == NotHeld /\ SingletonBound

\* A change that neither adds a row nor puts one on hold.
AddsNone == /\ table' \subseteq table
            /\ \A i \in table' : /\ row'[i].strand = row[i].strand
                                 /\ row'[i].by \in {row[i].by, Nobody} \cup Pids

\* A change that adds a row, on a singleton only behind locked rows.
AddsBehindLocked ==
    \E s \in Strands \cup {NoStrand}, due \in BOOLEAN :
        /\ Insert(s, due)
        /\ s \in Singletons => \A i \in RowsOn(s) : row[i].by # Nobody

-----------------------------------------------------------------------------
(* The building blocks.                                                    *)

\* Unlocking adds no row.
LEMMA UnlockAddsNone ==
    ASSUME TypeOK, NEW U, Unlock(U)
    PROVE  AddsNone
<1>1. ASSUME NEW i \in table
      PROVE  row'[i].strand = row[i].strand /\ row'[i].by \in {row[i].by, Nobody}
  <2>1. row[i] \in Row /\ i \in Ids
        BY DEF TypeOK
  <2>2. row'[i] = row[i] \/ row'[i] = [row[i] EXCEPT !.by = Nobody, !.old = FALSE]
        BY <2>1 DEF Unlock
  <2> QED BY <2>1, <2>2 DEF Row
<1> QED BY <1>1 DEF AddsNone, Unlock

\* Deleting adds no row.
LEMMA DeleteAddsNone ==
    ASSUME TypeOK, NEW D, Delete(D)
    PROVE  AddsNone
<1>1. table' \subseteq table /\ table' \subseteq Ids
      BY DEF Delete, TypeOK
<1>2. ASSUME NEW i \in table'
      PROVE  row'[i].strand = row[i].strand /\ row'[i].by = row[i].by
  <2>1. row[i] \in Row /\ i \in Ids
        BY <1>1 DEF TypeOK
  <2>2. row'[i] = row[i] \/ row'[i] = [row[i] EXCEPT !.next = TRUE]
        BY <2>1 DEF Delete
  <2> QED BY <2>1, <2>2 DEF Row
<1> QED BY <1>1, <1>2 DEF AddsNone

\* A retry, or giving up, adds no row.
LEMMA RescheduleAddsNone ==
    ASSUME TypeOK, NEW i \in Ids, NEW att \in Nat, NEW keep \in BOOLEAN,
           Reschedule(i, att, keep)
    PROVE  AddsNone
<1>1. CASE Exhausted(i, att)
      BY <1>1, DeleteAddsNone DEF Reschedule
<1>2. CASE ~Exhausted(i, att)
  <2>1. table' = table
        BY <1>2 DEF Reschedule
  <2>2. ASSUME NEW k \in table
        PROVE  row'[k].strand = row[k].strand /\ row'[k].by \in {row[k].by, Nobody}
    <3>1. k \in Ids /\ row[k] \in Row
          BY DEF TypeOK
    <3>2. row'[k] = IF k = i
                    THEN [row[k] EXCEPT !.by = Nobody, !.old = FALSE,
                                        !.attempts = att + 1, !.due = FALSE]
                    ELSE row[k]
          BY <1>2, <3>1 DEF Reschedule, TypeOK
    <3> QED BY <3>1, <3>2 DEF Row
  <2> QED BY <2>1, <2>2 DEF AddsNone
<1> QED BY <1>1, <1>2

\* create_singleton adds a row only behind locked ones.
LEMMA CreateAdds ==
    ASSUME TypeOK, NEW s \in Singletons, NEW due \in BOOLEAN, CreateSingleton(s, due)
    PROVE  AddsNone \/ AddsBehindLocked
BY StrandsAssumption DEF CreateSingleton, AddsNone, AddsBehindLocked

\* Every step without holds is a change of one of the two kinds.
LEMMA StepAdds ==
    ASSUME TypeInv, [NoHoldNext]_vars
    PROVE  AddsNone \/ AddsBehindLocked
<1> USE DEF TypeInv
<1>0. ASSUME UNCHANGED <<table, row>> PROVE AddsNone
      BY <1>0 DEF AddsNone
<1>1. CASE UNCHANGED vars
      BY <1>0, <1>1 DEF vars
<1>2. ASSUME NEW s \in Strands \cup {NoStrand}, NEW due \in BOOLEAN, Enqueue(s, due)
      PROVE  AddsBehindLocked
      BY <1>2, StrandsAssumption DEF Enqueue, AddsBehindLocked
<1>3. ASSUME NEW s \in Singletons, NEW due \in BOOLEAN, EnqueueSingleton(s, due)
      PROVE  AddsNone \/ AddsBehindLocked
      BY <1>3, CreateAdds DEF EnqueueSingleton
<1>4. ASSUME NEW s \in Periodic, Audit(s)
      PROVE  AddsNone \/ AddsBehindLocked
      BY <1>4, CreateAdds, StrandsAssumption DEF Audit
<1>5. ASSUME NEW p \in Pids,
             \/ Find(p) \/ FindNothing(p) \/ DestroyRaises(p) \/ Loop(p) \/ Crash(p)
             \/ Reap(p) \/ Spawn(p) \/ PoolStart \/ SweepDone \/ PoolDie
      PROVE  AddsNone
      BY <1>0, <1>5 DEF Find, FindNothing, DestroyRaises, Loop, Crash, Reap, Spawn,
                        PoolStart, SweepDone, PoolDie
<1>6. ASSUME NEW p \in Pids, Lock(p)
      PROVE  AddsNone
  <2>1. \/ row' = row
        \/ row' = [row EXCEPT ![proc[p].job].by = p, ![proc[p].job].old = FALSE]
        BY <1>6 DEF Lock
  <2>2. table' = table
        BY <1>6 DEF Lock
  <2>3. \A i \in table : /\ row'[i].strand = row[i].strand
                         /\ row'[i].by \in {row[i].by, p}
        BY <2>1 DEF TypeOK, Row
  <2> QED BY <2>2, <2>3 DEF AddsNone
<1>7. ASSUME NEW p \in Pids, NEW ok \in BOOLEAN, Perform(p, ok)
      PROVE  AddsNone \/ AddsBehindLocked
      BY <1>0, <1>7, CreateAdds, StrandsAssumption DEF Perform
<1>8. ASSUME NEW p \in Pids, Complete(p) \/ Exit(p) \/ Abort(p)
      PROVE  AddsNone
      BY <1>8, DeleteAddsNone, UnlockAddsNone DEF Complete, Exit, Abort
<1>9. ASSUME NEW p \in Pids, HandleFailedJob(p)
      PROVE  AddsNone
  <2>1. proc[p].job \in Ids /\ proc[p].att \in Nat
        BY <1>9 DEF HandleFailedJob, JobInHand, TypeOK, Proc
  <2>2. PICK keep \in BOOLEAN : Reschedule(proc[p].job, proc[p].att, keep)
        BY <1>9 DEF HandleFailedJob
  <2> QED BY <2>1, <2>2, RescheduleAddsNone
<1>10. ASSUME NEW o \in pool.orphans, SweepOne(o)
       PROVE  AddsNone
  <2>1. o.id \in Ids /\ o.att \in Nat
        BY DEF TypeOK, Pool, Orphan
  <2> QED BY <1>0, <1>10, <2>1, RescheduleAddsNone DEF SweepOne
<1>11. ASSUME NEW i \in Ids, BecomeDue(i) \/ BecomeOld(i)
       PROVE  AddsNone
       BY <1>11 DEF BecomeDue, BecomeOld, AddsNone, TypeOK, Row
<1>12. CASE UnlockExpired
       BY <1>12, UnlockAddsNone DEF UnlockExpired
<1>13. ASSUME NEW D, BulkDestroy(D)
       PROVE  AddsNone
       BY <1>13, DeleteAddsNone DEF BulkDestroy
<1>14. CASE PoolStart \/ SweepDone \/ PoolDie
       BY <1>0, <1>14 DEF PoolStart, SweepDone, PoolDie
<1> QED BY <1>1, <1>2, <1>3, <1>4, <1>5, <1>6, <1>7, <1>8, <1>9, <1>10, <1>11,
           <1>12, <1>13, <1>14
        DEF NoHoldNext, CoreNext, EnqueueNext, WorkerNext, PoolNext, TimeNext,
            RestartNext, ExpiryNext, DestroyNext

-----------------------------------------------------------------------------

\* At most one row of a strand is locked when none is on hold.
LEMMA OneLocked ==
    ASSUME TypeInv, StrandInv, NotHeld, NEW s \in Strands,
           NEW i \in RowsOn(s), NEW j \in RowsOn(s),
           row[i].by # Nobody, row[j].by # Nobody
    PROVE  i = j
<1>1. /\ i \in table /\ j \in table /\ row[i].strand = s /\ row[j].strand = s
      /\ table \subseteq Ids /\ Ids \subseteq Nat
      BY DEF RowsOn, TypeInv, TypeOK, Ids
<1>2. row[i].by \in Pids /\ row[j].by \in Pids
      BY <1>1 DEF NotHeld, TypeInv, TypeOK, Row
<1>3. row[i].next /\ row[j].next
      BY <1>1, <1>2 DEF StrandInv, LockedIsNext
<1>4. i <= j /\ j <= i
      BY <1>1, <1>3, StrandsAssumption DEF StrandInv, NextIsOldest, Oldest
<1>5. i \in Nat /\ j \in Nat
      BY <1>1
<1> QED BY <1>4, <1>5

\* A change that adds no row keeps the bound.
LEMMA BoundWithoutInsert ==
    ASSUME SingletonInv, AddsNone
    PROVE  SingletonInv'
<1>1. NotHeld'
      BY HoldersAssumption DEF SingletonInv, NotHeld, AddsNone
<1>2. SingletonBound'
      BY DEF SingletonInv, SingletonBound, AddsNone, RowsOn
<1> QED BY <1>1, <1>2 DEF SingletonInv

\* So does an insert behind locked rows.
LEMMA BoundWithInsert ==
    ASSUME TypeInv, StrandInv, SingletonInv, AddsBehindLocked
    PROVE  SingletonInv'
<1>1. PICK s \in Strands \cup {NoStrand}, due \in BOOLEAN :
           /\ Insert(s, due)
           /\ s \in Singletons => \A i \in RowsOn(s) : row[i].by # Nobody
      BY DEF AddsBehindLocked
<1> DEFINE n == nextId
           r == NewRow(s, s = NoStrand \/ RowsOn(s) = {}, due)
<1>2. /\ n \in Ids /\ n \notin table /\ table \subseteq Ids
      /\ \A i \in table : i # n
      BY <1>1, BoundsAssumption DEF Insert, StrandInv, IdsIssued, TypeInv, TypeOK, Ids
<1>3. /\ table' = table \cup {n}
      /\ row'[n] = r
      /\ \A i \in table : row'[i] = row[i]
      BY <1>1, <1>2 DEF Insert, TypeInv, TypeOK
<1>4. r.strand = s /\ r.by = Nobody
      BY DEF NewRow
<1> HIDE DEF n, r
<1>5. NotHeld'
      BY <1>2, <1>3, <1>4, HoldersAssumption DEF SingletonInv, NotHeld
<1>6. ASSUME NEW t \in Singletons,
             NEW i \in RowsOn(t)', NEW j \in RowsOn(t)', NEW k \in RowsOn(t)'
      PROVE  i = j \/ j = k \/ i = k
  <2>0. \A m \in RowsOn(t) : row[m].strand = t /\ m \in table
        BY DEF RowsOn
  <2>1. \A m \in RowsOn(t)' : m \in RowsOn(t) \/ (m = n /\ t = s)
        BY <1>2, <1>3, <1>4 DEF RowsOn
  <2>2. CASE t # s
        BY <2>1, <2>2 DEF SingletonInv, SingletonBound
  <2>3. CASE t = s
    <3>1. \A a, b \in RowsOn(s) : a = b
          BY <1>1, <2>3, OneLocked, StrandsAssumption DEF SingletonInv
    <3> QED BY <2>1, <2>3, <3>1
  <2> QED BY <2>2, <2>3
<1>7. SingletonBound'
      BY <1>6 DEF SingletonBound
<1> QED BY <1>5, <1>7 DEF SingletonInv

\* A singleton never has more than one performed and one waiting row, for any
\* number of workers and requests, and across failures, restarts of the pool,
\* bulk deletes and expired locks: what create_singleton promises.
THEOREM SingletonsBounded == NoHoldSpec => []SingletonBound
<1> DEFINE Inv == TypeInv /\ StrandInv /\ SingletonInv
<1>1. Init => Inv
      BY TypeInit, StrandInit DEF Init, SingletonInv, NotHeld, SingletonBound, RowsOn
<1>2. Inv /\ [NoHoldNext]_vars => Inv'
  <2> SUFFICES ASSUME Inv, [NoHoldNext]_vars PROVE Inv'
      OBVIOUS
  <2>1. [Next]_vars
        BY DEF Next
  <2>2. TypeInv' /\ StrandInv'
        BY <2>1, TypeStep, StrandStep
  <2>3. SingletonInv'
        BY StepAdds, BoundWithoutInsert, BoundWithInsert
  <2> QED BY <2>2, <2>3
<1>3. Inv => SingletonBound
      BY DEF SingletonInv
<1> QED BY <1>1, <1>2, <1>3, PTL DEF NoHoldSpec

-----------------------------------------------------------------------------
(***************************************************************************)
(* Theorems about the queue in operation (CoreSpec): who owns a locked     *)
(* row.  A worker that performs a job owns its row; a row locked by a      *)
(* worker is being performed, or its worker's death is still to be         *)
(* noticed, or a sweep will free it; and only the owner, or the sweep on   *)
(* behalf of a dead one, ever changes the row.                             *)
(***************************************************************************)

\* A worker that performs a job has locked its row.
Owns == \A p \in Pids : Working(p) => /\ proc[p].job \in table
                                      /\ row[proc[p].job].by = p

\* What a sweep has read is still so, and the process is gone.
OrphansDead == \A o \in pool.orphans : /\ o.id \in table
                                       /\ row[o.id].by = o.pid
                                       /\ row[o.id].attempts = o.att
                                       /\ proc[o.pid].st = "none"

\* The pool is there before its workers, and never goes.
PoolFirst == /\ pool.st # "sweep" => pool.orphans = {}
             /\ pool.st = "down" \/ (pool.st = "sweep" /\ ~pool.killed) =>
                    \A p \in Pids : proc[p].st = "none"
             /\ \A p \in Pids : proc[p].st # "none" => proc[p].own

Ownership == Owns /\ OrphansDead /\ LocksAccountedFor /\ RequestKept

CoreInv == TypeInv /\ StrandInv /\ Ownership /\ PoolFirst

-----------------------------------------------------------------------------
(* Changes of the table that free the rows of T, add unlocked rows, and    *)
(* leave the holders of all other rows alone.                              *)

Frees(T) ==
    /\ \A i \in table \ T : /\ i \in table'
                            /\ row'[i].by = row[i].by
                            /\ row'[i].attempts = row[i].attempts
                            /\ row'[i].strand = row[i].strand
    /\ \A i \in table' : i \in T \/ i \notin table => row'[i].by = Nobody

\* A request recorded by this step has an unlocked row to answer it.
Answered == \A s \in Singletons : asked'[s] /\ ~asked[s] =>
                \E i \in table' : row'[i].strand = s /\ row'[i].by = Nobody

\* Such a change keeps the ownership if the workers and orphans that remain
\* are not those of the freed rows.
LEMMA FreesKeeps ==
    ASSUME TypeInv, Ownership, NEW T, Frees(T), Answered,
           \A i \in T \cap table : row[i].by \in Pids,
           \A p \in Pids : Working(p)' => /\ Working(p)
                                          /\ proc'[p].job = proc[p].job
                                          /\ proc[p].job \notin T,
           \A p \in Pids : Working(p) /\ ~Working(p)' =>
                              proc[p].job \in T \/ proc'[p].st = "zombie",
           \A p \in Pids : proc[p].st = "zombie" => proc'[p].st = "zombie",
           \A o \in pool'.orphans : /\ o \in pool.orphans
                                    /\ o.id \notin T
                                    /\ proc'[o.pid].st = "none",
           \A o \in pool.orphans : o \in pool'.orphans \/ o.id \in T
    PROVE  Ownership'
<1>1. Owns'
      BY DEF Owns, Ownership, Frees
<1>2. OrphansDead'
      BY DEF OrphansDead, Ownership, Frees
<1>3. ASSUME NEW i \in table', NEW p \in Pids, row'[i].by = p
      PROVE  \/ Working(p)' /\ proc'[p].job = i
             \/ proc'[p].st = "zombie"
             \/ \E o \in pool'.orphans : o.id = i
  <2>1. i \in table \ T /\ row[i].by = p
    <3>1. p # Nobody
          BY HoldersAssumption
    <3> QED BY <1>3, <3>1 DEF Frees
  <2>2. \/ Working(p) /\ proc[p].job = i
        \/ proc[p].st = "zombie"
        \/ \E o \in pool.orphans : o.id = i
        BY <2>1 DEF Ownership, LocksAccountedFor
  <2> QED BY <2>1, <2>2
<1>4. LocksAccountedFor'
      BY <1>3 DEF LocksAccountedFor, Working
<1>5. ASSUME NEW s \in Singletons, asked'[s]
      PROVE  \E i \in table' : row'[i].strand = s /\ row'[i].by = Nobody
  <2>1. CASE asked[s]
    <3>1. PICK i \in table : row[i].strand = s /\ row[i].by = Nobody
          BY <2>1 DEF Ownership, RequestKept, RowsOn
    <3>2. i \notin T
          BY <3>1, HoldersAssumption
    <3> QED BY <3>1, <3>2 DEF Frees
  <2>2. CASE ~asked[s]
        BY <1>5, <2>2 DEF Answered
  <2> QED BY <2>1, <2>2
<1>6. RequestKept'
      BY <1>5 DEF RequestKept, RowsOn
<1> QED BY <1>1, <1>2, <1>4, <1>6 DEF Ownership

\* The building blocks as such changes.
LEMMA InsertFrees ==
    ASSUME TypeInv, IdsIssued, NEW s \in Strands \cup {NoStrand}, NEW due \in BOOLEAN,
           Insert(s, due)
    PROVE  /\ Frees({})
           /\ \E i \in table' : row'[i].strand = s /\ row'[i].by = Nobody
<1>1. nextId \in Ids /\ nextId \notin table /\ table \subseteq Ids
      BY BoundsAssumption DEF Insert, IdsIssued, TypeInv, TypeOK, Ids
<1>2. /\ table' = table \cup {nextId}
      /\ row'[nextId] = NewRow(s, s = NoStrand \/ RowsOn(s) = {}, due)
      /\ \A i \in table : row'[i] = row[i]
      BY <1>1 DEF Insert, TypeInv, TypeOK
<1>3. row'[nextId].strand = s /\ row'[nextId].by = Nobody
      BY <1>2 DEF NewRow
<1>4. \A i \in table' : i \notin table => i = nextId
      BY <1>2
<1> QED BY <1>2, <1>3, <1>4 DEF Frees

LEMMA CreateFrees ==
    ASSUME TypeInv, IdsIssued, NEW s \in Singletons, NEW due \in BOOLEAN,
           CreateSingleton(s, due)
    PROVE  Frees({}) /\ Answered
<1>1. asked' = [asked EXCEPT ![s] = TRUE]
      BY DEF CreateSingleton
<1>2. CASE (\E i \in RowsOn(s) : row[i].by = Nobody) /\ UNCHANGED <<table, row, nextId>>
  <2>1. Frees({})
        BY <1>2 DEF Frees
  <2>2. Answered
        BY <1>1, <1>2 DEF Answered, RowsOn, TypeInv, TypeOK
  <2> QED BY <2>1, <2>2
<1>3. CASE Insert(s, due)
  <2>1. Frees({}) /\ \E i \in table' : row'[i].strand = s /\ row'[i].by = Nobody
        BY <1>3, InsertFrees, StrandsAssumption
  <2>2. \A t \in Singletons : asked'[t] /\ ~asked[t] => t = s
        BY <1>1 DEF TypeInv, TypeOK
  <2> QED BY <2>1, <2>2 DEF Answered
<1> QED BY <1>2, <1>3 DEF CreateSingleton

LEMMA DeleteFrees ==
    ASSUME TypeInv, NEW D, Delete(D)
    PROVE  Frees(D)
<1>1. \A i \in table \ D : i \in table' /\ i \in Ids /\ row[i] \in Row
      BY DEF Delete, TypeInv, TypeOK
<1>2. \A i \in table \ D : /\ row'[i].by = row[i].by
                           /\ row'[i].attempts = row[i].attempts
                           /\ row'[i].strand = row[i].strand
      BY <1>1 DEF Delete, Row
<1>3. \A i \in table' : i \notin D /\ i \in table
      BY DEF Delete
<1> QED BY <1>1, <1>2, <1>3 DEF Frees

LEMMA UnlockFrees ==
    ASSUME TypeInv, NEW U, Unlock(U)
    PROVE  Frees(U)
<1>1. table' = table
      BY DEF Unlock
<1>2. \A i \in table : i \in Ids /\ row[i] \in Row
      BY DEF TypeInv, TypeOK
<1>3. \A i \in table : i \notin U => row'[i] = row[i]
      BY <1>2 DEF Unlock
<1>4. \A i \in table : i \in U => row'[i].by = Nobody
      BY <1>2 DEF Unlock, Row
<1> QED BY <1>1, <1>3, <1>4 DEF Frees

LEMMA RescheduleFrees ==
    ASSUME TypeInv, NEW i \in table, NEW att \in Nat, NEW keep \in BOOLEAN,
           Reschedule(i, att, keep)
    PROVE  Frees({i})
<1>1. CASE Exhausted(i, att)
      BY <1>1, DeleteFrees DEF Reschedule
<1>2. CASE ~Exhausted(i, att)
  <2>1. table' = table /\ i \in Ids /\ row[i] \in Row /\ row \in [Ids -> Row] /\ table \subseteq Ids
        BY <1>2 DEF Reschedule, TypeInv, TypeOK
  <2>2. \A k \in table : k # i => row'[k] = row[k]
        BY <1>2, <2>1 DEF Reschedule
  <2>3. row'[i] = [row[i] EXCEPT !.by = Nobody, !.old = FALSE,
                                 !.attempts = att + 1, !.due = FALSE]
        BY <1>2, <2>1 DEF Reschedule
  <2>4. row'[i].by = Nobody
        BY <2>1, <2>3 DEF Row
  <2> QED BY <2>1, <2>2, <2>4 DEF Frees
<1> QED BY <1>1, <1>2

-----------------------------------------------------------------------------
(* The steps of the queue in operation.                                    *)

\* Steps of neither a worker nor the pool.
LEMMA OwnOthers ==
    ASSUME CoreInv,
           EnqueueNext \/ (\E s \in Periodic : Audit(s)) \/ TimeNext
    PROVE  Ownership' /\ PoolFirst'
<1> USE DEF CoreInv, StrandInv
<1>1. ASSUME Frees({}), Answered, UNCHANGED <<proc, pool>> PROVE Ownership' /\ PoolFirst'
  <2>1. PoolFirst'
        BY <1>1 DEF PoolFirst
  <2>2. \A p \in Pids : Working(p)' <=> Working(p)
        BY <1>1 DEF Working
  <2>3. \A o \in pool.orphans : proc[o.pid].st = "none"
        BY DEF Ownership, OrphansDead
  <2>4. Ownership'
        BY <1>1, <2>2, <2>3, FreesKeeps
  <2> QED BY <2>1, <2>4
<1>2. ASSUME NEW s \in Strands \cup {NoStrand}, NEW due \in BOOLEAN, Enqueue(s, due)
      PROVE  Ownership' /\ PoolFirst'
  <2>1. Frees({})
        BY <1>2, InsertFrees DEF Enqueue
  <2>2. Answered
        BY <1>2 DEF Enqueue, Answered
  <2> QED BY <1>1, <1>2, <2>1, <2>2 DEF Enqueue
<1>3. ASSUME NEW s \in Singletons, NEW due \in BOOLEAN, EnqueueSingleton(s, due)
      PROVE  Ownership' /\ PoolFirst'
      BY <1>1, <1>3, CreateFrees DEF EnqueueSingleton
<1>4. ASSUME NEW s \in Periodic, Audit(s)
      PROVE  Ownership' /\ PoolFirst'
      BY <1>1, <1>4, CreateFrees, StrandsAssumption DEF Audit
<1>5. ASSUME NEW i \in Ids, BecomeDue(i)
      PROVE  Ownership' /\ PoolFirst'
  <2>1. \A k \in table : k \in Ids /\ row[k] \in Row
        BY DEF TypeInv, TypeOK
  <2>2. \A k \in table : /\ row'[k].by = row[k].by
                         /\ row'[k].attempts = row[k].attempts
                         /\ row'[k].strand = row[k].strand
        BY <1>5, <2>1 DEF BecomeDue, Row, TypeInv, TypeOK
  <2>3. Frees({}) /\ Answered
        BY <1>5, <2>2 DEF BecomeDue, Frees, Answered
  <2> QED BY <1>1, <1>5, <2>3 DEF BecomeDue
<1> QED BY <1>2, <1>3, <1>4, <1>5 DEF EnqueueNext, TimeNext

\* A step of worker p that frees rows of its own only, the job in hand
\* included if p no longer performs it and does not die.
LEMMA OwnMove ==
    ASSUME CoreInv, NEW p \in Pids, NEW r, NEW T,
           proc[p].st # "none", proc[p].st # "zombie",
           proc' = [proc EXCEPT ![p] = r], UNCHANGED pool,
           r.st # "none", r.own,
           Frees(T), Answered,
           \A i \in T \cap table : row[i].by = p,
           r.st \in {"run", "ran"} => /\ Working(p)
                                      /\ r.job = proc[p].job
                                      /\ proc[p].job \notin T,
           Working(p) /\ r.st \notin {"run", "ran"} => proc[p].job \in T \/ r.st = "zombie"
    PROVE  Ownership' /\ PoolFirst'
<1> USE DEF CoreInv
<1>1. \A q \in Pids : proc'[q] = IF q = p THEN r ELSE proc[q]
      BY DEF TypeInv, TypeOK
<1>2. PoolFirst'
      BY <1>1 DEF PoolFirst
<1>3. \A o \in pool.orphans : /\ o.pid \in Pids /\ o.pid # p
                              /\ o.id \notin T
                              /\ proc'[o.pid].st = "none"
      BY <1>1 DEF Ownership, OrphansDead, TypeInv, TypeOK, Pool, Orphan
<1>4. \A q \in Pids : Working(q) /\ q # p => proc[q].job \notin T
      BY DEF Ownership, Owns
<1>5. \A q \in Pids : Working(q)' => /\ Working(q)
                                     /\ proc'[q].job = proc[q].job
                                     /\ proc[q].job \notin T
      BY <1>1, <1>4 DEF Working
<1>6. \A q \in Pids : Working(q) /\ ~Working(q)' =>
                          proc[q].job \in T \/ proc'[q].st = "zombie"
      BY <1>1 DEF Working
<1>7. \A q \in Pids : proc[q].st = "zombie" => proc'[q].st = "zombie"
      BY <1>1
<1>8. Ownership'
      BY <1>3, <1>5, <1>6, <1>7, FreesKeeps
<1> QED BY <1>2, <1>8

\* Taking the lock.
LEMMA OwnLock ==
    ASSUME CoreInv, NEW p \in Pids, Lock(p), CanLock(proc[p].job)
    PROVE  Ownership' /\ PoolFirst'
<1> USE DEF CoreInv
<1> DEFINE i == proc[p].job
<1>1. /\ i \in table /\ i \in Ids /\ row[i] \in Row
      /\ row[i].by = Nobody
      /\ proc[p] \in Proc /\ proc \in [Pids -> Proc] /\ row \in [Ids -> Row] /\ table \subseteq Ids
      /\ proc[p].st = "locking"
      BY DEF CanLock, Lock, TypeInv, TypeOK
<1>2. /\ row' = [row EXCEPT ![i].by = p, ![i].old = FALSE]
      /\ proc' = [proc EXCEPT ![p].st = "run"]
      /\ asked' = [s \in Singletons |-> asked[s] /\ s # row[i].strand]
      /\ table' = table /\ pool' = pool
      BY DEF Lock
<1>3. \A k \in table : /\ row'[k].by = IF k = i THEN p ELSE row[k].by
                       /\ row'[k].strand = row[k].strand
                       /\ row'[k].attempts = row[k].attempts
      BY <1>1, <1>2 DEF Row
<1>4. \A q \in Pids : /\ proc'[q].job = proc[q].job
                      /\ proc'[q].own = proc[q].own
                      /\ proc'[q].st = IF q = p THEN "run" ELSE proc[q].st
      BY <1>1, <1>2 DEF Proc
<1> HIDE DEF i
<1>t. table' = table
      BY <1>2
<1>5. PoolFirst'
      BY <1>1, <1>2, <1>4 DEF PoolFirst
<1>6. Owns'
  <2> SUFFICES ASSUME NEW q \in Pids, Working(q)'
               PROVE  proc'[q].job \in table' /\ row'[proc'[q].job].by = q
      BY DEF Owns, Working
  <2>1. CASE q = p
        BY <1>1, <1>2, <1>3, <1>4, <2>1 DEF i
  <2>2. CASE q # p
    <3>1. proc[q].job \in table /\ row[proc[q].job].by = q
          BY <1>4, <2>2 DEF Working, Ownership, Owns
    <3>2. proc[q].job # i
          BY <1>1, <3>1, HoldersAssumption
    <3> QED BY <1>t, <1>3, <1>4, <3>1, <3>2
  <2> QED BY <2>1, <2>2
<1>7. OrphansDead'
  <2> SUFFICES ASSUME NEW o \in pool.orphans
               PROVE  /\ o.id \in table' /\ row'[o.id].by = o.pid
                      /\ row'[o.id].attempts = o.att /\ proc'[o.pid].st = "none"
      BY <1>2 DEF OrphansDead
  <2>1. /\ o.id \in table /\ row[o.id].by = o.pid /\ row[o.id].attempts = o.att
        /\ proc[o.pid].st = "none" /\ o.pid \in Pids
        BY DEF Ownership, OrphansDead, TypeInv, TypeOK, Pool, Orphan
  <2>2. o.id # i /\ o.pid # p
        BY <1>1, <2>1, HoldersAssumption
  <2> QED BY <1>2, <1>3, <1>4, <2>1, <2>2
<1>8. LocksAccountedFor'
  <2> SUFFICES ASSUME NEW k \in table, NEW q \in Pids, row'[k].by = q
               PROVE  \/ Working(q)' /\ proc'[q].job = k
                      \/ proc'[q].st = "zombie"
                      \/ \E o \in pool'.orphans : o.id = k
      BY <1>2 DEF LocksAccountedFor, Working
  <2>1. CASE k = i
        BY <1>3, <1>4, <2>1 DEF Working, i
  <2>2. CASE k # i
    <3>1. \/ Working(q) /\ proc[q].job = k
          \/ proc[q].st = "zombie"
          \/ \E o \in pool.orphans : o.id = k
          BY <1>3, <2>2 DEF Ownership, LocksAccountedFor
    <3> QED BY <1>1, <1>2, <1>4, <3>1 DEF Working
  <2> QED BY <2>1, <2>2
<1>9. RequestKept'
  <2> SUFFICES ASSUME NEW s \in Singletons, asked'[s]
               PROVE  \E k \in table' : row'[k].strand = s /\ row'[k].by = Nobody
      BY DEF RequestKept, RowsOn
  <2>1. asked[s] /\ s # row[i].strand
        BY <1>2
  <2>2. PICK k \in table : row[k].strand = s /\ row[k].by = Nobody
        BY <2>1 DEF Ownership, RequestKept, RowsOn
  <2> QED BY <1>2, <1>3, <2>1, <2>2
<1> QED BY <1>5, <1>6, <1>7, <1>8, <1>9 DEF Ownership

\* The other steps of a worker.
LEMMA OwnWorker ==
    ASSUME CoreInv, WorkerNext
    PROVE  Ownership' /\ PoolFirst'
<1> USE DEF CoreInv, StrandInv
<1> SUFFICES ASSUME NEW p \in Pids,
                    \/ Find(p) \/ FindNothing(p) \/ Lock(p)
                    \/ \E ok \in BOOLEAN : Perform(p, ok)
                    \/ Complete(p) \/ DestroyRaises(p) \/ HandleFailedJob(p)
                    \/ Loop(p) \/ Exit(p) \/ Abort(p) \/ Crash(p)
             PROVE  Ownership' /\ PoolFirst'
    BY DEF WorkerNext
<1>t. proc[p] \in Proc /\ proc \in [Pids -> Proc]
      BY DEF TypeInv, TypeOK
<1>o. proc[p].st # "none" => proc[p].own
      BY DEF PoolFirst
<1>w. Working(p) => proc[p].job \in table /\ row[proc[p].job].by = p
      BY DEF Ownership, Owns
<1>0. ASSUME UNCHANGED <<table, row, asked>> PROVE Frees({}) /\ Answered
      BY <1>0 DEF Frees, Answered
<1>1. ASSUME NEW r, proc' = [proc EXCEPT ![p] = r],
             proc[p].st \in {"idle", "locking", "check"},
             r.st \in {"idle", "locking", "check"}, r.own = proc[p].own,
             UNCHANGED <<table, row, asked, pool>>
      PROVE  Ownership' /\ PoolFirst'
  <2>1. Frees({}) /\ Answered
        BY <1>0, <1>1
  <2> QED BY <1>1, <1>o, <2>1, OwnMove DEF Working
<1>2. CASE Find(p)
  <2>1. PICK i \in Ids : proc' = [proc EXCEPT ![p].st = "locking", ![p].job = i,
                                             ![p].att = row[i].attempts]
        BY <1>2 DEF Find
  <2> DEFINE r == [proc[p] EXCEPT !.st = "locking", !.job = i, !.att = row[i].attempts]
  <2>2. r.st = "locking" /\ r.own = proc[p].own
        BY <1>t DEF Proc
  <2>3. proc' = [proc EXCEPT ![p] = r]
        BY <2>1
  <2> HIDE DEF r
  <2> QED BY <1>1, <1>2, <2>2, <2>3 DEF Find
<1>3. CASE FindNothing(p) \/ Loop(p)
  <2>1. PICK t \in {"idle", "check"} : proc' = [proc EXCEPT ![p].st = t]
        BY <1>3 DEF FindNothing, Loop
  <2> DEFINE r == [proc[p] EXCEPT !.st = t]
  <2>2. r.st = t /\ r.own = proc[p].own
        BY <1>t DEF Proc
  <2>3. proc' = [proc EXCEPT ![p] = r]
        BY <2>1
  <2> HIDE DEF r
  <2> QED BY <1>1, <1>3, <2>2, <2>3 DEF FindNothing, Loop
<1>4. CASE Lock(p)
  <2>1. CASE CanLock(proc[p].job)
        BY <1>4, <2>1, OwnLock
  <2>2. CASE ~CanLock(proc[p].job)
    <3> DEFINE r == [proc[p] EXCEPT !.st = "idle", !.job = NoJob, !.att = 0]
    <3>1. r.st = "idle" /\ r.own = proc[p].own
          BY <1>t DEF Proc
    <3>2. proc' = [proc EXCEPT ![p] = r]
          BY <1>4, <2>2 DEF Lock
    <3> HIDE DEF r
    <3> QED BY <1>1, <1>4, <2>2, <3>1, <3>2 DEF Lock
  <2> QED BY <2>1, <2>2
<1>5. ASSUME NEW ok \in BOOLEAN, Perform(p, ok)
      PROVE  Ownership' /\ PoolFirst'
  <2> DEFINE r == [proc[p] EXCEPT !.st = "ran", !.ok = ok]
  <2>1. r.st = "ran" /\ r.own = proc[p].own /\ r.job = proc[p].job
        BY <1>t DEF Proc
  <2>2. proc' = [proc EXCEPT ![p] = r] /\ proc[p].st = "run" /\ UNCHANGED pool
        BY <1>5 DEF Perform
  <2>3. Frees({}) /\ Answered
        BY <1>0, <1>5, CreateFrees, StrandsAssumption DEF Perform
  <2> HIDE DEF r
  <2> QED BY <1>o, <2>1, <2>2, <2>3, OwnMove DEF Working
<1>6. CASE Complete(p)
  <2> DEFINE r == [proc[p] EXCEPT !.st = "check", !.job = NoJob, !.att = 0]
  <2>1. r.st = "check" /\ r.own = proc[p].own
        BY <1>t DEF Proc
  <2>2. proc' = [proc EXCEPT ![p] = r] /\ proc[p].st = "ran" /\ UNCHANGED <<pool, asked>>
        BY <1>6 DEF Complete
  <2>3. Frees({proc[p].job}) /\ Answered
        BY <1>6, DeleteFrees DEF Complete, Answered
  <2> HIDE DEF r
  <2> QED BY <1>o, <1>w, <2>1, <2>2, <2>3, OwnMove DEF Working
<1>7. CASE DestroyRaises(p)
  <2> DEFINE r == [proc[p] EXCEPT !.ok = FALSE]
  <2>1. r.st = proc[p].st /\ r.own = proc[p].own /\ r.job = proc[p].job
        BY <1>t DEF Proc
  <2>2. proc' = [proc EXCEPT ![p] = r] /\ proc[p].st = "ran" /\ UNCHANGED pool
        BY <1>7 DEF DestroyRaises
  <2>3. Frees({}) /\ Answered
        BY <1>0, <1>7 DEF DestroyRaises
  <2> HIDE DEF r
  <2> QED BY <1>o, <2>1, <2>2, <2>3, OwnMove DEF Working
<1>8. CASE HandleFailedJob(p)
  <2> DEFINE r == [proc[p] EXCEPT !.st = "check", !.job = NoJob, !.att = 0, !.ok = TRUE]
  <2>1. r.st = "check" /\ r.own = proc[p].own
        BY <1>t DEF Proc
  <2>2. proc' = [proc EXCEPT ![p] = r] /\ proc[p].st = "ran" /\ UNCHANGED <<pool, asked>>
        BY <1>8 DEF HandleFailedJob
  <2>3. PICK keep \in BOOLEAN : Reschedule(proc[p].job, proc[p].att, keep)
        BY <1>8 DEF HandleFailedJob
  <2>4. proc[p].job \in table /\ proc[p].att \in Nat
        BY <1>t, <1>w, <2>2 DEF Working, Proc
  <2>5. Frees({proc[p].job}) /\ Answered
        BY <2>2, <2>3, <2>4, RescheduleFrees DEF Answered
  <2> HIDE DEF r
  <2> QED BY <1>o, <1>w, <2>1, <2>2, <2>5, OwnMove DEF Working
<1>9. ASSUME Exit(p) \/ Abort(p) \/ Crash(p)
      PROVE  Ownership' /\ PoolFirst'
  <2>1. /\ proc[p].st \notin {"none", "zombie"} /\ UNCHANGED <<pool, asked>>
        /\ proc' = [proc EXCEPT ![p] = Dead(p)]
        BY <1>9 DEF Exit, Abort, Crash
  <2>2. Dead(p).st = "zombie" /\ Dead(p).own
        BY <1>o, <2>1 DEF Dead, NoProc
  <2>3. CASE Exit(p) \/ Abort(p)
    <3>1. Frees(LockedBy(p)) /\ Answered
          BY <2>1, <2>3, UnlockFrees DEF Exit, Abort, Answered
    <3>2. \A i \in LockedBy(p) \cap table : row[i].by = p
          BY DEF LockedBy
    <3> QED BY <2>1, <2>2, <3>1, <3>2, OwnMove
  <2>4. CASE Crash(p)
    <3>1. Frees({}) /\ Answered
          BY <1>0, <2>4 DEF Crash
    <3> QED BY <2>1, <2>2, <3>1, OwnMove
  <2> QED BY <1>9, <2>3, <2>4
<1> QED BY <1>2, <1>3, <1>4, <1>5, <1>6, <1>7, <1>8, <1>9

\* Steps of the pool.
LEMMA OwnPool ==
    ASSUME CoreInv,
           \/ PoolStart \/ SweepDone
           \/ \E p \in Pids : Reap(p) \/ Spawn(p)
           \/ \E o \in pool.orphans : SweepOne(o)
    PROVE  Ownership' /\ PoolFirst'
<1> USE DEF CoreInv
<1>t. proc \in [Pids -> Proc] /\ pool \in Pool
      BY DEF TypeInv, TypeOK
<1>1. ASSUME NEW P \in SUBSET Pids,
             pool'.orphans = RunningJobs(P), pool.orphans = {},
             UNCHANGED <<table, row, asked>>,
             \A p \in P : proc'[p].st = "none" /\ ~Working(p),
             \A p \in Pids \ P : proc'[p] = proc[p]
      PROVE  Ownership'
  <2>1. OrphansDead'
    <3> SUFFICES ASSUME NEW o \in RunningJobs(P)
                 PROVE  /\ o.id \in table /\ row[o.id].by = o.pid
                        /\ row[o.id].attempts = o.att /\ proc'[o.pid].st = "none"
        BY <1>1 DEF OrphansDead
    <3> QED BY <1>1 DEF RunningJobs
  <2>2. Owns'
        BY <1>1 DEF Owns, Ownership, Working
  <2>3. LocksAccountedFor'
    <3> SUFFICES ASSUME NEW k \in table, NEW q \in Pids, row[k].by = q
                 PROVE  \/ Working(q)' /\ proc'[q].job = k
                        \/ proc'[q].st = "zombie"
                        \/ \E o \in RunningJobs(P) : o.id = k
        BY <1>1 DEF LocksAccountedFor, Working
    <3>1. CASE q \in P
      <4>1. [id |-> k, att |-> row[k].attempts, pid |-> row[k].by] \in RunningJobs(P)
            BY <3>1 DEF RunningJobs
      <4> QED BY <4>1
    <3>2. CASE q \notin P
          BY <1>1, <3>2 DEF Ownership, LocksAccountedFor, Working
    <3> QED BY <3>1, <3>2
  <2>4. RequestKept'
        BY <1>1 DEF Ownership, RequestKept, RowsOn
  <2> QED BY <2>1, <2>2, <2>3, <2>4 DEF Ownership
<1>2. CASE PoolStart
  <2>1. \A p \in Pids : proc'[p].st = "none" /\ ~Working(p)
        BY <1>2 DEF PoolStart, PoolFirst, Working
  <2>2. pool.orphans = {} /\ pool'.orphans = RunningJobs(Pids) /\ pool'.st = "sweep"
        BY <1>2 DEF PoolStart, PoolFirst
  <2>3. Ownership'
        BY <1>1, <1>2, <2>1, <2>2 DEF PoolStart
  <2>4. PoolFirst'
        BY <1>2, <2>1, <2>2 DEF PoolFirst, PoolStart
  <2> QED BY <2>3, <2>4
<1>3. ASSUME NEW p \in Pids, Reap(p)
      PROVE  Ownership' /\ PoolFirst'
  <2>1. /\ pool.orphans = {} /\ pool' = [st |-> "sweep", orphans |-> RunningJobs({p}), killed |-> TRUE]
        /\ proc[p].st = "zombie" /\ proc' = [proc EXCEPT ![p] = NoProc]
        /\ UNCHANGED <<table, row, asked>>
        BY <1>3 DEF Reap, PoolFirst
  <2>2. NoProc.st = "none"
        BY DEF NoProc
  <2>3. \A q \in Pids : proc'[q] = IF q = p THEN NoProc ELSE proc[q]
        BY <1>t, <2>1
  <2>4. Ownership'
        BY <1>1, <2>1, <2>2, <2>3 DEF Working
  <2>5. PoolFirst'
        BY <2>1, <2>2, <2>3 DEF PoolFirst
  <2> QED BY <2>4, <2>5
<1>4. CASE SweepDone
  <2>1. /\ pool.orphans = {} /\ pool'.orphans = {} /\ pool'.st = "up"
        /\ UNCHANGED <<table, row, proc, asked>>
        BY <1>4, <1>t DEF SweepDone, Pool
  <2>2. PoolFirst'
        BY <2>1 DEF PoolFirst
  <2>3. Ownership'
        BY <2>1 DEF Ownership, Owns, OrphansDead, LocksAccountedFor, RequestKept, RowsOn, Working
  <2> QED BY <2>2, <2>3
<1>5. ASSUME NEW p \in Pids, Spawn(p)
      PROVE  Ownership' /\ PoolFirst'
  <2> DEFINE r == [NoProc EXCEPT !.st = "idle", !.own = TRUE]
  <2>1. r.st = "idle" /\ r.own
        BY DEF NoProc
  <2>2. /\ proc' = [proc EXCEPT ![p] = r] /\ proc[p].st = "none"
        /\ pool.st = "up" /\ pool.orphans = {}
        /\ UNCHANGED <<table, row, asked, pool>>
        BY <1>5 DEF Spawn, PoolFirst
  <2> HIDE DEF r
  <2>3. \A q \in Pids : proc'[q] = IF q = p THEN r ELSE proc[q]
        BY <1>t, <2>2
  <2>4. PoolFirst'
        BY <2>1, <2>2, <2>3 DEF PoolFirst
  <2>5. Ownership'
        BY <2>1, <2>2, <2>3
        DEF Ownership, Owns, OrphansDead, LocksAccountedFor, RequestKept, RowsOn, Working
  <2> QED BY <2>4, <2>5
<1>6. ASSUME NEW o \in pool.orphans, SweepOne(o)
      PROVE  Ownership' /\ PoolFirst'
  <2>1. /\ o.id \in table /\ row[o.id].by = o.pid /\ row[o.id].attempts = o.att
        /\ proc[o.pid].st = "none" /\ o \in Orphan
        BY <1>t DEF Ownership, OrphansDead, Pool
  <2>2. Reschedule(o.id, o.att, TRUE) /\ UNCHANGED <<proc, asked>>
        BY <1>6, <2>1 DEF SweepOne, Alive
  <2>3. /\ pool.st = "sweep" /\ pool'.st = "sweep" /\ pool'.killed = pool.killed
        /\ pool'.orphans = pool.orphans \ {o}
        BY <1>6, <1>t DEF SweepOne, Pool
  <2>4. Frees({o.id}) /\ Answered
        BY <2>1, <2>2, RescheduleFrees DEF Orphan, Answered
  <2>5. \A p \in Pids : Working(p) => proc[p].job # o.id
    <3> SUFFICES ASSUME NEW p \in Pids, Working(p), proc[p].job = o.id PROVE FALSE
        OBVIOUS
    <3>1. o.pid = p
          BY <2>1 DEF Ownership, Owns
    <3> QED BY <2>1, <3>1 DEF Working
  <2>6. ASSUME NEW u \in pool.orphans, u.id = o.id PROVE u = o
    <3>1. u.pid = o.pid /\ u.att = o.att /\ u \in Orphan
          BY <1>t, <2>1, <2>6 DEF Ownership, OrphansDead, Pool
    <3> QED BY <2>1, <2>6, <3>1 DEF Orphan
  <2>7. \A u \in pool'.orphans : u \in pool.orphans /\ u.id \notin {o.id} /\ proc'[u.pid].st = "none"
        BY <2>2, <2>3, <2>6 DEF Ownership, OrphansDead
  <2>8. \A u \in pool.orphans : u \in pool'.orphans \/ u.id \in {o.id}
        BY <2>3
  <2>9. \A p \in Pids : Working(p)' <=> Working(p)
        BY <2>2 DEF Working
  <2>10. o.pid \in Pids
         BY <2>1 DEF Orphan
  <2>11. Ownership'
         BY <2>1, <2>2, <2>4, <2>5, <2>7, <2>8, <2>9, <2>10, FreesKeeps
  <2>12. PoolFirst'
         BY <2>2, <2>3 DEF PoolFirst
  <2> QED BY <2>11, <2>12
<1> QED BY <1>2, <1>3, <1>4, <1>5, <1>6

\* The invariant of the queue in operation.
LEMMA CoreInvariant == CoreSpec => []CoreInv
<1>1. Init => CoreInv
  <2> SUFFICES ASSUME Init PROVE CoreInv
      OBVIOUS
  <2>1. NoProc.st = "none"
        BY DEF NoProc
  <2>2. Ownership
        BY <2>1 DEF Init, Ownership, Owns, OrphansDead, LocksAccountedFor, RequestKept, Working
  <2>3. PoolFirst
        BY <2>1 DEF Init, PoolFirst
  <2> QED BY <2>2, <2>3, TypeInit, StrandInit DEF CoreInv
<1>2. CoreInv /\ [CoreNext]_vars => CoreInv'
  <2> SUFFICES ASSUME CoreInv, [CoreNext]_vars PROVE CoreInv'
      OBVIOUS
  <2>1. [Next]_vars
        BY DEF Next, NoHoldNext
  <2>2. TypeInv' /\ StrandInv'
        BY <2>1, TypeStep, StrandStep DEF CoreInv
  <2>3. CASE CoreNext
    <3>1. Ownership' /\ PoolFirst'
          BY <2>3, OwnOthers, OwnWorker, OwnPool DEF CoreNext, PoolNext
    <3> QED BY <2>2, <3>1 DEF CoreInv
  <2>4. CASE UNCHANGED vars
    <3>1. Ownership' /\ PoolFirst'
          BY <2>4 DEF CoreInv, vars, Ownership, Owns, OrphansDead, LocksAccountedFor,
                      RequestKept, RowsOn, Working, PoolFirst
    <3> QED BY <2>2, <3>1 DEF CoreInv
  <2> QED BY <2>3, <2>4
<1> QED BY <1>1, <1>2, PTL DEF CoreSpec

\* No two workers ever perform the same job or two jobs of one strand, for
\* any number of workers, jobs, strands, failures and deaths of workers: the
\* row of a job is locked by the one that performs it, and it is the oldest.
THEOREM MutualExclusion == CoreSpec => []OneAtATime
<1>1. CoreInv => OneAtATime
  <2> SUFFICES ASSUME CoreInv, NEW p \in Pids, NEW q \in Pids, p # q, Working(p), Working(q)
               PROVE  /\ proc[p].job # proc[q].job
                      /\ \/ row[proc[p].job].strand = NoStrand
                         \/ row[proc[p].job].strand # row[proc[q].job].strand
      BY DEF OneAtATime
  <2>1. /\ proc[p].job \in table /\ row[proc[p].job].by = p
        /\ proc[q].job \in table /\ row[proc[q].job].by = q
        BY DEF CoreInv, Ownership, Owns
  <2>2. table \subseteq Ids /\ Ids \subseteq Nat
        BY DEF CoreInv, TypeInv, TypeOK, Ids
  <2>3. row[proc[p].job].next /\ row[proc[q].job].next
        BY <2>1 DEF CoreInv, StrandInv, LockedIsNext
  <2>4. \A i \in table : row[i].next => row[i].strand = NoStrand \/ Oldest(i)
        BY DEF CoreInv, StrandInv, NextIsOldest
  <2>5. ASSUME row[proc[p].job].strand # NoStrand,
               row[proc[p].job].strand = row[proc[q].job].strand
        PROVE  FALSE
    <3>1. proc[p].job <= proc[q].job /\ proc[q].job <= proc[p].job
          BY <2>1, <2>3, <2>4, <2>5 DEF Oldest
    <3>2. \A a, b \in Nat : a <= b /\ b <= a => a = b
          OBVIOUS
    <3>3. proc[p].job \in Nat /\ proc[q].job \in Nat
          BY <2>1, <2>2
    <3>4. proc[p].job = proc[q].job
          BY <3>1, <3>2, <3>3
    <3> QED BY <2>1, <3>4
  <2> QED BY <2>1, <2>5
<1> QED BY <1>1, CoreInvariant, PTL

\* No lock is forgotten: a locked row is being performed, or its worker's
\* death is still to be noticed, or a sweep under way will free it.
THEOREM NoLockForgotten == CoreSpec => []LocksAccountedFor
<1>1. CoreInv => LocksAccountedFor
      BY DEF CoreInv, Ownership
<1> QED BY <1>1, CoreInvariant, PTL

\* No request on a singleton is lost: until a worker takes a job of the
\* singleton up, one is waiting in the table.
THEOREM NoRequestLost == CoreSpec => []RequestKept
<1>1. CoreInv => RequestKept
      BY DEF CoreInv, Ownership
<1> QED BY <1>1, CoreInvariant, PTL

-----------------------------------------------------------------------------
(* The queue in operation implements StrandQueue: every step of a process  *)
(* is one step of the abstract queue or none.  The job a worker performs   *)
(* is its own (CoreInv), so no two workers account for the same running    *)
(* job, and what a sweep gives up is not running.                          *)

Running == {proc[p].job : p \in {q \in Pids : Working(q)}}
StrandOf == [i \in Ids |-> row[i].strand]

SameWorkers(P) == \A q \in P : /\ Working(q)' <=> Working(q)
                               /\ Working(q) => proc'[q].job = proc[q].job

SameStrandOf == \A i \in Ids : row'[i].strand = row[i].strand

\* What a step of the concrete queue is to the abstract one.
Maps == [Queue!Next]_(Queue!vars)

-----------------------------------------------------------------------------
(* The running jobs.                                                       *)

\* The running jobs are the same if every worker performs what it did.
LEMMA RunningSame ==
    ASSUME SameWorkers(Pids)
    PROVE  Running' = Running
<1>1. \A i : i \in Running <=> \E q \in Pids : Working(q) /\ proc[q].job = i
      BY DEF Running
<1>2. \A i : i \in Running' <=> \E q \in Pids : Working(q)' /\ proc'[q].job = i
      BY DEF Running
<1>3. \A i : i \in Running' <=> i \in Running
      BY <1>1, <1>2 DEF SameWorkers
<1> QED BY <1>3

\* A worker that stops takes its own job from the running ones: no other has it.
LEMMA RunningLess ==
    ASSUME Owns, NEW p \in Pids, Working(p), ~Working(p)', SameWorkers(Pids \ {p})
    PROVE  Running' = Running \ {proc[p].job}
<1>1. \A i : i \in Running <=> \E q \in Pids : Working(q) /\ proc[q].job = i
      BY DEF Running
<1>2. \A i : i \in Running' <=> \E q \in Pids : Working(q)' /\ proc'[q].job = i
      BY DEF Running
<1>3. \A q \in Pids : Working(q) /\ proc[q].job = proc[p].job => q = p
  <2> SUFFICES ASSUME NEW q \in Pids, Working(q), proc[q].job = proc[p].job
               PROVE  q = p
      OBVIOUS
  <2>1. row[proc[q].job].by = q /\ row[proc[p].job].by = p
        BY DEF Owns
  <2> QED BY <2>1
<1>4. ASSUME NEW i PROVE i \in Running' <=> i \in Running /\ i # proc[p].job
  <2>1. ASSUME i \in Running' PROVE i \in Running /\ i # proc[p].job
    <3>1. PICK q \in Pids : Working(q)' /\ proc'[q].job = i
          BY <1>2, <2>1
    <3>2. q # p /\ q \in Pids \ {p}
          BY <3>1
    <3>3. Working(q) /\ proc[q].job = i
          BY <3>1, <3>2 DEF SameWorkers
    <3> QED BY <1>1, <1>3, <3>2, <3>3
  <2>2. ASSUME i \in Running, i # proc[p].job PROVE i \in Running'
    <3>1. PICK q \in Pids : Working(q) /\ proc[q].job = i
          BY <1>1, <2>2
    <3>2. Working(q)' /\ proc'[q].job = i
          BY <2>2, <3>1 DEF SameWorkers
    <3> QED BY <1>2, <3>2
  <2> QED BY <2>1, <2>2
<1> QED BY <1>4

\* A worker that starts adds its job.
LEMMA RunningMore ==
    ASSUME NEW p \in Pids, ~Working(p), Working(p)', proc'[p].job = proc[p].job,
           SameWorkers(Pids \ {p})
    PROVE  Running' = Running \cup {proc[p].job}
<1>1. \A i : i \in Running <=> \E q \in Pids : Working(q) /\ proc[q].job = i
      BY DEF Running
<1>2. \A i : i \in Running' <=> \E q \in Pids : Working(q)' /\ proc'[q].job = i
      BY DEF Running
<1>3. ASSUME NEW i PROVE i \in Running' <=> i \in Running \/ i = proc[p].job
  <2>1. ASSUME i \in Running' PROVE i \in Running \/ i = proc[p].job
    <3>1. PICK q \in Pids : Working(q)' /\ proc'[q].job = i
          BY <1>2, <2>1
    <3>2. CASE q = p
          BY <3>1, <3>2
    <3>3. CASE q # p
      <4>1. Working(q) /\ proc[q].job = i
            BY <3>1, <3>3 DEF SameWorkers
      <4> QED BY <1>1, <4>1
    <3> QED BY <3>2, <3>3
  <2>2. ASSUME i \in Running PROVE i \in Running'
    <3>1. PICK q \in Pids : Working(q) /\ proc[q].job = i
          BY <1>1, <2>2
    <3>2. q # p
          BY <3>1
    <3>3. Working(q)' /\ proc'[q].job = i
          BY <3>1, <3>2 DEF SameWorkers
    <3> QED BY <1>2, <3>3
  <2>3. proc[p].job \in Running'
        BY <1>2
  <2> QED BY <2>1, <2>2, <2>3
<1> QED BY <1>3

-----------------------------------------------------------------------------
(* The steps of the abstract queue.                                        *)

\* A change of neither ids, strands nor running jobs is no abstract step.
LEMMA MapsStutter ==
    ASSUME UNCHANGED table, SameStrandOf, Running' = Running
    PROVE  Maps
<1>1. StrandOf' = StrandOf
      BY DEF StrandOf, SameStrandOf
<1> QED BY <1>1 DEF Maps, Queue!vars, Running, StrandOf

\* An insert is Enqueue, since ids only grow.
LEMMA MapsEnqueue ==
    ASSUME TypeOK, IdsIssued, Running' = Running,
           NEW s \in Strands \cup {NoStrand}, NEW due \in BOOLEAN, Insert(s, due)
    PROVE  Maps
<1>1. nextId \in Ids /\ table' = table \cup {nextId}
      BY BoundsAssumption DEF Insert, TypeOK, Ids
<1>2. \A k \in table : k < nextId
      BY DEF IdsIssued
<1>3. \A i \in Ids : row'[i].strand = IF i = nextId THEN s ELSE row[i].strand
      BY <1>1 DEF Insert, NewRow, TypeOK
<1>4. StrandOf' = [StrandOf EXCEPT ![nextId] = s]
      BY <1>1, <1>3 DEF StrandOf
<1>5. Queue!Enqueue(nextId, s)
      BY <1>1, <1>2, <1>4 DEF Queue!Enqueue, Running, StrandOf
<1> QED BY <1>1, <1>5 DEF Maps, Queue!Next

\* create_singleton is Enqueue or nothing.
LEMMA MapsCreate ==
    ASSUME TypeOK, IdsIssued, Running' = Running,
           NEW s \in Singletons, NEW due \in BOOLEAN, CreateSingleton(s, due)
    PROVE  Maps
<1>1. CASE UNCHANGED <<table, row>>
      BY <1>1, MapsStutter DEF SameStrandOf
<1>2. CASE Insert(s, due)
      BY <1>2, MapsEnqueue, StrandsAssumption
<1> QED BY <1>1, <1>2 DEF CreateSingleton

\* A delete leaves the strands of all ids alone.
LEMMA DeleteStrands ==
    ASSUME TypeOK, NEW D, Delete(D)
    PROVE  table' = table \ D /\ SameStrandOf
<1> SUFFICES ASSUME NEW i \in Ids PROVE row'[i].strand = row[i].strand
    BY DEF Delete, SameStrandOf
<1>1. row[i] \in Row
      BY DEF TypeOK
<1>2. row'[i] = row[i] \/ row'[i] = [row[i] EXCEPT !.next = TRUE]
      BY DEF Delete
<1> QED BY <1>1, <1>2 DEF Row

\* A delete of a job that then no longer runs is Remove.
LEMMA MapsRemove ==
    ASSUME TypeOK, NEW i \in table, Delete({i}), Running' = Running \ {i}
    PROVE  Maps
<1>1. table' = table \ {i} /\ SameStrandOf
      BY DeleteStrands
<1>2. StrandOf' = StrandOf
      BY <1>1 DEF StrandOf, SameStrandOf
<1>3. Queue!Remove(i)
      BY <1>1, <1>2 DEF Queue!Remove, Running, StrandOf
<1>4. i \in Ids
      BY DEF TypeOK
<1> QED BY <1>3, <1>4 DEF Maps, Queue!Next

\* Running no more without leaving the table is Stop.
LEMMA MapsStop ==
    ASSUME TypeOK, NEW i \in Ids, i \in Running, UNCHANGED table, SameStrandOf,
           Running' = Running \ {i}
    PROVE  Maps
<1>1. StrandOf' = StrandOf
      BY DEF StrandOf, SameStrandOf
<1>2. Queue!Stop(i)
      BY <1>1 DEF Queue!Stop, Running, StrandOf
<1> QED BY <1>2 DEF Maps, Queue!Next

\* Unlocking changes neither ids nor strands.
LEMMA UnlockStrands ==
    ASSUME TypeOK, NEW U, Unlock(U)
    PROVE  UNCHANGED table /\ SameStrandOf
<1> SUFFICES ASSUME NEW i \in Ids PROVE row'[i].strand = row[i].strand
    BY DEF Unlock, SameStrandOf
<1>1. row[i] \in Row
      BY DEF TypeOK
<1>2. row'[i] = row[i] \/ row'[i] = [row[i] EXCEPT !.by = Nobody, !.old = FALSE]
      BY DEF Unlock
<1> QED BY <1>1, <1>2 DEF Row

\* A retry leaves the table of ids and the strands alone; giving up deletes.
LEMMA RescheduleStrands ==
    ASSUME TypeOK, NEW i \in Ids, NEW att \in Nat, NEW keep \in BOOLEAN,
           Reschedule(i, att, keep)
    PROVE  Delete({i}) \/ (UNCHANGED table /\ SameStrandOf)
<1>1. CASE Exhausted(i, att)
      BY <1>1 DEF Reschedule
<1>2. CASE ~Exhausted(i, att)
  <2>1. ASSUME NEW k \in Ids PROVE row'[k].strand = row[k].strand
    <3>1. row[k] \in Row
          BY DEF TypeOK
    <3>2. \/ row'[k] = row[k]
          \/ row'[k] = [row[k] EXCEPT !.by = Nobody, !.old = FALSE,
                                      !.attempts = att + 1, !.due = FALSE]
          BY <1>2 DEF Reschedule, TypeOK
    <3> QED BY <3>1, <3>2 DEF Row
  <2> QED BY <1>2, <2>1 DEF Reschedule, SameStrandOf
<1> QED BY <1>1, <1>2

-----------------------------------------------------------------------------
(* The steps of the processes.                                             *)

\* Enqueuing, the auditor, and the passing of time.
LEMMA OthersMap ==
    ASSUME CoreInv, EnqueueNext \/ TimeNext \/ \E s \in Periodic : Audit(s)
    PROVE  Maps
<1>t. TypeOK /\ IdsIssued
      BY DEF CoreInv, TypeInv, StrandInv
<1>0. ASSUME UNCHANGED proc PROVE Running' = Running
      BY <1>0 DEF Running, Working
<1>1. ASSUME NEW s \in Strands \cup {NoStrand}, NEW due \in BOOLEAN, Enqueue(s, due)
      PROVE  Maps
      BY <1>t, <1>0, <1>1, MapsEnqueue DEF Enqueue
<1>2. ASSUME NEW s \in Singletons, NEW due \in BOOLEAN, EnqueueSingleton(s, due)
      PROVE  Maps
      BY <1>t, <1>0, <1>2, MapsCreate DEF EnqueueSingleton
<1>3. ASSUME NEW s \in Periodic, Audit(s)
      PROVE  Maps
      BY <1>t, <1>0, <1>3, MapsCreate, StrandsAssumption DEF Audit
<1>4. ASSUME NEW i \in Ids, BecomeDue(i)
      PROVE  Maps
  <2>1. ASSUME NEW k \in Ids PROVE row'[k].strand = row[k].strand
    <3>1. row[k] \in Row
          BY <1>t DEF TypeOK
    <3>2. row'[k] = row[k] \/ row'[k] = [row[k] EXCEPT !.due = TRUE]
          BY <1>t, <1>4 DEF BecomeDue, TypeOK
    <3> QED BY <3>1, <3>2 DEF Row
  <2>2. UNCHANGED table /\ Running' = Running
        BY <1>0, <1>4 DEF BecomeDue
  <2> QED BY <2>1, <2>2, MapsStutter DEF SameStrandOf
<1> QED BY <1>1, <1>2, <1>3, <1>4 DEF EnqueueNext, TimeNext

\* Locking: the row is the head of its strand, and nobody performs it.
LEMMA LockMaps ==
    ASSUME CoreInv, NEW p \in Pids, Lock(p)
    PROVE  Maps
<1>t. /\ TypeOK /\ StrandInv /\ Owns
      /\ proc \in [Pids -> Proc] /\ proc[p] \in Proc
      BY DEF CoreInv, TypeInv, TypeOK, Ownership
<1>1. proc[p].job \in Ids /\ ~Working(p) /\ UNCHANGED table
      BY DEF Lock, CoreInv, TypeInv, JobInHand, Working
<1> PICK i \in Ids : i = proc[p].job
    BY <1>1
<1>2. CASE /\ CanLock(i)
           /\ row' = [row EXCEPT ![i].by = p, ![i].old = FALSE]
           /\ proc' = [proc EXCEPT ![p].st = "run"]
  <2>1. proc'[p].st = "run" /\ proc'[p].job = i /\ \A q \in Pids \ {p} : proc'[q] = proc[q]
        BY <1>t, <1>2 DEF Proc
  <2>2. Running' = Running \cup {i}
    <3>1. Working(p)' /\ SameWorkers(Pids \ {p})
          BY <2>1 DEF Working, SameWorkers
    <3> QED BY <1>1, <2>1, <3>1, RunningMore
  <2>3. SameStrandOf
    <3>1. ASSUME NEW k \in Ids PROVE row'[k].strand = row[k].strand
      <4>1. row[k] \in Row
            BY <1>t DEF TypeOK
      <4>2. row'[k] = row[k] \/ row'[k] = [row[k] EXCEPT !.by = p, !.old = FALSE]
            BY <1>t, <1>2 DEF TypeOK
      <4> QED BY <4>1, <4>2 DEF Row
    <3> QED BY <3>1 DEF SameStrandOf
  <2>4. i \notin Running
    <3> SUFFICES ASSUME NEW q \in Pids, Working(q), proc[q].job = i PROVE FALSE
        BY DEF Running
    <3>1. row[i].by = q
          BY <1>t DEF Owns
    <3> QED BY <1>2, <3>1, HoldersAssumption DEF CanLock
  <2>5. i \in table /\ row[i].next
        BY <1>t, <1>2 DEF CanLock, StrandInv, CandidateIsNext, Lock
  <2>6. row[i].strand = NoStrand \/ \A k \in table : row[k].strand = row[i].strand => i <= k
        BY <1>t, <2>5 DEF StrandInv, NextIsOldest, Oldest
  <2>7. \A k \in Ids : StrandOf[k] = row[k].strand
        BY DEF StrandOf
  <2>8. table \subseteq Ids
        BY <1>t DEF TypeOK
  <2>9. Queue!IsHead(i)
        BY <1>1, <2>5, <2>6, <2>7, <2>8 DEF Queue!IsHead, StrandOf
  <2>10. StrandOf' = StrandOf
         BY <2>3 DEF StrandOf, SameStrandOf
  <2>11. Queue!Start(i)
         BY <1>1, <2>2, <2>4, <2>9, <2>10 DEF Queue!Start, Running, StrandOf
  <2> QED BY <2>11 DEF Maps, Queue!Next
<1>3. CASE /\ proc' = [proc EXCEPT ![p].st = "idle", ![p].job = NoJob, ![p].att = 0]
           /\ UNCHANGED row
  <2>1. proc'[p].st = "idle" /\ \A q \in Pids \ {p} : proc'[q] = proc[q]
        BY <1>t, <1>3 DEF Proc
  <2>2. SameWorkers(Pids)
        BY <1>1, <2>1 DEF SameWorkers, Working
  <2> QED BY <1>1, <1>3, <2>2, RunningSame, MapsStutter DEF SameStrandOf
<1> QED BY <1>2, <1>3 DEF Lock

\* The other steps of a worker.
LEMMA WorkerMaps ==
    ASSUME CoreInv, WorkerNext
    PROVE  Maps
<1> SUFFICES ASSUME NEW p \in Pids,
                    \/ Find(p) \/ FindNothing(p) \/ Lock(p)
                    \/ \E ok \in BOOLEAN : Perform(p, ok)
                    \/ Complete(p) \/ DestroyRaises(p) \/ HandleFailedJob(p)
                    \/ Loop(p) \/ Exit(p) \/ Abort(p) \/ Crash(p)
             PROVE  Maps
    BY DEF WorkerNext
<1>t. /\ TypeOK /\ IdsIssued /\ Owns
      /\ proc \in [Pids -> Proc] /\ proc[p] \in Proc
      BY DEF CoreInv, TypeInv, TypeOK, StrandInv, Ownership
<1>0. ASSUME NEW r, proc' = [proc EXCEPT ![p] = r]
      PROVE  proc'[p] = r /\ SameWorkers(Pids \ {p})
      BY <1>t, <1>0 DEF SameWorkers, Working
<1>s. ASSUME NEW r, proc' = [proc EXCEPT ![p] = r],
             r.st \in {"run", "ran"} <=> Working(p),
             Working(p) => r.job = proc[p].job
      PROVE  Running' = Running
  <2>1. SameWorkers(Pids)
        BY <1>0, <1>s DEF SameWorkers, Working
  <2> QED BY <2>1, RunningSame
<1>l. ASSUME NEW r, proc' = [proc EXCEPT ![p] = r],
             r.st \notin {"run", "ran"}, Working(p)
      PROVE  Running' = Running \ {proc[p].job}
  <2>1. ~Working(p)' /\ SameWorkers(Pids \ {p})
        BY <1>0, <1>l DEF Working
  <2> QED BY <1>t, <1>l, <2>1, RunningLess
<1>j. ASSUME Working(p)
      PROVE  proc[p].job \in table /\ proc[p].job \in Ids /\ proc[p].job \in Running
      BY <1>t, <1>j DEF Owns, Running, TypeOK
<1>1. CASE Find(p)
  <2>1. PICK i \in Ids : proc' = [proc EXCEPT ![p].st = "locking", ![p].job = i,
                                            ![p].att = row[i].attempts]
        BY <1>1 DEF Find
  <2> DEFINE r == [proc[p] EXCEPT !.st = "locking", !.job = i, !.att = row[i].attempts]
  <2>2. r.st = "locking" /\ proc' = [proc EXCEPT ![p] = r] /\ ~Working(p)
        BY <1>t, <1>1, <2>1 DEF Proc, Find, Working
  <2> HIDE DEF r
  <2>3. Running' = Running
        BY <1>s, <2>2
  <2> QED BY <1>1, <2>3, MapsStutter DEF Find, SameStrandOf
<1>2. CASE FindNothing(p) \/ Loop(p)
  <2>1. PICK t \in {"idle", "check"} : proc' = [proc EXCEPT ![p].st = t]
        BY <1>2 DEF FindNothing, Loop
  <2> DEFINE r == [proc[p] EXCEPT !.st = t]
  <2>2. r.st = t /\ proc' = [proc EXCEPT ![p] = r] /\ ~Working(p)
        BY <1>t, <1>2, <2>1 DEF Proc, FindNothing, Loop, Working
  <2> HIDE DEF r
  <2>3. Running' = Running
        BY <1>s, <2>2
  <2> QED BY <1>2, <2>3, MapsStutter DEF FindNothing, Loop, SameStrandOf
<1>3. CASE Lock(p)
      BY <1>3, LockMaps
<1>4. ASSUME NEW ok \in BOOLEAN, Perform(p, ok)
      PROVE  Maps
  <2> DEFINE r == [proc[p] EXCEPT !.st = "ran", !.ok = ok]
  <2>1. r.st = "ran" /\ r.job = proc[p].job /\ proc' = [proc EXCEPT ![p] = r] /\ Working(p)
        BY <1>t, <1>4 DEF Proc, Perform, Working
  <2> HIDE DEF r
  <2>2. Running' = Running
        BY <1>s, <2>1
  <2>3. \/ \E s \in Periodic : CreateSingleton(s, FALSE)
        \/ UNCHANGED <<table, row>>
        BY <1>4 DEF Perform
  <2> QED BY <1>t, <2>2, <2>3, MapsCreate, MapsStutter, StrandsAssumption DEF SameStrandOf
<1>5. CASE Complete(p)
  <2> DEFINE r == [proc[p] EXCEPT !.st = "check", !.job = NoJob, !.att = 0]
  <2>1. r.st = "check" /\ proc' = [proc EXCEPT ![p] = r] /\ Working(p)
        BY <1>t, <1>5 DEF Proc, Complete, Working
  <2> HIDE DEF r
  <2>2. Running' = Running \ {proc[p].job}
        BY <1>l, <2>1
  <2> QED BY <1>t, <1>j, <1>5, <2>1, <2>2, MapsRemove DEF Complete
<1>6. CASE DestroyRaises(p)
  <2> DEFINE r == [proc[p] EXCEPT !.ok = FALSE]
  <2>1. r.st = "ran" /\ r.job = proc[p].job /\ proc' = [proc EXCEPT ![p] = r] /\ Working(p)
        BY <1>t, <1>6 DEF Proc, DestroyRaises, Working
  <2> HIDE DEF r
  <2>2. Running' = Running
        BY <1>s, <2>1
  <2> QED BY <1>6, <2>2, MapsStutter DEF DestroyRaises, SameStrandOf
<1>7. CASE HandleFailedJob(p)
  <2> DEFINE r == [proc[p] EXCEPT !.st = "check", !.job = NoJob, !.att = 0, !.ok = TRUE]
             i == proc[p].job
  <2>1. r.st = "check" /\ proc' = [proc EXCEPT ![p] = r] /\ Working(p)
        BY <1>t, <1>7 DEF Proc, HandleFailedJob, Working
  <2> HIDE DEF r
  <2>2. Running' = Running \ {i} /\ i \in Running /\ i \in table /\ i \in Ids
        BY <1>l, <1>j, <2>1
  <2>3. PICK keep \in BOOLEAN : Reschedule(i, proc[p].att, keep)
        BY <1>7 DEF HandleFailedJob
  <2>4. proc[p].att \in Nat
        BY <1>t DEF Proc
  <2>5. Delete({i}) \/ (UNCHANGED table /\ SameStrandOf)
        BY <1>t, <2>2, <2>3, <2>4, RescheduleStrands
  <2> QED BY <1>t, <2>2, <2>5, MapsRemove, MapsStop
<1>8. CASE Exit(p) \/ Abort(p) \/ Crash(p)
  <2>1. Dead(p).st \notin {"run", "ran"}
        BY DEF Dead, NoProc
  <2>2. proc' = [proc EXCEPT ![p] = Dead(p)]
        BY <1>8 DEF Exit, Abort, Crash
  <2>3. UNCHANGED table /\ SameStrandOf
    <3>1. ASSUME UNCHANGED <<table, row>> PROVE UNCHANGED table /\ SameStrandOf
          BY <3>1 DEF SameStrandOf
    <3> QED BY <1>t, <1>8, <3>1, UnlockStrands DEF Exit, Abort, Crash
  <2>4. CASE Working(p)
        BY <1>t, <1>j, <1>l, <2>1, <2>2, <2>3, <2>4, MapsStop
  <2>5. CASE ~Working(p)
        BY <1>s, <2>1, <2>2, <2>3, <2>5, MapsStutter
  <2> QED BY <2>4, <2>5
<1> QED BY <1>1, <1>2, <1>3, <1>4, <1>5, <1>6, <1>7, <1>8

\* A sweep gives up or reschedules rows that nobody performs.
LEMMA SweepMaps ==
    ASSUME CoreInv, NEW o \in pool.orphans, SweepOne(o)
    PROVE  Maps
<1>t. TypeOK /\ Owns /\ OrphansDead
      BY DEF CoreInv, TypeInv, Ownership
<1>1. /\ o.id \in table /\ row[o.id].by = o.pid /\ proc[o.pid].st = "none"
      /\ o.id \in Ids /\ o.att \in Nat
      BY <1>t DEF OrphansDead, TypeOK, Pool, Orphan
<1>2. Running' = Running
      BY DEF SweepOne, Running, Working
<1>3. o.id \notin Running
  <2> SUFFICES ASSUME NEW q \in Pids, Working(q), proc[q].job = o.id PROVE FALSE
      BY DEF Running
  <2>1. o.pid = q
        BY <1>t, <1>1 DEF Owns
  <2> QED BY <1>1, <2>1 DEF Working
<1>4. CASE Reschedule(o.id, o.att, TRUE)
  <2>1. Delete({o.id}) \/ (UNCHANGED table /\ SameStrandOf)
        BY <1>t, <1>1, <1>4, RescheduleStrands
  <2>2. Running' = Running \ {o.id}
        BY <1>2, <1>3
  <2> QED BY <1>t, <1>1, <1>2, <2>1, <2>2, MapsRemove, MapsStutter
<1>5. CASE UNCHANGED <<table, row>>
      BY <1>2, <1>5, MapsStutter DEF SameStrandOf
<1> QED BY <1>4, <1>5 DEF SweepOne

\* The other steps of the pool are none of the abstract queue.
LEMMA PoolMaps ==
    ASSUME CoreInv, PoolNext
    PROVE  Maps
<1>t. proc \in [Pids -> Proc]
      BY DEF CoreInv, TypeInv, TypeOK
<1>1. CASE PoolStart \/ SweepDone
  <2>1. UNCHANGED <<table, row, proc>>
        BY <1>1 DEF PoolStart, SweepDone
  <2>2. Running' = Running /\ SameStrandOf
        BY <2>1 DEF Running, Working, SameStrandOf
  <2> QED BY <2>1, <2>2, MapsStutter
<1>2. ASSUME NEW p \in Pids, Reap(p) \/ Spawn(p)
      PROVE  Maps
  <2>1. UNCHANGED <<table, row>> /\ ~Working(p)
        BY <1>2 DEF Reap, Spawn, Working
  <2>r. NoProc.st = "none" /\ [NoProc EXCEPT !.st = "idle", !.own = TRUE].st = "idle"
        BY DEF NoProc
  <2>2. proc'[p].st \in {"none", "idle"} /\ \A q \in Pids \ {p} : proc'[q] = proc[q]
        BY <1>t, <1>2, <2>r DEF Reap, Spawn
  <2>3. SameWorkers(Pids)
        BY <2>1, <2>2 DEF SameWorkers, Working
  <2> QED BY <2>1, <2>3, RunningSame, MapsStutter DEF SameStrandOf
<1>3. CASE \E o \in pool.orphans : SweepOne(o)
      BY <1>3, SweepMaps
<1>4. CASE \E s \in Periodic : Audit(s)
      BY <1>4, OthersMap
<1> QED BY <1>1, <1>2, <1>3, <1>4 DEF PoolNext

\* The queue in operation keeps the promise of StrandQueue: whatever fails or
\* dies, a job is started only from the head of its strand and by one worker,
\* keeps its place until it is completed or given up, and is enqueued behind
\* the jobs that are there.
THEOREM QueueImplemented == CoreSpec => ImplementsQueue
<1>1. Init => Queue!Init
  <2> SUFFICES ASSUME Init PROVE Queue!Init
      OBVIOUS
  <2>1. table = {} /\ StrandOf = [i \in Ids |-> NoStrand]
        BY DEF Init, NewRow, StrandOf
  <2>2. Running = {}
        BY DEF Init, Running, Working, NoProc
  <2> QED BY <2>1, <2>2 DEF Queue!Init, StrandOf, Running
<1>2. CoreInv /\ [CoreNext]_vars => [Queue!Next]_(Queue!vars)
  <2> SUFFICES ASSUME CoreInv, [CoreNext]_vars PROVE Maps
      BY DEF Maps
  <2>1. CASE CoreNext
        BY <2>1, OthersMap, WorkerMaps, PoolMaps DEF CoreNext
  <2>2. CASE UNCHANGED vars
    <3>1. UNCHANGED table /\ SameStrandOf /\ Running' = Running
          BY <2>2 DEF vars, SameStrandOf, Running, Working
    <3> QED BY <3>1, MapsStutter
  <2> QED BY <2>1, <2>2
<1> QED BY <1>1, <1>2, CoreInvariant, PTL DEF CoreSpec, ImplementsQueue, Queue!Spec

-----------------------------------------------------------------------------
(***************************************************************************)
(* The count of failures (RetrySpec).  A worker that found the row before  *)
(* a failure and locks it after the retry writes an older count back; but  *)
(* for the jobs this happened to, the attempts of a row, and of the copy   *)
(* of whoever performs the job, are its failures.                          *)
(***************************************************************************)

Counted == /\ fails \in [Ids -> Nat]
           /\ \A i \in table \ stale : row[i].attempts = fails[i] /\ fails[i] < Limit(i)
           /\ \A i \in Ids : i >= nextId => fails[i] = 0
           /\ \A p \in Pids : Working(p) /\ proc[p].job \notin stale =>
                                 proc[p].att = row[proc[p].job].attempts

\* A change of the table that counts nothing.
SameCounts == /\ \A i \in table' \ table : i = nextId /\ row'[i].attempts = 0
              /\ \A i \in table' \cap table : /\ row'[i].attempts = row[i].attempts
                                              /\ row'[i].strand = row[i].strand
              /\ nextId <= nextId'

\* What a worker performs after a step, it performed before, or it has locked it
\* from a true copy.
SameCopies ==
    \A p \in Pids : Working(p)' /\ proc'[p].job \notin stale' =>
        \/ Working(p) /\ proc'[p].job = proc[p].job /\ proc'[p].att = proc[p].att
        \/ proc'[p].job \in table /\ proc'[p].att = row[proc'[p].job].attempts

\* A job may always be attempted once.
LEMMA LimitIsPositive == \A i \in Ids : Limit(i) \in Nat /\ Limit(i) > 0
BY BoundsAssumption DEF Limit

\* An insert starts a new count.
LEMMA InsertCounts ==
    ASSUME TypeOK, IdsIssued, NEW s \in Strands \cup {NoStrand}, NEW due \in BOOLEAN,
           Insert(s, due)
    PROVE  SameCounts
<1>1. /\ nextId \in Ids /\ nextId \notin table /\ table \subseteq Ids
      /\ nextId' = nextId + 1 /\ nextId \in Nat
      BY BoundsAssumption DEF Insert, IdsIssued, TypeOK, Ids
<1>2. /\ table' = table \cup {nextId}
      /\ row'[nextId] = NewRow(s, s = NoStrand \/ RowsOn(s) = {}, due)
      /\ \A i \in table : row'[i] = row[i]
      BY <1>1 DEF Insert, TypeOK
<1>3. row'[nextId].attempts = 0
      BY <1>2 DEF NewRow
<1>4. nextId <= nextId'
      BY <1>1
<1> QED BY <1>2, <1>3, <1>4 DEF SameCounts

\* A change that adds no row and leaves the columns attempts and strand.
LEMMA UpdateCounts ==
    ASSUME TypeOK, table' \subseteq table, nextId' = nextId,
           \A i \in table : /\ row'[i].attempts = row[i].attempts
                            /\ row'[i].strand = row[i].strand
    PROVE  SameCounts
<1>1. nextId <= nextId'
      BY BoundsAssumption DEF TypeOK
<1> QED BY <1>1 DEF SameCounts

\* A delete counts nothing,
LEMMA DeleteCounts ==
    ASSUME TypeOK, NEW D, Delete(D), nextId' = nextId
    PROVE  SameCounts
<1>1. \A i \in table : i \in Ids /\ row[i] \in Row
      BY DEF TypeOK
<1>2. \A i \in table : /\ row'[i].attempts = row[i].attempts
                       /\ row'[i].strand = row[i].strand
      BY <1>1 DEF Delete, Row
<1>3. table' \subseteq table
      BY DEF Delete
<1> QED BY <1>2, <1>3, UpdateCounts

\* nor does an unlock,
LEMMA UnlockCounts ==
    ASSUME TypeOK, NEW U, Unlock(U), nextId' = nextId
    PROVE  SameCounts
<1>1. \A i \in table : i \in Ids /\ row[i] \in Row
      BY DEF TypeOK
<1>2. \A i \in table : /\ row'[i].attempts = row[i].attempts
                       /\ row'[i].strand = row[i].strand
      BY <1>1 DEF Unlock, Row
<1>3. table' \subseteq table
      BY DEF Unlock
<1> QED BY <1>2, <1>3, UpdateCounts

\* nor create_singleton, whichever way it goes.
LEMMA CreateCounts ==
    ASSUME TypeOK, IdsIssued, NEW s \in Singletons, NEW due \in BOOLEAN,
           CreateSingleton(s, due)
    PROVE  SameCounts
<1>1. CASE UNCHANGED <<table, row, nextId>>
      BY <1>1, UpdateCounts
<1>2. CASE Insert(s, due)
      BY <1>2, InsertCounts, StrandsAssumption
<1> QED BY <1>1, <1>2 DEF CreateSingleton

\* A retry writes the count after the one of the copy, below the limit; a job
\* given up is out of the table.
LEMMA RescheduleCounts ==
    ASSUME TypeOK, NEW i \in table, NEW att \in Nat, NEW keep \in BOOLEAN,
           Reschedule(i, att, keep)
    PROVE  /\ table' \subseteq table
           /\ \A k \in table : row'[k].strand = row[k].strand
           /\ \A k \in table : k # i => row'[k].attempts = row[k].attempts
           /\ i \in table' => row'[i].attempts = att + 1 /\ att + 1 < Limit(i)
<1>t. table \subseteq Ids /\ row \in [Ids -> Row] /\ \A k \in table : row[k] \in Row
      BY DEF TypeOK
<1>1. CASE Exhausted(i, att)
  <2>1. Delete({i})
        BY <1>1 DEF Reschedule
  <2>2. \A k \in table : row'[k].attempts = row[k].attempts /\ row'[k].strand = row[k].strand
        BY <1>t, <2>1 DEF Delete, Row
  <2>3. table' \subseteq table /\ i \notin table'
        BY <2>1 DEF Delete
  <2> QED BY <2>2, <2>3
<1>2. CASE ~Exhausted(i, att)
  <2>1. table' = table
        BY <1>2 DEF Reschedule
  <2>2. \A k \in table : k # i => row'[k] = row[k]
        BY <1>2, <1>t DEF Reschedule
  <2>3. row'[i] = [row[i] EXCEPT !.by = Nobody, !.old = FALSE,
                                 !.attempts = att + 1, !.due = FALSE]
        BY <1>2, <1>t DEF Reschedule
  <2>4. row'[i].attempts = att + 1 /\ row'[i].strand = row[i].strand
        BY <1>t, <2>3 DEF Row
  <2>5. att + 1 < Limit(i)
        BY <1>2, <1>t, LimitIsPositive DEF Exhausted
  <2> QED BY <2>1, <2>2, <2>4, <2>5
<1> QED BY <1>1, <1>2

-----------------------------------------------------------------------------
(* The steps that fail no job count nothing.                               *)

\* Steps that leave the processes alone.
LEMMA OthersCount ==
    ASSUME CoreInv, EnqueueNext \/ (\E s \in Periodic : Audit(s)) \/ TimeNext
    PROVE  SameCounts /\ SameCopies
<1> USE DEF CoreInv, TypeInv, StrandInv
<1>1. UNCHANGED proc
      BY DEF EnqueueNext, Enqueue, EnqueueSingleton, Audit, TimeNext, BecomeDue
<1>2. SameCopies
      BY <1>1 DEF SameCopies, Working
<1>3. ASSUME NEW s \in Strands \cup {NoStrand}, NEW due \in BOOLEAN, Enqueue(s, due)
      PROVE  SameCounts
      BY <1>3, InsertCounts DEF Enqueue
<1>4. ASSUME NEW s \in Singletons, NEW due \in BOOLEAN, EnqueueSingleton(s, due)
      PROVE  SameCounts
      BY <1>4, CreateCounts DEF EnqueueSingleton
<1>5. ASSUME NEW s \in Periodic, Audit(s)
      PROVE  SameCounts
      BY <1>5, CreateCounts, StrandsAssumption DEF Audit
<1>6. ASSUME NEW i \in Ids, BecomeDue(i)
      PROVE  SameCounts
  <2>1. \A k \in table : k \in Ids /\ row[k] \in Row /\ row \in [Ids -> Row]
        BY DEF TypeOK
  <2>2. \A k \in table : row'[k].attempts = row[k].attempts /\ row'[k].strand = row[k].strand
        BY <1>6, <2>1 DEF BecomeDue, Row
  <2>3. table' = table /\ nextId' = nextId
        BY <1>6 DEF BecomeDue
  <2> QED BY <2>2, <2>3, UpdateCounts
<1> QED BY <1>2, <1>3, <1>4, <1>5, <1>6 DEF EnqueueNext, TimeNext

\* A worker's step that does not end in a failure.
LEMMA WorkerCounts ==
    ASSUME CoreInv, NEW p \in Pids,
           \/ Find(p) \/ FindNothing(p) \/ Lock(p)
           \/ \E ok \in BOOLEAN : Perform(p, ok)
           \/ Complete(p) \/ DestroyRaises(p)
           \/ Loop(p) \/ Exit(p) \/ Abort(p) \/ Crash(p),
           stale' = stale \cup {i \in Ids : LocksOldCopy(i)}
    PROVE  SameCounts /\ SameCopies
<1> USE DEF CoreInv, TypeInv, StrandInv
<1>t. proc[p] \in Proc /\ proc \in [Pids -> Proc]
      BY DEF TypeOK
<1>0. ASSUME UNCHANGED <<table, row, nextId>> PROVE SameCounts
      BY <1>0, UpdateCounts
<1>c. ASSUME NEW r, proc' = [proc EXCEPT ![p] = r],
             r.st \in {"run", "ran"} /\ r.job \notin stale' =>
                 \/ Working(p) /\ r.job = proc[p].job /\ r.att = proc[p].att
                 \/ r.job \in table /\ r.att = row[r.job].attempts
      PROVE  SameCopies
  <2>1. \A q \in Pids : proc'[q] = IF q = p THEN r ELSE proc[q]
        BY <1>c, <1>t
  <2> QED BY <1>c, <2>1 DEF SameCopies, Working
<1>1. CASE Find(p)
  <2>1. PICK i \in Ids : /\ Ready(i)
                         /\ proc' = [proc EXCEPT ![p].st = "locking", ![p].job = i,
                                                 ![p].att = row[i].attempts]
        BY <1>1 DEF Find
  <2>2. PICK r : r = [proc[p] EXCEPT !.st = "locking", !.job = i, !.att = row[i].attempts]
        OBVIOUS
  <2>3. r.st = "locking"
        BY <1>t, <2>2 DEF Proc
  <2>4. proc' = [proc EXCEPT ![p] = r]
        BY <2>1, <2>2
  <2>5. SameCopies
        BY <1>c, <2>3, <2>4
  <2> QED BY <1>0, <1>1, <2>5 DEF Find
<1>2. CASE FindNothing(p) \/ Loop(p)
  <2>1. PICK t \in {"idle", "check"} : proc' = [proc EXCEPT ![p].st = t]
        BY <1>2 DEF FindNothing, Loop
  <2>2. PICK r : r = [proc[p] EXCEPT !.st = t]
        OBVIOUS
  <2>3. r.st = t
        BY <1>t, <2>2 DEF Proc
  <2>4. proc' = [proc EXCEPT ![p] = r]
        BY <2>1, <2>2
  <2>5. SameCopies
        BY <1>c, <2>3, <2>4
  <2> QED BY <1>0, <1>2, <2>5 DEF FindNothing, Loop
<1>3. CASE Lock(p)
  <2>1. CASE CanLock(proc[p].job)
    <3> DEFINE i == proc[p].job
    <3>1. /\ row' = [row EXCEPT ![i].by = p, ![i].old = FALSE]
          /\ proc' = [proc EXCEPT ![p].st = "run"]
          /\ UNCHANGED <<table, nextId>> /\ proc[p].st = "locking"
          BY <1>3, <2>1 DEF Lock
    <3>2. PICK r : r = [proc[p] EXCEPT !.st = "run"]
          OBVIOUS
    <3>3. r.job = proc[p].job /\ r.att = proc[p].att
          BY <1>t, <3>2 DEF Proc
    <3>4. proc' = [proc EXCEPT ![p] = r] /\ i \in table /\ i \in Ids
          BY <2>1, <3>1, <3>2 DEF CanLock, TypeOK
    <3>5. i \notin stale' => proc[p].att = row[i].attempts
          BY <1>3, <2>1, <3>4 DEF LocksOldCopy
    <3>6. SameCopies
          BY <1>c, <3>3, <3>4, <3>5
    <3> HIDE DEF i
    <3>7. \A k \in table : k \in Ids /\ row[k] \in Row /\ row \in [Ids -> Row]
          BY DEF TypeOK
    <3>8. \A k \in table : row'[k].attempts = row[k].attempts /\ row'[k].strand = row[k].strand
          BY <3>1, <3>7 DEF Row
    <3> QED BY <3>1, <3>6, <3>8, UpdateCounts
  <2>2. CASE ~CanLock(proc[p].job)
    <3>1. PICK r : r = [proc[p] EXCEPT !.st = "idle", !.job = NoJob, !.att = 0]
          OBVIOUS
    <3>2. r.st = "idle"
          BY <1>t, <3>1 DEF Proc
    <3>3. proc' = [proc EXCEPT ![p] = r] /\ UNCHANGED <<table, row, nextId>>
          BY <1>3, <2>2, <3>1 DEF Lock
    <3> QED BY <1>0, <1>c, <3>2, <3>3
  <2> QED BY <2>1, <2>2
<1>4. ASSUME NEW ok \in BOOLEAN, Perform(p, ok)
      PROVE  SameCounts /\ SameCopies
  <2>1. PICK r : r = [proc[p] EXCEPT !.st = "ran", !.ok = ok]
        OBVIOUS
  <2>2. r.job = proc[p].job /\ r.att = proc[p].att
        BY <1>t, <2>1 DEF Proc
  <2>3. proc' = [proc EXCEPT ![p] = r] /\ Working(p)
        BY <1>4, <2>1 DEF Perform, Working
  <2>4. SameCounts
        BY <1>0, <1>4, CreateCounts, StrandsAssumption DEF Perform
  <2> QED BY <1>c, <2>2, <2>3, <2>4
<1>5. CASE Complete(p)
  <2>1. PICK r : r = [proc[p] EXCEPT !.st = "check", !.job = NoJob, !.att = 0]
        OBVIOUS
  <2>2. r.st = "check"
        BY <1>t, <2>1 DEF Proc
  <2>3. proc' = [proc EXCEPT ![p] = r] /\ Delete({proc[p].job}) /\ nextId' = nextId
        BY <1>5, <2>1 DEF Complete
  <2> QED BY <1>c, <2>2, <2>3, DeleteCounts
<1>6. CASE DestroyRaises(p)
  <2>1. PICK r : r = [proc[p] EXCEPT !.ok = FALSE]
        OBVIOUS
  <2>2. r.job = proc[p].job /\ r.att = proc[p].att
        BY <1>t, <2>1 DEF Proc
  <2>3. proc' = [proc EXCEPT ![p] = r] /\ Working(p)
        BY <1>6, <2>1 DEF DestroyRaises, Working
  <2> QED BY <1>0, <1>c, <1>6, <2>2, <2>3 DEF DestroyRaises
<1>7. CASE Exit(p) \/ Abort(p) \/ Crash(p)
  <2>1. proc' = [proc EXCEPT ![p] = Dead(p)]
        BY <1>7 DEF Exit, Abort, Crash
  <2>2. Dead(p).st \in {"none", "zombie"}
        BY DEF Dead, NoProc
  <2>3. SameCopies
        BY <1>c, <2>1, <2>2
  <2>4. SameCounts
        BY <1>0, <1>7, UnlockCounts DEF Exit, Abort, Crash
  <2> QED BY <2>3, <2>4
<1> QED BY <1>1, <1>2, <1>3, <1>4, <1>5, <1>6, <1>7

\* A step of the pool that is no round of a sweep.
LEMMA PoolCounts ==
    ASSUME CoreInv, PoolStart \/ SweepDone \/ \E p \in Pids : Reap(p) \/ Spawn(p)
    PROVE  SameCounts /\ SameCopies
<1> USE DEF CoreInv, TypeInv
<1>1. UNCHANGED <<table, row, nextId>>
      BY DEF PoolStart, SweepDone, Reap, Spawn
<1>2. SameCounts
      BY <1>1, UpdateCounts
<1>3. \A p \in Pids : Working(p)' => Working(p) /\ proc'[p] = proc[p]
  <2>1. proc \in [Pids -> Proc]
        BY DEF TypeOK
  <2>2. NoProc.st = "none"
        BY DEF NoProc
  <2>3. CASE PoolStart \/ SweepDone
        BY <2>3 DEF PoolStart, SweepDone, Working
  <2>4. ASSUME NEW p \in Pids, Reap(p)
        PROVE  \A q \in Pids : Working(q)' => Working(q) /\ proc'[q] = proc[q]
        BY <2>1, <2>2, <2>4 DEF Reap, Working
  <2>5. ASSUME NEW p \in Pids, Spawn(p)
        PROVE  \A q \in Pids : Working(q)' => Working(q) /\ proc'[q] = proc[q]
    <3>1. PICK r : r = [NoProc EXCEPT !.st = "idle", !.own = TRUE]
          OBVIOUS
    <3>2. r.st = "idle"
          BY <3>1 DEF NoProc
    <3>3. proc' = [proc EXCEPT ![p] = r]
          BY <2>5, <3>1 DEF Spawn
    <3> QED BY <2>1, <3>2, <3>3 DEF Working
  <2> QED BY <2>3, <2>4, <2>5
<1>4. SameCopies
      BY <1>3 DEF SameCopies
<1> QED BY <1>2, <1>4

-----------------------------------------------------------------------------
(* A failure is counted once, and from a true copy unless the job was      *)
(* locked from an old one.                                                 *)

\* What a step in which job i fails does.
Failure(i) == /\ i \in table /\ UNCHANGED nextId
              /\ \E keep \in BOOLEAN, att \in Nat :
                    /\ i \notin stale => att = row[i].attempts
                    /\ Reschedule(i, att, keep)
              /\ \A k \in Ids : Fails(k) => k = i
              /\ \A q \in Pids : Working(q)' => /\ Working(q) /\ proc[q].job # i
                                                /\ proc'[q] = proc[q]

\* A worker fails the job it performed.
LEMMA WorkerFails ==
    ASSUME CoreInv, Counted, NEW p \in Pids, HandleFailedJob(p)
    PROVE  Failure(proc[p].job)
<1> USE DEF CoreInv, TypeInv
<1> DEFINE i == proc[p].job
<1>t. proc[p] \in Proc /\ proc \in [Pids -> Proc] /\ pool \in Pool
      BY DEF TypeOK
<1>1. proc[p].st = "ran" /\ proc[p].att \in Nat
      BY <1>t DEF HandleFailedJob, Proc
<1>2. i \in table /\ row[i].by = p
      BY <1>1 DEF Ownership, Owns, Working
<1>3. i \notin stale => proc[p].att = row[i].attempts
      BY <1>1 DEF Counted, Working
<1>4. UNCHANGED <<nextId, pool>>
      BY DEF HandleFailedJob
<1>5. \E keep \in BOOLEAN : Reschedule(i, proc[p].att, keep)
      BY DEF HandleFailedJob
<1>6. PICK r : /\ r.st = "check"
               /\ proc'[p] = r
               /\ \A q \in Pids : q # p => proc'[q] = proc[q]
  <2>1. PICK r : r = [proc[p] EXCEPT !.st = "check", !.job = NoJob, !.att = 0, !.ok = TRUE]
        OBVIOUS
  <2>2. r.st = "check"
        BY <1>t, <2>1 DEF Proc
  <2>3. proc' = [proc EXCEPT ![p] = r]
        BY <2>1 DEF HandleFailedJob
  <2> QED BY <1>t, <2>2, <2>3
<1>7. \A o \in pool.orphans : ~SweepOne(o)
  <2> SUFFICES ASSUME NEW o \in pool.orphans, SweepOne(o) PROVE FALSE
      OBVIOUS
  <2>1. pool'.orphans = pool.orphans \ {o}
        BY <1>t DEF SweepOne, Pool
  <2> QED BY <1>4, <2>1
<1>8. ASSUME NEW q \in Pids, HandleFailedJob(q) PROVE q = p
  <2>1. PICK n : n = [proc[q] EXCEPT !.st = "check", !.job = NoJob, !.att = 0, !.ok = TRUE]
        OBVIOUS
  <2>2. n.st = "check" /\ proc[q].st = "ran"
        BY <1>t, <1>8, <2>1 DEF Proc, HandleFailedJob
  <2>3. proc'[q] = n
        BY <1>t, <1>8, <2>1 DEF HandleFailedJob
  <2> QED BY <1>6, <2>2, <2>3
<1>9. \A k \in Ids : Fails(k) => k = i
      BY <1>7, <1>8 DEF Fails
<1>10. ASSUME NEW q \in Pids, Working(q)'
       PROVE  Working(q) /\ proc[q].job # i /\ proc'[q] = proc[q]
  <2>1. proc'[q] = proc[q] /\ q # p
        BY <1>6, <1>10 DEF Working
  <2>2. Working(q)
        BY <1>10, <2>1 DEF Working
  <2>3. row[proc[q].job].by = q
        BY <2>2 DEF Ownership, Owns
  <2> QED BY <1>2, <2>1, <2>2, <2>3
<1> HIDE DEF i
<1> QED BY <1>1, <1>2, <1>3, <1>4, <1>5, <1>9, <1>10 DEF Failure, i

\* A round of a sweep fails the job of a dead worker.
LEMMA SweepFails ==
    ASSUME CoreInv, NEW o \in pool.orphans, SweepOne(o)
    PROVE  Failure(o.id)
<1> USE DEF CoreInv, TypeInv
<1>t. proc \in [Pids -> Proc] /\ pool \in Pool /\ o \in Orphan
      BY DEF TypeOK, Pool
<1>1. /\ o.id \in table /\ row[o.id].attempts = o.att /\ row[o.id].by = o.pid
      /\ proc[o.pid].st = "none" /\ o.att \in Nat
      BY <1>t DEF Ownership, OrphansDead, Orphan
<1>2. Reschedule(o.id, o.att, TRUE) /\ UNCHANGED <<nextId, proc>>
      BY <1>1 DEF SweepOne, Alive
<1>3. ASSUME NEW q \in Pids PROVE ~HandleFailedJob(q)
  <2>1. PICK r : r = [proc[q] EXCEPT !.st = "check", !.job = NoJob, !.att = 0, !.ok = TRUE]
        OBVIOUS
  <2>2. r.st = "check"
        BY <1>t, <2>1 DEF Proc
  <2> QED BY <1>t, <1>2, <2>1, <2>2 DEF HandleFailedJob
<1>4. pool'.orphans = pool.orphans \ {o}
      BY <1>t DEF SweepOne, Pool
<1>5. ASSUME NEW u \in pool.orphans, SweepOne(u) PROVE u = o
  <2>1. pool'.orphans = pool.orphans \ {u}
        BY <1>t, <1>5 DEF SweepOne, Pool
  <2> QED BY <1>4, <1>5, <2>1
<1>6. \A k \in Ids : Fails(k) => k = o.id
      BY <1>3, <1>5 DEF Fails
<1>7. ASSUME NEW q \in Pids, Working(q)'
      PROVE  Working(q) /\ proc[q].job # o.id /\ proc'[q] = proc[q]
  <2>1. Working(q)
        BY <1>2, <1>7 DEF Working
  <2>2. row[proc[q].job].by = q /\ q # o.pid
        BY <1>1, <2>1 DEF Ownership, Owns, Working
  <2> QED BY <1>1, <1>2, <2>1, <2>2
<1> QED BY <1>1, <1>2, <1>6, <1>7 DEF Failure

\* Counted is kept by a failure,
LEMMA FailureKeeps ==
    ASSUME CoreInv, Counted, NEW i \in Ids, Failure(i), Fails(i), RetryNext
    PROVE  Counted'
<1> USE DEF CoreInv, TypeInv
<1>t. table \subseteq Ids /\ Ids \subseteq Nat /\ i \in table /\ nextId' = nextId
      BY DEF TypeOK, Failure, Ids
<1>1. /\ i \notin stale => row[i].attempts = fails[i]
      /\ fails[i] \in Nat /\ stale \subseteq stale'
      BY <1>t DEF Counted, RetryNext
<1>2. fails' = [k \in Ids |-> IF k = i THEN fails[k] + 1 ELSE fails[k]]
      BY DEF RetryNext, Failure
<1>3. PICK keep \in BOOLEAN, att \in Nat : /\ i \notin stale => att = row[i].attempts
                                           /\ Reschedule(i, att, keep)
      BY DEF Failure
<1>4. /\ table' \subseteq table
      /\ \A k \in table : row'[k].strand = row[k].strand
      /\ \A k \in table : k # i => row'[k].attempts = row[k].attempts
      /\ i \in table' \ stale => row'[i].attempts = fails[i] + 1 /\ fails[i] + 1 < Limit(i)
      BY <1>t, <1>1, <1>3, RescheduleCounts
<1>5. fails' \in [Ids -> Nat]
      BY <1>2 DEF Counted
<1>6. \A k \in table' \ stale' : row'[k].attempts = fails'[k] /\ fails'[k] < Limit(k)'
  <2> SUFFICES ASSUME NEW k \in table' \ stale'
               PROVE  row'[k].attempts = fails'[k] /\ fails'[k] < Limit(k)'
      OBVIOUS
  <2>1. k \in table /\ k \in Ids /\ k \notin stale
        BY <1>1, <1>4, <1>t
  <2>2. Limit(k)' = Limit(k)
        BY <1>4, <2>1 DEF Limit
  <2>3. CASE k = i
        BY <1>2, <1>4, <2>1, <2>2, <2>3
  <2>4. CASE k # i
        BY <1>2, <1>4, <2>1, <2>2, <2>4 DEF Counted
  <2> QED BY <2>3, <2>4
<1>7. ASSUME NEW k \in Ids, k >= nextId' PROVE fails'[k] = 0
  <2>1. i < nextId /\ nextId \in Nat
        BY <1>t, BoundsAssumption DEF StrandInv, IdsIssued, TypeOK
  <2>2. k # i
        BY <1>t, <1>7, <2>1
  <2> QED BY <1>2, <1>7, <1>t, <2>2 DEF Counted
<1>8. ASSUME NEW p \in Pids, Working(p)', proc'[p].job \notin stale'
      PROVE  proc'[p].att = row'[proc'[p].job].attempts
  <2>1. Working(p) /\ proc[p].job # i /\ proc'[p] = proc[p]
        BY <1>8 DEF Failure
  <2>2. proc[p].job \in table /\ proc[p].att = row[proc[p].job].attempts
        BY <1>1, <1>8, <2>1 DEF Counted, Ownership, Owns
  <2> QED BY <1>4, <2>1, <2>2
<1> QED BY <1>5, <1>6, <1>7, <1>8 DEF Counted

\* and by a step in which no job fails.
LEMMA SameKeeps ==
    ASSUME CoreInv, CoreInv', Counted, SameCounts, SameCopies, fails' = fails,
           stale \subseteq stale'
    PROVE  Counted'
<1> USE DEF CoreInv, TypeInv
<1>t. table \subseteq Ids /\ Ids \subseteq Nat /\ nextId \in Nat /\ \A k \in table : k < nextId
      BY BoundsAssumption DEF TypeOK, Ids, StrandInv, IdsIssued
<1>1. \A k \in table' \ stale' : row'[k].attempts = fails'[k] /\ fails'[k] < Limit(k)'
  <2> SUFFICES ASSUME NEW k \in table' \ stale'
               PROVE  row'[k].attempts = fails[k] /\ fails[k] < Limit(k)'
      OBVIOUS
  <2>1. CASE k \in table
    <3>1. row'[k].attempts = row[k].attempts /\ Limit(k)' = Limit(k)
          BY <2>1 DEF SameCounts, Limit
    <3> QED BY <2>1, <3>1 DEF Counted
  <2>2. CASE k \notin table
    <3>1. k = nextId /\ row'[k].attempts = 0
          BY <2>2 DEF SameCounts
    <3>2. k \in Ids /\ k >= nextId
          BY <1>t, <3>1 DEF TypeOK
    <3>3. fails[k] = 0
          BY <3>2 DEF Counted
    <3>4. Limit(k)' > 0
          BY BoundsAssumption DEF Limit
    <3> QED BY <3>1, <3>3, <3>4
  <2> QED BY <2>1, <2>2
<1>2. \A k \in Ids : k >= nextId' => k >= nextId
  <2>1. nextId <= nextId'
        BY DEF SameCounts
  <2>2. nextId' \in Nat
        BY BoundsAssumption DEF TypeOK
  <2>3. \A k, a, b \in Nat : a <= b /\ k >= b => k >= a
        OBVIOUS
  <2> QED BY <1>t, <2>1, <2>2, <2>3
<1>3. ASSUME NEW p \in Pids, Working(p)', proc'[p].job \notin stale'
      PROVE  proc'[p].att = row'[proc'[p].job].attempts
  <2>1. proc'[p].job \in table'
        BY <1>3 DEF Ownership, Owns
  <2>2. proc'[p].job \in table
        /\ proc'[p].att = row[proc'[p].job].attempts
    <3>1. CASE Working(p) /\ proc'[p].job = proc[p].job /\ proc'[p].att = proc[p].att
          BY <1>3, <3>1 DEF Counted, Ownership, Owns
    <3> QED BY <1>3, <3>1 DEF SameCopies
  <2> QED BY <2>1, <2>2 DEF SameCounts
<1> QED BY <1>1, <1>2, <1>3 DEF Counted

\* The count of failures is the attempts of the row: a step either fails one
\* job, or counts nothing.
LEMMA CountedStep ==
    ASSUME CoreInv, CoreInv', Counted, [RetryNext]_retryVars
    PROVE  Counted'
<1>t. \A p \in Pids : proc[p].st \in {"locking", "run", "ran"} => proc[p].job \in Ids
      BY DEF CoreInv, TypeInv, JobInHand
<1>o. \A o \in pool.orphans : o.id \in Ids
      BY DEF CoreInv, TypeInv, TypeOK, Pool, Orphan
<1>1. CASE UNCHANGED retryVars
      BY <1>1 DEF Counted, Working, Limit, vars, retryVars
<1>2. ASSUME RetryNext, NEW p \in Pids, HandleFailedJob(p) PROVE Counted'
  <2>1. proc[p].job \in Ids
        BY <1>t, <1>2 DEF HandleFailedJob
  <2>2. Fails(proc[p].job)
        BY <1>2 DEF Fails
  <2>3. Failure(proc[p].job)
        BY <1>2, WorkerFails
  <2> QED BY <1>2, <2>1, <2>2, <2>3, FailureKeeps
<1>3. ASSUME RetryNext, NEW o \in pool.orphans, SweepOne(o) PROVE Counted'
  <2>1. Fails(o.id)
        BY <1>3 DEF Fails
  <2>2. Failure(o.id)
        BY <1>3, SweepFails
  <2> QED BY <1>3, <1>o, <2>1, <2>2, FailureKeeps
<1>4. ASSUME RetryNext, \A p \in Pids : ~HandleFailedJob(p),
             \A o \in pool.orphans : ~SweepOne(o)
      PROVE  Counted'
  <2>1. \A i \in Ids : ~Fails(i)
        BY <1>4 DEF Fails
  <2>2. fails' = fails /\ stale' = stale \cup {i \in Ids : LocksOldCopy(i)}
        BY <1>4, <2>1 DEF RetryNext, Counted
  <2>3. SameCounts /\ SameCopies
    <3>1. CASE EnqueueNext \/ TimeNext \/ \E s \in Periodic : Audit(s)
          BY <3>1, OthersCount
    <3>2. CASE WorkerNext
          BY <1>4, <2>2, <3>2, WorkerCounts DEF WorkerNext
    <3>3. CASE PoolStart \/ SweepDone \/ \E p \in Pids : Reap(p) \/ Spawn(p)
          BY <3>3, PoolCounts
    <3> QED BY <1>4, <3>1, <3>2, <3>3 DEF RetryNext, CoreNext, PoolNext
  <2> QED BY <2>2, <2>3, SameKeeps
<1> QED BY <1>1, <1>2, <1>3, <1>4

\* A job that is still in the queue failed fewer times than it may be attempted,
\* for any number of workers, jobs and strands and any limit, wherever workers die:
\* a failure is counted once, by the worker or by the sweep, unless a worker locked
\* the job from a copy older than a failure (base.rb:132).
THEOREM FailuresWithinLimit == RetrySpec => []FailuresBounded
<1>1. RetrySpec => CoreSpec
  <2>1. RetryInit => Init
        BY DEF RetryInit
  <2>2. [RetryNext]_retryVars => [CoreNext]_vars
        BY DEF RetryNext, retryVars
  <2> QED BY <2>1, <2>2, PTL DEF RetrySpec, CoreSpec
<1>2. RetryInit => Counted
  <2> SUFFICES ASSUME RetryInit PROVE Counted
      OBVIOUS
  <2>1. /\ table = {} /\ proc = [p \in Pids |-> NoProc]
        /\ fails = [i \in Ids |-> 0]
        BY DEF RetryInit, Init
  <2>2. \A p \in Pids : ~Working(p)
        BY <2>1 DEF Working, NoProc
  <2> QED BY <2>1, <2>2 DEF Counted
<1>3. CoreInv /\ CoreInv' /\ Counted /\ [RetryNext]_retryVars => Counted'
      BY CountedStep
<1>4. Counted => FailuresBounded
      BY DEF Counted, FailuresBounded
<1> QED BY <1>1, <1>2, <1>3, <1>4, CoreInvariant, PTL DEF RetrySpec

=============================================================================
