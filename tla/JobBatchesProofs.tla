--------------------------- MODULE JobBatchesProofs ---------------------------
(***************************************************************************)
(* Theorems about JobBatches, for any jobs, workers, limits and number of  *)
(* ids: with every action, no item of a batch is lost; while no worker     *)
(* dies, no item returns twice and the items are begun in order.           *)
(***************************************************************************)
EXTENDS JobBatches, SequenceTheorems, TLAPS

\* A worker is between the creation of an item of its batch and its outcome.
AtHand(p) == proc[p].st \in {"item", "ran"}
HeldInBatch(i) == \E p \in Pids : InBatch(p) /\ AtHand(p) /\ proc[p].item.id = i

\* Item k needs no batch: as Settled, but a row that a batch still has at
\* hand does not count, since fail! may destroy it without a trace.
Settles(k) == \/ done[k] > 0
              \/ k \in dropped
              \/ \E i \in table : row[i].items = <<k>> /\ ~HeldInBatch(i)

\* Every row ever inserted has an item, and its items never change.
RowsIssued == /\ \A i \in table : i < nextId
              /\ \A i \in Ids : i < nextId => Len(row[i].items) >= 1
CopyIn(c, r, n) == c.id \in Ids /\ c.id < n /\ c.items = r[c.id].items
CopyOf(c) == CopyIn(c, row, nextId)

\* What process p has in hand are copies of rows; and the items its batch has
\* passed need the batch no more, while the one at hand does.
InHand(p) ==
    /\ InBatch(p) => /\ proc[p].st \in {"batch", "item", "ran", "failed"}
                     /\ CopyOf(proc[p].batch)
                     /\ Len(proc[p].batch.items) # 1
                     /\ proc[p].pos <= Len(proc[p].batch.items)
    /\ proc[p].st \in {"batch", "failed"} => InBatch(p)
    /\ AtHand(p) => CopyOf(proc[p].item) /\ Len(proc[p].item.items) = 1
    /\ proc[p].st = "ran" /\ proc[p].ok => done[proc[p].item.items[1]] > 0
ItemAtHand(p) ==
    InBatch(p) /\ AtHand(p) =>
        /\ proc[p].pos >= 1
        /\ proc[p].item.items = <<proc[p].batch.items[proc[p].pos]>>
        /\ \/ proc[p].item.id \in table
           \/ done[proc[p].item.items[1]] > 0
           \/ proc[p].item.items[1] \in dropped
Passed(p) ==
    /\ proc[p].st = "batch" =>
           \A n \in 1..proc[p].pos : Settles(proc[p].batch.items[n])
    /\ InBatch(p) /\ AtHand(p) =>
           \A n \in 1..(proc[p].pos - 1) : Settles(proc[p].batch.items[n])
BatchThere(p) ==
    InBatch(p) => \/ proc[p].batch.id \in table
                  \/ \A k \in ItemsOf(proc[p].batch) : Settles(k)
ProcInv(p) == InHand(p) /\ ItemAtHand(p) /\ Passed(p) /\ BatchThere(p)

\* No two batches have the same row at hand.
ItemsApart == \A p, q \in Pids :
    InBatch(p) /\ InBatch(q) /\ AtHand(p) /\ AtHand(q) /\ proc[p].item.id = proc[q].item.id
        => p = q

BatchInv == /\ TypeOK
            /\ RowsIssued
            /\ \A p \in Pids : ProcInv(p)
            /\ \A o \in pool.orphans : CopyOf(o.copy)
            /\ ItemsApart
            /\ ItemsKept

-----------------------------------------------------------------------------
(* Types.                                                                  *)

\* The ways a row is updated.
LEMMA RowUpdates ==
    \A r \in Row :
        /\ [r EXCEPT !.by = Nobody, !.old = FALSE] \in Row
        /\ \A p \in Pids : [r EXCEPT !.by = p, !.old = FALSE] \in Row
        /\ \A n \in Nat : [r EXCEPT !.by = Nobody, !.old = FALSE,
                                     !.attempts = n, !.due = FALSE] \in Row
        /\ [r EXCEPT !.due = TRUE] \in Row
        /\ [r EXCEPT !.old = TRUE] \in Row
BY DEF Row

\* A new row is one, with the items given.
LEMMA NewRowType ==
    \A items \in Seq(Items), by \in Pids \cup {Nobody}, due \in BOOLEAN :
        NewRow(items, by, due) \in Row /\ NewRow(items, by, due).items = items
BY DEF NewRow, Row

\* What an insert does.
LEMMA InsertFacts ==
    ASSUME TypeOK, NEW r \in Row, Insert(r)
    PROVE  /\ nextId \in Ids /\ nextId \in Nat /\ nextId' = nextId + 1
           /\ nextId' \in 1..(MaxId + 1)
           /\ table' = table \cup {nextId}
           /\ table' \in SUBSET Ids
           /\ row' \in [Ids -> Row]
           /\ row'[nextId] = r
           /\ \A i \in Ids : i # nextId => row'[i] = row[i]
BY BoundsAssumption DEF TypeOK, Insert, Ids

\* What a retry or giving up does.
LEMMA RescheduleFacts ==
    ASSUME TypeOK, NEW c \in Copy, Reschedule(c)
    PROVE  /\ nextId' = nextId
           /\ table' \in SUBSET Ids
           /\ row' \in [Ids -> Row]
           /\ \A i \in Ids : row'[i].items = row[i].items
           /\ dropped' \in SUBSET Items
           /\ \/ table' = table /\ dropped' = dropped
              \/ table' = table \ {c.id} /\ dropped' = dropped \cup ItemsOf(c)
<1>1. CASE Exhausted(c)
  <2>1. ItemsOf(c) \subseteq Items
        BY DEF ItemsOf, Copy
  <2> QED BY <1>1, <2>1 DEF Reschedule, Destroy, TypeOK
<1>2. CASE ~Exhausted(c)
  <2>1. c.att + 1 \in Nat
        BY DEF Copy
  <2>2. \A r \in Row : /\ [r EXCEPT !.by = Nobody, !.old = FALSE,
                              !.attempts = c.att + 1, !.due = FALSE] \in Row
                       /\ [r EXCEPT !.by = Nobody, !.old = FALSE,
                              !.attempts = c.att + 1, !.due = FALSE].items = r.items
        BY <2>1 DEF Row
  <2>3. row' = [row EXCEPT ![c.id] = IF c.id \in table
                   THEN [row[c.id] EXCEPT !.by = Nobody, !.old = FALSE,
                                          !.attempts = c.att + 1, !.due = FALSE]
                   ELSE row[c.id]]
        BY <1>2 DEF Reschedule
  <2> QED BY <1>2, <2>2, <2>3 DEF Reschedule, TypeOK
<1> QED BY <1>1, <1>2

\* What unlocking does.
LEMMA UnlockFacts ==
    ASSUME TypeOK, NEW U, Unlock(U)
    PROVE  /\ nextId' = nextId /\ table' = table
           /\ row' \in [Ids -> Row]
           /\ \A i \in Ids : row'[i].items = row[i].items
<1>1. \A r \in Row : /\ [r EXCEPT !.by = Nobody, !.old = FALSE] \in Row
                     /\ [r EXCEPT !.by = Nobody, !.old = FALSE].items = r.items
      BY DEF Row
<1> QED BY <1>1 DEF Unlock, TypeOK

States == {"none", "idle", "batch", "item", "ran", "failed", "check", "zombie"}

\* The process that does nothing, and the copy of no row.
LEMMA NoProcFacts == /\ NoCopy \in Copy /\ NoProc \in Proc
                     /\ NoProc.batch = NoCopy /\ NoProc.item = NoCopy
<1>1. <<>> \in Seq(Items)
      OBVIOUS
<1>2. NoCopy \in Copy
      BY <1>1 DEF NoCopy, Copy
<1> QED BY <1>2 DEF NoProc, Proc

\* The ways a process's state is updated.
IsProc(r, s, c, n, d, b) == /\ r \in Proc
                            /\ r.st = s /\ r.batch = c /\ r.pos = n
                            /\ r.item = d /\ r.ok = b

\* Every update of a process keeps its type and the other fields.
LEMMA ProcUpdates ==
    ASSUME NEW r \in Proc
    PROVE  /\ \A s \in States : IsProc([r EXCEPT !.st = s], s, r.batch, r.pos, r.item, r.ok)
           /\ \A s \in States, c \in Copy : IsProc([r EXCEPT !.st = s, !.batch = c], s, c, r.pos, r.item, r.ok)
           /\ \A s \in States, c \in Copy : IsProc([r EXCEPT !.st = s, !.item = c], s, r.batch, r.pos, c, r.ok)
           /\ \A s \in States, c \in Copy, b \in BOOLEAN : IsProc([r EXCEPT !.st = s, !.item = c, !.ok = b], s, r.batch, r.pos, c, b)
           /\ \A s \in States, c \in Copy, n \in Nat : IsProc([r EXCEPT !.st = s, !.pos = n, !.item = c], s, r.batch, n, c, r.ok)
           /\ \A s \in States, b \in BOOLEAN : IsProc([r EXCEPT !.st = s, !.ok = b], s, r.batch, r.pos, r.item, b)
           /\ IsProc([r EXCEPT !.ok = FALSE], r.st, r.batch, r.pos, r.item, FALSE)
<1> USE DEF Proc, States, IsProc
<1>1. \A s \in States : IsProc([r EXCEPT !.st = s], s, r.batch, r.pos, r.item, r.ok)
      OBVIOUS
<1>2. \A s \in States, c \in Copy : IsProc([r EXCEPT !.st = s, !.batch = c], s, c, r.pos, r.item, r.ok)
      OBVIOUS
<1>3. \A s \in States, c \in Copy : IsProc([r EXCEPT !.st = s, !.item = c], s, r.batch, r.pos, c, r.ok)
      OBVIOUS
<1>4. ASSUME NEW s \in States, NEW c \in Copy, NEW b \in BOOLEAN
      PROVE  IsProc([r EXCEPT !.st = s, !.item = c, !.ok = b], s, r.batch, r.pos, c, b)
      OBVIOUS
<1>5. ASSUME NEW s \in States, NEW c \in Copy, NEW n \in Nat
      PROVE  IsProc([r EXCEPT !.st = s, !.pos = n, !.item = c], s, r.batch, n, c, r.ok)
      OBVIOUS
<1>6. \A s \in States, b \in BOOLEAN : IsProc([r EXCEPT !.st = s, !.ok = b], s, r.batch, r.pos, r.item, b)
      OBVIOUS
<1>7. IsProc([r EXCEPT !.ok = FALSE], r.st, r.batch, r.pos, r.item, FALSE)
      OBVIOUS
<1> QED BY <1>1, <1>2, <1>3, <1>4, <1>5, <1>6, <1>7

\* The states a process starts from, whatever it was in.
LEMMA FreshProc ==
    /\ IsProc(NoProc, "none", NoCopy, 0, NoCopy, TRUE)
    /\ IsProc(Dead, "zombie", NoCopy, 0, NoCopy, TRUE)
    /\ \A s \in States : IsProc([NoProc EXCEPT !.st = s], s, NoCopy, 0, NoCopy, TRUE)
    /\ \A s \in States, c \in Copy :
           /\ IsProc([NoProc EXCEPT !.st = s, !.batch = c], s, c, 0, NoCopy, TRUE)
           /\ IsProc([NoProc EXCEPT !.st = s, !.item = c], s, NoCopy, 0, c, TRUE)
<1>1. IsProc(NoProc, "none", NoCopy, 0, NoCopy, TRUE)
      BY NoProcFacts DEF NoProc, IsProc
<1> USE NoProcFacts, ProcUpdates, <1>1
<1>2. NoProc.st = "none" /\ NoProc.batch = NoCopy /\ NoProc.pos = 0
         /\ NoProc.item = NoCopy /\ NoProc.ok = TRUE
      BY DEF IsProc
<1>3. \A s \in States : IsProc([NoProc EXCEPT !.st = s], s, NoCopy, 0, NoCopy, TRUE)
      BY <1>2
<1>4. IsProc(Dead, "zombie", NoCopy, 0, NoCopy, TRUE)
      BY <1>3 DEF Dead, States
<1>5. \A s \in States, c \in Copy :
           /\ IsProc([NoProc EXCEPT !.st = s, !.batch = c], s, c, 0, NoCopy, TRUE)
           /\ IsProc([NoProc EXCEPT !.st = s, !.item = c], s, NoCopy, 0, c, TRUE)
      BY <1>2
<1> QED BY <1>1, <1>3, <1>4, <1>5

-----------------------------------------------------------------------------
(* A step that carries the items: rows are added with their items, never   *)
(* lose them, and a row is removed only when its items have returned or    *)
(* were given up, or when it is a batch whose items need it no more, or    *)
(* when it is at hand in a batch that fails.                               *)

Gone(k) == done[k] > 0 \/ k \in dropped

Abandoned(i) == \E p \in Pids : /\ InBatch(p) /\ AtHand(p) /\ proc[p].item.id = i
                                /\ proc'[p].st = "failed"
                                /\ proc'[p].batch = proc[p].batch

RowsCarried ==
    /\ nextId <= nextId'
    /\ \A i \in Ids : i < nextId => row'[i].items = row[i].items
    /\ \A i \in Ids : nextId <= i /\ i < nextId' => i \in table' /\ Len(row'[i].items) >= 1
    /\ \A i \in table' : i \in table \/ (nextId <= i /\ i < nextId')
GoneCarried ==
    /\ \A k \in Items : done[k] > 0 => done'[k] > 0
    /\ dropped \subseteq dropped'
HeldCarried ==
    \A p \in Pids : InBatch(p)' /\ AtHand(p)' =>
           \/ InBatch(p) /\ AtHand(p) /\ proc'[p].item.id = proc[p].item.id
           \/ proc'[p].item.id = nextId /\ nextId < nextId'
Removals ==
    \A i \in table \ table' :
           \/ \A k \in ItemsOf(row[i]) : Gone(k)'
           \/ Len(row[i].items) # 1 /\ \A k \in ItemsOf(row[i]) : Settles(k)
           \/ Abandoned(i)
Carries == RowsCarried /\ GoneCarried /\ HeldCarried /\ Removals

\* The items a caller collected reach a row, or are refused.
Handed ==
    /\ refused \subseteq refused'
    /\ \A k \in Items : k \in Collected =>
           k \in Collected' \cup refused' \/ \E i \in table' : k \in ItemsOf(row'[i])

\* The ids and the items of the rows.
LEMMA IdFacts == TypeOK => /\ Ids \subseteq Nat
                           /\ nextId \in Nat
                           /\ table \subseteq Ids
                           /\ \A i \in Ids : row[i].items \in Seq(Items)
BY BoundsAssumption DEF TypeOK, Ids, Row

\* An item that needs no batch never needs one again.
LEMMA SettlesKept ==
    ASSUME BatchInv, TypeOK', Carries, NEW k \in Items, Settles(k)
    PROVE  Settles(k)'
<1>1. CASE Gone(k)
      BY <1>1 DEF Gone, Carries, GoneCarried, Settles
<1>2. CASE \E i \in table : row[i].items = <<k>> /\ ~HeldInBatch(i)
  <2>1. PICK i \in table : row[i].items = <<k>> /\ ~HeldInBatch(i)
        BY <1>2
  <2>2. i \in Ids /\ i < nextId /\ i \in Nat /\ nextId \in Nat
        BY IdFacts DEF BatchInv, RowsIssued
  <2>3. Len(row[i].items) = 1 /\ k \in ItemsOf(row[i])
        BY <2>1 DEF ItemsOf
  <2>4. \A p \in Pids : ~(InBatch(p) /\ AtHand(p) /\ proc[p].item.id = i)
        BY <2>1 DEF HeldInBatch
  <2>5. CASE i \in table'
    <3>1. row'[i].items = <<k>>
          BY <2>1, <2>2 DEF Carries, RowsCarried
    <3>2. \A p \in Pids : ~(InBatch(p)' /\ AtHand(p)' /\ proc'[p].item.id = i)
          BY <2>1, <2>2 DEF Carries, HeldCarried, HeldInBatch
    <3>3. ~HeldInBatch(i)'
          BY <3>2 DEF HeldInBatch
    <3> QED BY <2>5, <3>1, <3>3 DEF Settles
  <2>6. CASE i \notin table'
    <3>1. Gone(k)'
          BY <2>1, <2>3, <2>4, <2>6 DEF Carries, Removals, Abandoned, Gone
    <3> QED BY <3>1 DEF Gone, Settles
  <2> QED BY <2>5, <2>6
<1> QED BY <1>1, <1>2 DEF Settles, Gone

\* Copies of rows stay copies.
LEMMA CopyKept ==
    ASSUME RowsCarried, TypeOK, TypeOK', NEW c, CopyIn(c, row, nextId)
    PROVE  CopyIn(c, row', nextId')
<1>1. nextId \in Nat /\ nextId' \in Nat /\ Ids \subseteq Nat
      BY BoundsAssumption DEF TypeOK, Ids
<1>2. \A a, b, d \in Nat : a < b /\ b <= d => a < d
      OBVIOUS
<1> QED BY <1>1, <1>2 DEF CopyIn, RowsCarried

\* A batch stays in hand: it still is a copy of its row, the row is there or
\* is needed no more, and the items that were settled still are.
LEMMA BatchStays ==
    ASSUME BatchInv, TypeOK', Carries, NEW p \in Pids, InBatch(p),
           proc'[p].batch = proc[p].batch
    PROVE  /\ InBatch(p)'
           /\ CopyIn(proc'[p].batch, row', nextId')
           /\ Len(proc'[p].batch.items) # 1
           /\ BatchThere(p)'
           /\ \A n \in 1..Len(proc[p].batch.items) :
                  Settles(proc[p].batch.items[n]) => Settles(proc[p].batch.items[n])'
<1>1. ProcInv(p) /\ TypeOK /\ proc[p] \in Proc
      BY DEF BatchInv, TypeOK
<1>2. proc[p].batch \in Copy
      BY <1>1 DEF Proc
<1>3. InBatch(p)'
      BY DEF InBatch
<1>4. CopyIn(proc'[p].batch, row', nextId')
  <2>1. \A c : CopyIn(c, row, nextId) => CopyIn(c, row', nextId')
        BY <1>1, CopyKept DEF Carries
  <2> QED BY <1>1, <2>1 DEF ProcInv, InHand, CopyOf
<1>5. BatchThere(p)'
  <2>1. PICK i \in Ids : /\ i = proc[p].batch.id
                         /\ Len(row[i].items) # 1
                         /\ proc[p].batch.items = row[i].items
        BY <1>1 DEF ProcInv, InHand, CopyOf, CopyIn
  <2>2. /\ ItemsOf(proc[p].batch) = ItemsOf(row[i])
        /\ ItemsOf(proc'[p].batch) = ItemsOf(row[i])
        /\ ItemsOf(row[i]) \subseteq Items
        BY <1>2, <2>1 DEF ItemsOf, Copy
  <2>3. \A k \in Items : Settles(k) => Settles(k)'
        BY SettlesKept
  <2>4. CASE \A k \in ItemsOf(row[i]) : Settles(k)
        BY <2>2, <2>3, <2>4 DEF BatchThere
  <2>5. CASE i \in table
    <3>1. \A q \in Pids : AtHand(q) => Len(row[proc[q].item.id].items) = 1
          BY DEF BatchInv, ProcInv, InHand, CopyOf, CopyIn
    <3>2. \A q \in Pids : ~(InBatch(q) /\ AtHand(q) /\ proc[q].item.id = i)
          BY <2>1, <3>1
    <3>3. \/ i \in table'
          \/ \A k \in ItemsOf(row[i]) : Gone(k)'
          \/ \A k \in ItemsOf(row[i]) : Settles(k)
          BY <2>5, <3>2 DEF Carries, Removals, Abandoned, Gone
    <3>4. \A k \in Items : Gone(k)' => Settles(k)'
          BY DEF Gone, Settles
    <3> QED BY <2>1, <2>2, <2>3, <3>3, <3>4 DEF BatchThere
  <2> QED BY <1>1, <2>1, <2>2, <2>4, <2>5 DEF ProcInv, BatchThere
<1>6. ASSUME NEW n \in 1..Len(proc[p].batch.items), Settles(proc[p].batch.items[n])
      PROVE  Settles(proc[p].batch.items[n])'
  <2>1. PICK k \in Items : k = proc[p].batch.items[n]
        BY <1>2 DEF Copy
  <2>2. Settles(k)
        BY <1>6, <2>1
  <2>3. Settles(k)'
        BY <2>2, SettlesKept
  <2> QED BY <1>1, <2>1, <2>3
<1> QED BY <1>1, <1>3, <1>4, <1>5, <1>6 DEF ProcInv, InHand

\* What holds of a process that does not move goes on to hold.
LEMMA OthersKept ==
    ASSUME BatchInv, TypeOK', Carries, NEW p \in Pids, proc'[p] = proc[p]
    PROVE  ProcInv(p)'
<1>1. ProcInv(p) /\ TypeOK /\ proc[p] \in Proc
      BY DEF BatchInv, TypeOK
<1>2. proc[p].batch \in Copy /\ proc[p].item \in Copy /\ proc[p].pos \in Nat
      BY <1>1 DEF Proc
<1>3. (InBatch(p)' <=> InBatch(p)) /\ (AtHand(p)' <=> AtHand(p))
      BY DEF InBatch, AtHand
<1>4. \A c : CopyIn(c, row, nextId) => CopyIn(c, row', nextId')
      BY <1>1, CopyKept DEF Carries
<1>5. InHand(p)'
  <2>1. proc[p].st = "ran" /\ proc[p].ok => done'[proc[p].item.items[1]] > 0
    <3>1. AtHand(p) => proc[p].item.items[1] \in Items
          BY <1>1, <1>2 DEF ProcInv, InHand, Copy
    <3> QED BY <1>1, <3>1 DEF ProcInv, InHand, AtHand, Carries, GoneCarried
  <2>2. InBatch(p) => CopyIn(proc'[p].batch, row', nextId')
        BY <1>1, <1>4 DEF ProcInv, InHand, CopyOf
  <2>3. AtHand(p) => CopyIn(proc'[p].item, row', nextId')
        BY <1>1, <1>4 DEF ProcInv, InHand, CopyOf
  <2> QED BY <1>1, <1>3, <2>1, <2>2, <2>3 DEF ProcInv, InHand, CopyOf
<1>6. ItemAtHand(p)'
  <2> SUFFICES ASSUME InBatch(p), AtHand(p) PROVE ItemAtHand(p)'
      BY <1>3 DEF ItemAtHand
  <2>1. /\ CopyOf(proc[p].item) /\ Len(proc[p].item.items) = 1
        /\ proc[p].item.items[1] \in ItemsOf(row[proc[p].item.id])
        /\ proc[p].item.items[1] \in Items
    <3>1. /\ CopyOf(proc[p].item) /\ Len(proc[p].item.items) = 1
          /\ proc[p].item.items \in Seq(Items)
          BY <1>1, <1>2 DEF ProcInv, InHand, Copy
    <3>2. /\ proc[p].item.items[1] \in {proc[p].item.items[n] : n \in 1..Len(proc[p].item.items)}
          /\ proc[p].item.items = row[proc[p].item.id].items
          BY <3>1 DEF CopyOf, CopyIn
    <3>3. proc[p].item.items[1] \in ItemsOf(row[proc[p].item.id])
          BY <3>2 DEF ItemsOf
    <3>4. proc[p].item.items[1] \in Items
          BY <3>1
    <3> QED BY <3>1, <3>3, <3>4
  <2>2. PICK i \in Ids, k \in Items :
            /\ i = proc[p].item.id /\ k = proc[p].item.items[1]
            /\ Len(row[i].items) = 1 /\ k \in ItemsOf(row[i])
        BY <2>1 DEF CopyOf, CopyIn
  <2>3. CASE Gone(k)
        BY <1>1, <2>2, <2>3 DEF Gone, Carries, GoneCarried, ItemAtHand, ProcInv
  <2>4. CASE i \in table
    <3>1. \A q \in Pids : InBatch(q) /\ AtHand(q) /\ proc[q].item.id = i => q = p
          BY <2>2 DEF BatchInv, ItemsApart
    <3>2. \A q \in Pids : InBatch(q) /\ AtHand(q) /\ proc[q].item.id = i =>
                              proc'[q].st # "failed"
          BY <3>1 DEF AtHand
    <3>3. i \in table' \/ Gone(k)'
          BY <2>2, <2>4, <3>2 DEF Carries, Removals, Abandoned, Gone
    <3> QED BY <1>1, <2>2, <3>3 DEF Gone, ItemAtHand, ProcInv
  <2> QED BY <1>1, <2>2, <2>3, <2>4 DEF Gone, ItemAtHand, ProcInv
<1>7. Passed(p)'
  <2>1. \A n \in 1..Len(proc[p].batch.items) : proc[p].batch.items[n] \in Items
        BY <1>2 DEF Copy
  <2>2. InBatch(p) => proc[p].pos <= Len(proc[p].batch.items) /\ Len(proc[p].batch.items) \in Nat
        BY <1>1, <1>2 DEF ProcInv, InHand, Copy
  <2>3. \A n \in 1..Len(proc[p].batch.items) :
           Settles(proc[p].batch.items[n]) => Settles(proc[p].batch.items[n])'
    <3> TAKE n \in 1..Len(proc[p].batch.items)
    <3> QED BY <2>1, SettlesKept
  <2> QED BY <1>1, <1>2, <1>3, <2>2, <2>3 DEF ProcInv, InHand, Passed
<1>8. BatchThere(p)'
      BY <1>3, BatchStays DEF BatchThere
<1> QED BY <1>5, <1>6, <1>7, <1>8 DEF ProcInv

\* No item is lost in such a step.
LEMMA ItemsStay ==
    ASSUME BatchInv, TypeOK', Carries, Handed, \A p \in Pids : ProcInv(p)'
    PROVE  ItemsKept'
<1> DEFINE Stays(k) == \/ done'[k] > 0
                       \/ k \in dropped'
                       \/ k \in Collected' \cup refused'
                       \/ \E i \in table' : k \in ItemsOf(row'[i])
<1>0. TypeOK /\ RowsIssued /\ ItemsKept
      BY DEF BatchInv
<1>1. \A k \in Items : Settles(k)' => Stays(k)
  <2>1. \A k : k \in ItemsOf([items |-> <<k>>])
        BY DEF ItemsOf
  <2>2. \A r, k : r.items = <<k>> => k \in ItemsOf(r)
        BY DEF ItemsOf
  <2> QED BY <2>2 DEF Settles
<1>2. ASSUME NEW j \in table, NEW k \in ItemsOf(row[j])
      PROVE  Stays(k)
  <2>1. j \in Ids /\ j < nextId
        BY <1>0, IdFacts DEF RowsIssued
  <2>2. ItemsOf(row'[j]) = ItemsOf(row[j]) /\ k \in Items
    <3>1. row[j].items \in Seq(Items)
          BY <1>0, <2>1, IdFacts
    <3>2. row'[j].items = row[j].items
          BY <2>1 DEF Carries, RowsCarried
    <3> QED BY <3>1, <3>2 DEF ItemsOf
  <2>3. CASE j \in table'
        BY <2>2, <2>3
  <2>4. CASE j \notin table' /\ \A l \in ItemsOf(row[j]) : Gone(l)'
        BY <2>4 DEF Gone
  <2>5. CASE \A l \in ItemsOf(row[j]) : Settles(l)
        BY <1>1, <2>2, <2>5, SettlesKept
  <2>6. ASSUME NEW p \in Pids, InBatch(p), AtHand(p), proc[p].item.id = j,
               proc'[p].batch = proc[p].batch
        PROVE  Stays(k)
    <3>1. ProcInv(p) /\ proc[p] \in Proc
          BY <1>0 DEF BatchInv, TypeOK
    <3>2. proc[p].batch \in Copy /\ proc[p].pos \in Nat
          BY <3>1 DEF Proc
    <3>3. row[j].items = <<proc[p].batch.items[proc[p].pos]>>
          BY <2>6, <3>1 DEF ProcInv, InHand, ItemAtHand, CopyOf, CopyIn
    <3>4. k = proc[p].batch.items[proc[p].pos]
          BY <3>3 DEF ItemsOf
    <3>5. proc[p].pos \in 1..Len(proc[p].batch.items)
          BY <2>6, <3>1, <3>2 DEF ProcInv, InHand, ItemAtHand, Copy
    <3>6. k \in ItemsOf(proc'[p].batch)
          BY <2>6, <3>4, <3>5 DEF ItemsOf
    <3>7. InBatch(p)' /\ ProcInv(p)'
          BY <2>6 DEF InBatch
    <3>8. CASE proc'[p].batch.id \in table'
      <4>1. proc'[p].batch.items = row'[proc'[p].batch.id].items
            BY <3>7 DEF ProcInv, InHand, CopyOf, CopyIn
      <4>2. k \in ItemsOf(row'[proc'[p].batch.id])
            BY <3>6, <4>1 DEF ItemsOf
      <4> QED BY <3>8, <4>2
    <3>9. CASE \A l \in ItemsOf(proc'[p].batch) : Settles(l)'
          BY <1>1, <2>2, <3>6, <3>9
    <3> QED BY <3>7, <3>8, <3>9 DEF ProcInv, BatchThere
  <2> HIDE DEF Stays
  <2> QED BY <2>3, <2>4, <2>5, <2>6 DEF Carries, Removals, Abandoned
<1>3. ASSUME NEW k \in Sent'
      PROVE  Stays(k)
  <2>1. CASE k \in Collected' \cup refused'
        BY <2>1
  <2>2. ASSUME NEW i \in Ids \cap 1..(nextId' - 1), k \in ItemsOf(row'[i])
        PROVE  Stays(k)
    <3>1. i \in Nat /\ nextId \in Nat /\ nextId' \in Nat /\ i < nextId'
      <4>1. nextId \in Nat /\ nextId' \in Nat
            BY <1>0, BoundsAssumption DEF TypeOK
      <4>2. \A a \in Nat : \A b \in 1..(a - 1) : b \in Nat /\ b < a
            OBVIOUS
      <4> QED BY <4>1, <4>2
    <3>2. CASE nextId <= i
          BY <2>2, <3>1, <3>2 DEF Carries, RowsCarried
    <3>3. CASE i < nextId
      <4>1. ItemsOf(row'[i]) = ItemsOf(row[i]) /\ k \in Items
        <5>1. row[i].items \in Seq(Items)
              BY <1>0, IdFacts
        <5>2. row'[i].items = row[i].items
              BY <3>3 DEF Carries, RowsCarried
        <5> QED BY <2>2, <5>1, <5>2 DEF ItemsOf
      <4>2. i \in Ids \cap 1..(nextId - 1)
            BY <3>1, <3>3
      <4>3. k \in Sent
            BY <2>2, <4>1, <4>2 DEF Sent
      <4>4. \/ Gone(k)
            \/ k \in Collected \cup refused
            \/ \E j \in table : k \in ItemsOf(row[j])
        <5>1. \A r : r.items = <<k>> => k \in ItemsOf(r)
              BY DEF ItemsOf
        <5> QED BY <1>0, <4>3, <5>1 DEF ItemsKept, Settled, Gone
      <4>5. CASE Gone(k)
            BY <4>1, <4>5 DEF Gone, Carries, GoneCarried
      <4>6. CASE k \in Collected \cup refused
            BY <4>1, <4>6 DEF Handed
      <4> QED BY <1>2, <4>4, <4>5, <4>6
    <3> QED BY <3>1, <3>2, <3>3
  <2>3. \/ k \in Collected' \cup refused'
        \/ \E i \in Ids \cap 1..(nextId' - 1) : k \in ItemsOf(row'[i])
        BY <1>3 DEF Sent
  <2> HIDE DEF Stays
  <2> QED BY <2>1, <2>2, <2>3
<1> QED BY <1>3 DEF ItemsKept, Settled

\* A step that carries the items, hands on what was collected, and moves at
\* most process m, keeps the invariant if what m has in hand is right.
LEMMA StepKeeps ==
    ASSUME BatchInv, TypeOK', Carries, Handed, NEW m,
           \A p \in Pids : p # m => proc'[p] = proc[p],
           \A p \in Pids : p = m => ProcInv(p)',
           \A o \in pool'.orphans : o \in pool.orphans \/ CopyIn(o.copy, row', nextId')
    PROVE  BatchInv'
<1>1. \A p \in Pids : ProcInv(p)'
      BY OthersKept
<1>2. TypeOK /\ RowsIssued
      BY DEF BatchInv
<1>3. nextId \in Nat /\ nextId' \in Nat /\ Ids \subseteq Nat
         /\ table \subseteq Ids /\ table' \subseteq Ids
      BY <1>2, BoundsAssumption DEF TypeOK, Ids
<1>4. RowsIssued'
  <2>1. \A i \in table' : i < nextId'
        BY <1>2, <1>3 DEF Carries, RowsCarried, RowsIssued
  <2>2. \A i \in Ids : i < nextId' => Len(row'[i].items) >= 1
        BY <1>2, <1>3 DEF Carries, RowsCarried, RowsIssued
  <2> QED BY <2>1, <2>2 DEF RowsIssued
<1>5. \A o \in pool'.orphans : CopyIn(o.copy, row', nextId')
  <2>1. \A c : CopyIn(c, row, nextId) => CopyIn(c, row', nextId')
        BY <1>2, CopyKept DEF Carries
  <2> QED BY <2>1 DEF BatchInv, CopyOf
<1>6. ItemsApart'
  <2> SUFFICES ASSUME NEW p \in Pids, NEW q \in Pids,
                      InBatch(p)', InBatch(q)', AtHand(p)', AtHand(q)',
                      proc'[p].item.id = proc'[q].item.id, p # m
               PROVE  p = q
      BY DEF ItemsApart
  <2>1. proc'[p] = proc[p] /\ InBatch(p) /\ AtHand(p)
        BY DEF InBatch, AtHand
  <2>2. proc[p].item.id < nextId /\ proc[p].item.id \in Nat
        BY <1>3, <2>1 DEF BatchInv, ProcInv, InHand, CopyOf, CopyIn
  <2>3. InBatch(q) /\ AtHand(q) /\ proc'[q].item.id = proc[q].item.id
        BY <1>3, <2>1, <2>2 DEF Carries, HeldCarried
  <2> QED BY <2>1, <2>3 DEF BatchInv, ItemsApart
<1>7. ItemsKept'
      BY <1>1, ItemsStay
<1> QED BY <1>1, <1>4, <1>5, <1>6, <1>7 DEF BatchInv, CopyOf

-----------------------------------------------------------------------------
(* The building blocks as such steps.                                      *)

\* Columns other than the items change, or nothing does.
LEMMA TableSame ==
    ASSUME TypeOK, nextId' = nextId, table' = table,
           \A i \in Ids : row'[i].items = row[i].items
    PROVE  RowsCarried /\ Removals
<1>1. nextId \in Nat /\ Ids \subseteq Nat /\ \A a \in Nat : a <= a /\ ~(a < a)
      BY IdFacts
<1>2. \A a, b \in Nat : a <= b => ~(b < a)
      OBVIOUS
<1>3. RowsCarried
      BY <1>1, <1>2 DEF RowsCarried
<1> QED BY <1>3 DEF Removals

\* A row is added.
LEMMA InsertCarries ==
    ASSUME TypeOK, RowsIssued, NEW r \in Row, Len(r.items) >= 1, Insert(r)
    PROVE  RowsCarried /\ Removals /\ nextId < nextId'
<1>1. /\ nextId \in Ids /\ nextId \in Nat /\ nextId' = nextId + 1
      /\ table' = table \cup {nextId}
      /\ row'[nextId] = r
      /\ \A i \in Ids : i # nextId => row'[i] = row[i]
      BY InsertFacts
<1>2. \A a, b \in Nat : /\ a < b => a # b
                        /\ a <= b /\ b < a + 1 => a = b
                        /\ a < a + 1 /\ a <= a + 1 /\ a <= a
      OBVIOUS
<1>3. Ids \subseteq Nat
      BY DEF Ids
<1>4. nextId <= nextId' /\ nextId < nextId'
      BY <1>1, <1>2
<1>5. \A i \in Ids : i < nextId => row'[i].items = row[i].items
      BY <1>1, <1>2, <1>3
<1>6. \A i \in Ids : nextId <= i /\ i < nextId' => i = nextId
      BY <1>1, <1>2, <1>3
<1>7. RowsCarried
      BY <1>1, <1>2, <1>4, <1>5, <1>6 DEF RowsCarried
<1>8. Removals
      BY <1>1 DEF Removals
<1> QED BY <1>4, <1>7, <1>8

\* A destroyed row whose items have returned, or are given up, or settle.
LEMMA DestroyCarries ==
    ASSUME TypeOK, nextId' = nextId, NEW i \in Ids, table' = table \ {i},
           \A j \in Ids : row'[j].items = row[j].items,
           \/ \A k \in ItemsOf(row[i]) : Gone(k)'
           \/ Len(row[i].items) # 1 /\ \A k \in ItemsOf(row[i]) : Settles(k)
           \/ Abandoned(i)
    PROVE  RowsCarried /\ Removals
<1>1. nextId \in Nat /\ Ids \subseteq Nat /\ \A a \in Nat : a <= a /\ ~(a < a)
      BY IdFacts
<1>2. \A a, b \in Nat : a <= b => ~(b < a)
      OBVIOUS
<1>3. RowsCarried
      BY <1>1, <1>2 DEF RowsCarried
<1>4. \A j \in table \ table' : j = i
      OBVIOUS
<1> QED BY <1>3, <1>4 DEF Removals

\* A copy of a row is retried or given up.
LEMMA RescheduleCarries ==
    ASSUME TypeOK, NEW c \in Copy, CopyIn(c, row, nextId), Reschedule(c), done' = done
    PROVE  RowsCarried /\ Removals /\ GoneCarried
<1>1. /\ nextId' = nextId
      /\ \A i \in Ids : row'[i].items = row[i].items
      /\ \/ table' = table /\ dropped' = dropped
         \/ table' = table \ {c.id} /\ dropped' = dropped \cup ItemsOf(c)
      BY RescheduleFacts
<1>2. GoneCarried
      BY <1>1 DEF GoneCarried
<1>3. CASE table' = table
      BY <1>1, <1>2, <1>3, TableSame
<1>4. CASE table' = table \ {c.id} /\ dropped' = dropped \cup ItemsOf(c)
  <2>1. PICK i \in Ids : i = c.id
        BY DEF CopyIn
  <2>2. ItemsOf(row[i]) = ItemsOf(c)
        BY <2>1 DEF CopyIn, ItemsOf
  <2>3. \A k \in ItemsOf(row[i]) : Gone(k)'
        BY <1>4, <2>2 DEF Gone
  <2> QED BY <1>1, <1>2, <1>4, <2>1, <2>3, DestroyCarries
<1> QED BY <1>1, <1>3, <1>4

\* The caller does nothing.
LEMMA HandedSame == UNCHANGED <<caller, refused>> => Handed
BY DEF Handed, Collected

\* No process moves.
LEMMA HeldSame == UNCHANGED proc => HeldCarried
BY DEF HeldCarried, InBatch, AtHand

\* No item returns or is given up.
LEMMA GoneSame == UNCHANGED <<done, dropped>> => GoneCarried
BY DEF GoneCarried

\* Steps in which no process moves.
LEMMA QuietKeeps ==
    ASSUME BatchInv, TypeOK', RowsCarried, Removals, GoneCarried, Handed, proc' = proc,
           \A o \in pool'.orphans : o \in pool.orphans
    PROVE  BatchInv'
<1>1. Carries
      BY HeldSame DEF Carries
<1>2. \A p \in Pids : ProcInv(p)'
      BY <1>1, OthersKept
<1> QED BY <1>1, <1>2, StepKeeps

\* A process without a job.
LEMMA Unburdened ==
    ASSUME NEW p \in Pids, NEW s \in {"none", "idle", "check", "zombie"},
           proc'[p].st = s, proc'[p].batch = NoCopy
    PROVE  ProcInv(p)' /\ ~(InBatch(p)') /\ ~(AtHand(p)')
BY DEF ProcInv, InHand, ItemAtHand, Passed, BatchThere, InBatch, AtHand

-----------------------------------------------------------------------------
(* The steps of the caller, of the pool and of time.                       *)

Caller == [st : {"out", "in", "flush"}, batches : [Groups -> Seq(Items)]]

\* What the caller holds, and its changes of state.
LEMMA CallerType ==
    ASSUME TypeOK
    PROVE  /\ caller \in Caller
           /\ caller.batches \in [Groups -> Seq(Items)]
           /\ Collected \subseteq Items
           /\ \A s \in {"out", "in", "flush"} :
                  /\ [caller EXCEPT !.st = s] \in Caller
                  /\ [caller EXCEPT !.st = s].batches = caller.batches
<1>1. caller \in Caller /\ caller.batches \in [Groups -> Seq(Items)]
      BY DEF TypeOK, Caller
<1>2. \A s \in {"out", "in", "flush"} : [caller EXCEPT !.st = s] \in Caller
      BY <1>1 DEF Caller
<1>3. \A s \in {"out", "in", "flush"} : [caller EXCEPT !.st = s].batches = caller.batches
      BY <1>1 DEF Caller
<1>4. ASSUME NEW g \in Groups, NEW n \in 1..Len(caller.batches[g])
      PROVE  caller.batches[g][n] \in Items
  <2>1. caller.batches[g] \in Seq(Items)
        BY <1>1
  <2> QED BY <2>1, ElementOfSeq
<1>5. Collected \subseteq Items
      BY <1>4 DEF Collected
<1> QED BY <1>1, <1>2, <1>3, <1>5

\* The caller enters or leaves the block.
LEMMA CallerKeeps ==
    ASSUME BatchInv, Begin \/ BlockEnds \/ FlushDone
    PROVE  BatchInv'
<1>1. TypeOK
      BY DEF BatchInv
<1>2. UNCHANGED <<database, proc, pool, history>> /\ caller'.batches = caller.batches
      BY <1>1, CallerType DEF Begin, BlockEnds, FlushDone
<1>3. TypeOK'
      BY <1>1, <1>2, CallerType DEF Begin, BlockEnds, FlushDone, TypeOK, Caller, database, history
<1>4. Handed
      BY <1>2 DEF Handed, Collected, history
<1>5. RowsCarried /\ Removals /\ GoneCarried
      BY <1>1, <1>2, TableSame, GoneSame DEF database, history
<1> QED BY <1>2, <1>3, <1>4, <1>5, QuietKeeps

\* A sequence with one more item.
LEMMA Appended ==
    ASSUME NEW q \in Seq(Items), NEW k \in Items
    PROVE  /\ Append(q, k) \in Seq(Items)
           /\ Len(Append(q, k)) = Len(q) + 1
           /\ \A n \in 1..Len(q) : Append(q, k)[n] = q[n]
<1>1. Append(q, k) \in Seq(Items)
      OBVIOUS
<1>2. Len(Append(q, k)) = Len(q) + 1
      OBVIOUS
<1>3. \A n \in 1..Len(q) : Append(q, k)[n] = q[n]
      OBVIOUS
<1> QED BY <1>1, <1>2, <1>3

\* A job is enqueued in the block.
LEMMA CollectKeeps ==
    ASSUME BatchInv, NEW k \in Items, NEW g \in Groups, Collect(k, g)
    PROVE  BatchInv'
<1>1. TypeOK
      BY DEF BatchInv
<1>2. /\ UNCHANGED <<database, proc, pool, history>>
      /\ caller' = [caller EXCEPT !.batches[g] = Append(caller.batches[g], k)]
      BY DEF Collect
<1>a. caller.batches[g] \in Seq(Items)
      BY <1>1, CallerType
<1>c. /\ Append(caller.batches[g], k) \in Seq(Items)
      /\ Len(Append(caller.batches[g], k)) = Len(caller.batches[g]) + 1
      /\ \A n \in 1..Len(caller.batches[g]) :
             Append(caller.batches[g], k)[n] = caller.batches[g][n]
      BY <1>a, Appended
<1>b. PICK x \in Seq(Items) :
          /\ x = Append(caller.batches[g], k)
          /\ Len(x) = Len(caller.batches[g]) + 1
          /\ \A n \in 1..Len(caller.batches[g]) : x[n] = caller.batches[g][n]
      BY <1>c, Zenon
<1>3. /\ caller' \in Caller
      /\ caller'.batches = [caller.batches EXCEPT ![g] = x]
      BY <1>1, <1>2, <1>b, CallerType DEF Caller
<1>4. TypeOK'
      BY <1>1, <1>2, <1>3 DEF TypeOK, Caller, database, history
<1>5. ASSUME NEW l \in Collected
      PROVE  l \in Collected'
  <2>1. PICK h \in Groups : \E n \in 1..Len(caller.batches[h]) : l = caller.batches[h][n]
        BY DEF Collected
  <2>2. caller.batches[h] \in Seq(Items)
        BY <1>1, CallerType
  <2>3. \E n \in 1..Len(caller'.batches[h]) : l = caller'.batches[h][n]
    <3>1. Len(caller.batches[h]) \in Nat
          BY <2>2
    <3>2. CASE h = g
      <4>1. caller'.batches[h] = x
            BY <1>1, <1>3, <3>2, CallerType
      <4>2. \A a \in Nat : \A n \in 1..a : n \in 1..(a + 1)
            OBVIOUS
      <4> QED BY <1>b, <2>1, <3>1, <3>2, <4>1, <4>2
    <3>3. CASE h # g
      <4>1. caller'.batches[h] = caller.batches[h]
            BY <1>1, <1>3, <3>3, CallerType
      <4> QED BY <2>1, <4>1
    <3> QED BY <3>2, <3>3
  <2> QED BY <2>3 DEF Collected
<1>6. Handed
      BY <1>2, <1>5 DEF Handed, history
<1>7. RowsCarried /\ Removals /\ GoneCarried
      BY <1>1, <1>2, TableSame, GoneSame DEF database, history
<1> QED BY <1>2, <1>4, <1>6, <1>7, QuietKeeps

\* A batch is enqueued.
LEMMA FlushKeeps ==
    ASSUME BatchInv, NEW g \in Groups, Flush(g)
    PROVE  BatchInv'
<1>1. TypeOK /\ RowsIssued
      BY DEF BatchInv
<1>2. /\ UNCHANGED <<proc, pool, history>>
      /\ Insert(NewRow(caller.batches[g], Nobody, TRUE))
      /\ caller.batches[g] # <<>>
      /\ caller' = [caller EXCEPT !.batches[g] = <<>>]
      BY DEF Flush
<1>3. caller.batches[g] \in Seq(Items) /\ <<>> \in Seq(Items)
      BY <1>1, CallerType
<1>4. PICK r \in Row : /\ r = NewRow(caller.batches[g], Nobody, TRUE)
                       /\ r.items = caller.batches[g]
      BY <1>3, NewRowType
<1>5. Len(r.items) >= 1
  <2>1. Len(caller.batches[g]) \in Nat \ {0}
        BY <1>2, <1>3, EmptySeq
  <2>2. \A a \in Nat \ {0} : a >= 1
        OBVIOUS
  <2> QED BY <1>4, <2>1, <2>2
<1>6. Insert(r)
      BY <1>2, <1>4 DEF Insert
<1>7. /\ caller' \in [st : {"out", "in", "flush"}, batches : [Groups -> Seq(Items)]]
      /\ caller'.batches = [caller.batches EXCEPT ![g] = <<>>]
      BY <1>1, <1>2, <1>3, CallerType DEF TypeOK
<1>8. TypeOK'
      BY <1>1, <1>2, <1>6, <1>7, InsertFacts DEF TypeOK, history
<1>9. ASSUME NEW l \in Collected
      PROVE  l \in Collected' \/ \E i \in table' : l \in ItemsOf(row'[i])
  <2>1. PICK h \in Groups : \E n \in 1..Len(caller.batches[h]) : l = caller.batches[h][n]
        BY DEF Collected
  <2>2. CASE h = g
    <3>1. nextId \in table' /\ row'[nextId] = r
          BY <1>1, <1>6, InsertFacts
    <3>2. l \in ItemsOf(r)
          BY <1>4, <2>1, <2>2 DEF ItemsOf
    <3> QED BY <3>1, <3>2
  <2>3. CASE h # g
    <3>1. caller'.batches[h] = caller.batches[h]
          BY <1>1, <1>7, <2>3, CallerType
    <3> QED BY <2>1, <3>1 DEF Collected
  <2> QED BY <2>2, <2>3
<1>10. Handed
      BY <1>2, <1>9 DEF Handed, history
<1>11. RowsCarried /\ Removals /\ GoneCarried
      BY <1>1, <1>2, <1>5, <1>6, InsertCarries, GoneSame DEF history
<1> QED BY <1>2, <1>8, <1>10, <1>11, QuietKeeps

\* An enqueue of a batch raises.
LEMMA FlushRaisesKeeps ==
    ASSUME BatchInv, FlushRaises
    PROVE  BatchInv'
<1>1. TypeOK
      BY DEF BatchInv
<1>2. /\ UNCHANGED <<database, proc, pool, done, tried, dropped>>
      /\ caller' = [st |-> "out", batches |-> [g \in Groups |-> <<>>]]
      /\ refused' = refused \cup Collected
      BY DEF FlushRaises
<1>3. <<>> \in Seq(Items) /\ Collected \subseteq Items
      BY <1>1, CallerType
<1>4. TypeOK'
      BY <1>1, <1>2, <1>3 DEF TypeOK, database
<1>5. Handed
      BY <1>2 DEF Handed
<1>6. RowsCarried /\ Removals /\ GoneCarried
      BY <1>1, <1>2, TableSame, GoneSame DEF database
<1> QED BY <1>2, <1>4, <1>5, <1>6, QuietKeeps

\* A job is enqueued with a run_at.
LEMMA EnqueueAtKeeps ==
    ASSUME BatchInv, NEW k \in Items, EnqueueAt(k)
    PROVE  BatchInv'
<1>1. TypeOK /\ RowsIssued
      BY DEF BatchInv
<1>2. UNCHANGED <<caller, proc, pool, history>> /\ Insert(NewRow(<<k>>, Nobody, FALSE))
      BY DEF EnqueueAt
<1>3. <<k>> \in Seq(Items) /\ Len(<<k>>) >= 1
      OBVIOUS
<1>4. PICK r \in Row : r = NewRow(<<k>>, Nobody, FALSE) /\ r.items = <<k>>
      BY <1>3, NewRowType
<1>5. Insert(r) /\ Len(r.items) >= 1
      BY <1>2, <1>3, <1>4 DEF Insert
<1>6. TypeOK'
      BY <1>1, <1>2, <1>5, InsertFacts DEF TypeOK, history
<1>7. RowsCarried /\ Removals /\ GoneCarried /\ Handed
      BY <1>1, <1>2, <1>5, InsertCarries, GoneSame, HandedSame DEF history
<1> QED BY <1>2, <1>6, <1>7, QuietKeeps

\* A row becomes due, or old, or locks expire.
LEMMA TimeKeeps ==
    ASSUME BatchInv,
           (\E i \in Ids : BecomeDue(i) \/ BecomeOld(i)) \/ UnlockExpired
    PROVE  BatchInv'
<1>1. TypeOK
      BY DEF BatchInv
<1>2. \A r \in Row : /\ [r EXCEPT !.due = TRUE].items = r.items
                     /\ [r EXCEPT !.old = TRUE].items = r.items
      BY DEF Row
<1>3. ASSUME UNCHANGED <<caller, table, nextId, proc, pool, history>>,
             row' \in [Ids -> Row], \A i \in Ids : row'[i].items = row[i].items
      PROVE  BatchInv'
  <2>1. TypeOK'
        BY <1>1, <1>3 DEF TypeOK, history
  <2>2. RowsCarried /\ Removals /\ GoneCarried /\ Handed
        BY <1>1, <1>3, TableSame, GoneSame, HandedSame DEF history
  <2> QED BY <1>3, <2>1, <2>2, QuietKeeps
<1>4. ASSUME NEW i \in Ids, BecomeDue(i)
      PROVE  BatchInv'
      BY <1>1, <1>2, <1>3, <1>4, RowUpdates DEF BecomeDue, TypeOK
<1>5. ASSUME NEW i \in Ids, BecomeOld(i)
      PROVE  BatchInv'
      BY <1>1, <1>2, <1>3, <1>5, RowUpdates DEF BecomeOld, TypeOK
<1>6. CASE UnlockExpired
  <2>1. PICK U : Unlock(U)
        BY <1>6 DEF UnlockExpired
  <2> QED BY <1>1, <1>3, <1>6, <2>1, UnlockFacts DEF UnlockExpired
<1> QED BY <1>4, <1>5, <1>6

\* The pool frees the rows of a dead worker.
LEMMA SweepKeeps ==
    ASSUME BatchInv, SweepDone \/ \E o \in pool.orphans : SweepOne(o)
    PROVE  BatchInv'
<1>1. TypeOK /\ \A o \in pool.orphans : CopyOf(o.copy)
      BY DEF BatchInv
<1>2. CASE SweepDone
  <2>1. /\ UNCHANGED <<caller, database, proc, history>>
        /\ pool' = [pool EXCEPT !.sweep = FALSE]
        BY <1>2 DEF SweepDone
  <2>2. TypeOK' /\ pool'.orphans = pool.orphans
        BY <1>1, <2>1 DEF TypeOK, database, history
  <2>3. RowsCarried /\ Removals /\ GoneCarried /\ Handed
        BY <1>1, <2>1, TableSame, GoneSame, HandedSame DEF database, history
  <2> QED BY <2>1, <2>2, <2>3, QuietKeeps
<1>3. ASSUME NEW o \in pool.orphans, SweepOne(o)
      PROVE  BatchInv'
  <2>1. /\ UNCHANGED <<caller, proc, done, tried, refused>>
        /\ pool' = [pool EXCEPT !.orphans = pool.orphans \ {o}]
        /\ Reschedule(o.copy)
        BY <1>3 DEF SweepOne
  <2>2. PICK c \in Copy : c = o.copy
        BY <1>1 DEF TypeOK, Orphan
  <2>3. CopyIn(c, row, nextId) /\ Reschedule(c)
        BY <1>1, <2>1, <2>2 DEF CopyOf
  <2>4. pool'.orphans \subseteq pool.orphans
           /\ pool' \in [sweep : BOOLEAN, orphans : SUBSET Orphan]
        BY <1>1, <2>1 DEF TypeOK
  <2>5. TypeOK'
        BY <1>1, <2>1, <2>3, <2>4, RescheduleFacts DEF TypeOK
  <2>6. RowsCarried /\ Removals /\ GoneCarried /\ Handed
        BY <1>1, <2>1, <2>3, RescheduleCarries, HandedSame
  <2> QED BY <2>1, <2>4, <2>5, <2>6, QuietKeeps
<1> QED BY <1>2, <1>3

-----------------------------------------------------------------------------
(* The steps of a worker.                                                  *)

\* Process p becomes r.
Moves(p, r) == proc' = [proc EXCEPT ![p] = r]

\* The other processes stay as they are.
LEMMA MoveFacts ==
    ASSUME TypeOK, NEW p \in Pids, NEW r \in Proc, Moves(p, r)
    PROVE  /\ proc' \in [Pids -> Proc]
           /\ proc'[p] = r
           /\ \A q \in Pids : q # p => proc'[q] = proc[q]
BY DEF TypeOK, Moves

\* If process p has at hand what it had, or a new row, the step carries.
LEMMA MoverCarries ==
    ASSUME TypeOK, RowsCarried, GoneCarried, Removals,
           NEW p \in Pids, NEW r \in Proc, Moves(p, r),
           InBatch(p)' /\ AtHand(p)' =>
               \/ InBatch(p) /\ AtHand(p) /\ proc'[p].item.id = proc[p].item.id
               \/ proc'[p].item.id = nextId /\ nextId < nextId'
    PROVE  Carries
<1>1. \A q \in Pids : q # p => proc'[q] = proc[q]
      BY MoveFacts
<1>2. HeldCarried
  <2> SUFFICES ASSUME NEW q \in Pids, InBatch(q)', AtHand(q)'
               PROVE  \/ InBatch(q) /\ AtHand(q) /\ proc'[q].item.id = proc[q].item.id
                      \/ proc'[q].item.id = nextId /\ nextId < nextId'
      BY DEF HeldCarried
  <2>1. CASE q = p
        BY <2>1
  <2>2. CASE q # p
        BY <1>1, <2>2 DEF InBatch, AtHand
  <2> QED BY <2>1, <2>2
<1> QED BY <1>2 DEF Carries

\* Such a step keeps the invariant if what p has in hand is right.
LEMMA MoverKeeps ==
    ASSUME BatchInv, TypeOK', Carries, Handed,
           NEW p \in Pids, NEW r \in Proc, Moves(p, r), ProcInv(p)',
           \A o \in pool'.orphans : o \in pool.orphans \/ CopyIn(o.copy, row', nextId')
    PROVE  BatchInv'
<1>1. \A q \in Pids : q # p => proc'[q] = proc[q]
      BY MoveFacts DEF BatchInv
<1>2. \A q \in Pids : q = p => ProcInv(q)'
      OBVIOUS
<1> QED BY <1>1, <1>2, StepKeeps

\* Process p is left without a job.
LEMMA FreeKeeps ==
    ASSUME BatchInv, TypeOK', RowsCarried, GoneCarried, Removals, Handed,
           NEW p \in Pids, NEW r \in Proc, Moves(p, r),
           r.st \in {"none", "idle", "check", "zombie"}, r.batch = NoCopy,
           \A o \in pool'.orphans : o \in pool.orphans \/ CopyIn(o.copy, row', nextId')
    PROVE  BatchInv'
<1>1. proc'[p] = r
      BY MoveFacts DEF BatchInv
<1>2. ProcInv(p)' /\ ~(InBatch(p)')
      BY <1>1, Unburdened
<1>3. Carries
      BY <1>2, MoverCarries DEF BatchInv
<1> QED BY <1>2, <1>3, MoverKeeps

\* Of the database and the history such a step changes nothing.
LEMMA FreeQuietKeeps ==
    ASSUME BatchInv, NEW p \in Pids, NEW r \in Proc, Moves(p, r),
           r.st \in {"none", "idle", "check", "zombie"}, r.batch = NoCopy,
           UNCHANGED <<caller, pool, history>>,
           nextId' = nextId, table' = table, row' \in [Ids -> Row],
           \A i \in Ids : row'[i].items = row[i].items
    PROVE  BatchInv'
<1>1. TypeOK
      BY DEF BatchInv
<1>2. TypeOK'
      BY <1>1, MoveFacts DEF TypeOK, history
<1>3. RowsCarried /\ Removals /\ GoneCarried /\ Handed
      BY <1>1, TableSame, GoneSame, HandedSame DEF history
<1> QED BY <1>2, <1>3, FreeKeeps

\* A process between two jobs has no batch.
LEMMA IdleHasNone ==
    ASSUME BatchInv, NEW p \in Pids, proc[p].st \in {"none", "idle", "check", "zombie"}
    PROVE  proc[p].batch = NoCopy
BY DEF BatchInv, ProcInv, InHand, InBatch

\* Steps between two jobs, and the ends of a process.
LEMMA IdleKeeps ==
    ASSUME BatchInv, NEW p \in Pids,
           TakeNothing(p) \/ Loop(p) \/ Exit(p) \/ Abort(p) \/ Crash(p) \/ Spawn(p)
    PROVE  BatchInv'
<1>1. TypeOK /\ proc[p] \in Proc /\ row \in [Ids -> Row]
      BY DEF BatchInv, TypeOK
<1>2. CASE TakeNothing(p)
  <2>a. IsProc([proc[p] EXCEPT !.st = "check"], "check",
               proc[p].batch, proc[p].pos, proc[p].item, proc[p].ok)
        BY <1>1, ProcUpdates DEF States
  <2>b. proc[p].batch = NoCopy
        BY <1>2, IdleHasNone DEF TakeNothing
  <2>1. PICK r \in Proc : /\ r = [proc[p] EXCEPT !.st = "check"]
                          /\ r.st = "check" /\ r.batch = NoCopy
        BY <2>a, <2>b DEF IsProc
  <2>2. Moves(p, r) /\ UNCHANGED <<caller, database, pool, history>>
        BY <1>2, <2>1 DEF TakeNothing, Moves
  <2> QED BY <1>1, <2>1, <2>2, FreeQuietKeeps DEF database
<1>3. CASE Loop(p)
  <2>a. IsProc([proc[p] EXCEPT !.st = "idle"], "idle",
               proc[p].batch, proc[p].pos, proc[p].item, proc[p].ok)
        BY <1>1, ProcUpdates DEF States
  <2>b. proc[p].batch = NoCopy
        BY <1>3, IdleHasNone DEF Loop
  <2>1. PICK r \in Proc : /\ r = [proc[p] EXCEPT !.st = "idle"]
                          /\ r.st = "idle" /\ r.batch = NoCopy
        BY <2>a, <2>b DEF IsProc
  <2>2. Moves(p, r) /\ UNCHANGED <<caller, database, pool, history>>
        BY <1>3, <2>1 DEF Loop, Moves
  <2> QED BY <1>1, <2>1, <2>2, FreeQuietKeeps DEF database
<1>4. CASE Exit(p) \/ Abort(p)
  <2>1. PICK r \in Proc : r = Dead /\ r.st = "zombie" /\ r.batch = NoCopy
        BY FreshProc DEF IsProc
  <2>2. /\ Unlock(LockedBy(p)) /\ Moves(p, r)
        /\ UNCHANGED <<caller, pool, history>>
        BY <1>4, <2>1 DEF Exit, Abort, Moves
  <2>3. PICK U : Unlock(U)
        BY <2>2
  <2>4. nextId' = nextId /\ table' = table /\ row' \in [Ids -> Row]
           /\ \A i \in Ids : row'[i].items = row[i].items
        BY <1>1, <2>3, UnlockFacts
  <2> QED BY <2>1, <2>2, <2>4, FreeQuietKeeps
<1>5. CASE Crash(p)
  <2>1. PICK r \in Proc : r = Dead /\ r.st = "zombie" /\ r.batch = NoCopy
        BY FreshProc DEF IsProc
  <2>2. Moves(p, r) /\ UNCHANGED <<caller, database, pool, history>>
        BY <1>5, <2>1 DEF Crash, Moves
  <2> QED BY <1>1, <2>1, <2>2, FreeQuietKeeps DEF database
<1>6. CASE Spawn(p)
  <2>a. IsProc([NoProc EXCEPT !.st = "idle"], "idle", NoCopy, 0, NoCopy, TRUE)
        BY FreshProc DEF States
  <2>1. PICK r \in Proc : /\ r = [NoProc EXCEPT !.st = "idle"]
                          /\ r.st = "idle" /\ r.batch = NoCopy
        BY <2>a DEF IsProc
  <2>2. Moves(p, r) /\ UNCHANGED <<caller, database, pool, history>>
        BY <1>6, <2>1 DEF Spawn, Moves
  <2> QED BY <1>1, <2>1, <2>2, FreeQuietKeeps DEF database
<1> QED BY <1>2, <1>3, <1>4, <1>5, <1>6

\* The pool waits for a dead worker.
LEMMA ReapKeeps ==
    ASSUME BatchInv, NEW p \in Pids, Reap(p)
    PROVE  BatchInv'
<1>1. TypeOK /\ RowsIssued
      BY DEF BatchInv
<1>2. PICK r \in Proc : r = NoProc /\ r.st = "none" /\ r.batch = NoCopy
      BY FreshProc DEF IsProc
<1>3. /\ Moves(p, r)
      /\ UNCHANGED <<caller, database, history>>
      /\ pool' = [sweep |-> TRUE,
                  orphans |-> {[copy |-> [id |-> i, att |-> row[i].attempts, items |-> row[i].items],
                                pid |-> p] : i \in LockedBy(p)}]
      BY <1>2 DEF Reap, Moves
<1>4. ASSUME NEW o \in pool'.orphans
      PROVE  o \in Orphan /\ CopyIn(o.copy, row', nextId')
  <2>1. PICK i \in LockedBy(p) :
            o = [copy |-> [id |-> i, att |-> row[i].attempts, items |-> row[i].items], pid |-> p]
        BY <1>3
  <2>2. i \in table /\ i \in Ids /\ i < nextId /\ row[i] \in Row
        BY <1>1 DEF LockedBy, RowsIssued, TypeOK
  <2>3. [id |-> i, att |-> row[i].attempts, items |-> row[i].items] \in Copy
        BY <2>2 DEF Row, Copy
  <2> QED BY <1>3, <2>1, <2>2, <2>3 DEF Orphan, CopyIn, database
<1>5. pool' \in [sweep : BOOLEAN, orphans : SUBSET Orphan]
      BY <1>3, <1>4
<1>6. TypeOK'
      BY <1>1, <1>3, <1>5, MoveFacts DEF TypeOK, database, history
<1>7. RowsCarried /\ Removals /\ GoneCarried /\ Handed
      BY <1>1, <1>3, TableSame, GoneSame, HandedSame DEF database, history
<1> QED BY <1>2, <1>3, <1>4, <1>6, <1>7, FreeKeeps

\* A job is found and locked.
LEMMA TakeKeeps ==
    ASSUME BatchInv, NEW p \in Pids, NEW i \in Ids, Take(p, i)
    PROVE  BatchInv'
<1> DEFINE c == [id |-> i, att |-> row[i].attempts, items |-> row[i].items]
<1>1. TypeOK /\ RowsIssued /\ row[i] \in Row /\ i \in table
      BY DEF BatchInv, TypeOK, Take
<1>2. row[i].items \in Seq(Items) /\ c \in Copy /\ c # NoCopy
         /\ Len(row[i].items) \in Nat /\ Len(row[i].items) >= 1
  <2>1. row[i].items \in Seq(Items) /\ row[i].attempts \in Nat
        BY <1>1 DEF Row
  <2>2. c \in Copy
        BY <2>1 DEF Copy
  <2>3. i # 0
        BY DEF Ids
  <2>4. c # NoCopy
        BY <2>3 DEF NoCopy, NoId
  <2>5. Len(row[i].items) >= 1
        BY <1>1 DEF RowsIssued
  <2> QED BY <2>1, <2>2, <2>4, <2>5
<1>3. /\ row' = [row EXCEPT ![i].by = p, ![i].old = FALSE]
      /\ UNCHANGED <<caller, table, nextId, pool, history>>
      /\ proc' = [proc EXCEPT ![p] = IF Len(c.items) > 1
                      THEN [NoProc EXCEPT !.st = "batch", !.batch = c]
                      ELSE [NoProc EXCEPT !.st = "item", !.item = c]]
      BY DEF Take
<1>4. row' \in [Ids -> Row] /\ \A j \in Ids : row'[j].items = row[j].items
  <2>1. \A r \in Row : [r EXCEPT !.by = p, !.old = FALSE].items = r.items
        BY DEF Row
  <2>2. row' = [row EXCEPT ![i] = [row[i] EXCEPT !.by = p, !.old = FALSE]]
        BY <1>1, <1>3 DEF TypeOK
  <2> QED BY <1>1, <2>1, <2>2, RowUpdates DEF TypeOK
<1>5. RowsCarried /\ Removals /\ GoneCarried /\ Handed
      BY <1>1, <1>3, <1>4, TableSame, GoneSame, HandedSame DEF history
<1>6. CopyIn(c, row', nextId') /\ c.items = row[i].items /\ c.id = i /\ i \in table'
      BY <1>1, <1>3, <1>4 DEF CopyIn, RowsIssued
<1> HIDE DEF c
<1>7. CASE Len(c.items) > 1
  <2>1. IsProc([NoProc EXCEPT !.st = "batch", !.batch = c], "batch", c, 0, NoCopy, TRUE)
        BY <1>2, FreshProc DEF States
  <2>2. PICK r \in Proc : r = [NoProc EXCEPT !.st = "batch", !.batch = c]
                          /\ IsProc(r, "batch", c, 0, NoCopy, TRUE)
        BY <2>1 DEF IsProc
  <2>3. Moves(p, r) /\ proc'[p] = r
        BY <1>1, <1>3, <1>7, <2>2, MoveFacts DEF Moves
  <2>4. /\ proc'[p].st = "batch" /\ proc'[p].batch = c /\ proc'[p].pos = 0
        /\ ~(AtHand(p)') /\ InBatch(p)'
        BY <1>2, <2>2, <2>3 DEF IsProc, AtHand, InBatch
  <2>5. \A a \in Nat : a > 1 => a # 1 /\ 0 <= a
        OBVIOUS
  <2>a. Len(c.items) \in Nat /\ Len(c.items) # 1 /\ 0 <= Len(c.items)
        BY <1>2, <1>6, <1>7, <2>5
  <2>b. InHand(p)'
        BY <1>6, <2>4, <2>a DEF InHand, CopyOf
  <2>c. ItemAtHand(p)'
        BY <2>4 DEF ItemAtHand
  <2>d. Passed(p)'
    <3>1. \A n \in 1..0 : FALSE
          OBVIOUS
    <3> QED BY <2>4, <3>1 DEF Passed
  <2>e. BatchThere(p)'
        BY <1>6, <2>4 DEF BatchThere
  <2>6. ProcInv(p)'
        BY <2>b, <2>c, <2>d, <2>e DEF ProcInv
  <2>7. TypeOK'
        BY <1>1, <1>3, <1>4, <2>3, MoveFacts DEF TypeOK, history
  <2>8. Carries
        BY <1>1, <1>5, <2>3, <2>4, MoverCarries
  <2> QED BY <1>3, <1>5, <2>3, <2>6, <2>7, <2>8, MoverKeeps
<1>8. CASE ~(Len(c.items) > 1)
  <2>1. IsProc([NoProc EXCEPT !.st = "item", !.item = c], "item", NoCopy, 0, c, TRUE)
        BY <1>2, FreshProc DEF States
  <2>2. PICK r \in Proc : r = [NoProc EXCEPT !.st = "item", !.item = c]
                          /\ IsProc(r, "item", NoCopy, 0, c, TRUE)
        BY <2>1 DEF IsProc
  <2>3. Moves(p, r) /\ proc'[p] = r
        BY <1>1, <1>3, <1>8, <2>2, MoveFacts DEF Moves
  <2>4. proc'[p].st = "item" /\ proc'[p].item = c /\ ~(InBatch(p)')
        BY <2>2, <2>3 DEF IsProc, InBatch
  <2>5. \A a \in Nat : a >= 1 /\ ~(a > 1) => a = 1
        OBVIOUS
  <2>6. Len(c.items) = 1
        BY <1>2, <1>6, <1>8, <2>5
  <2>7. ProcInv(p)'
        BY <1>6, <2>4, <2>6
           DEF ProcInv, InHand, ItemAtHand, Passed, BatchThere, CopyOf
  <2>8. TypeOK'
        BY <1>1, <1>3, <1>4, <2>3, MoveFacts DEF TypeOK, history
  <2>9. Carries
        BY <1>1, <1>5, <2>3, <2>4, MoverCarries
  <2> QED BY <1>3, <1>5, <2>3, <2>7, <2>8, <2>9, MoverKeeps
<1> QED BY <1>7, <1>8

\* The next item of a batch gets its row.
LEMMA CreateKeeps ==
    ASSUME BatchInv, NEW p \in Pids, CreateAndLock(p)
    PROVE  BatchInv'
<1>1. TypeOK /\ RowsIssued /\ ProcInv(p) /\ proc[p] \in Proc
      BY DEF BatchInv, TypeOK
<1>2. /\ proc[p].st = "batch" /\ InBatch(p)
      /\ proc[p].pos \in Nat /\ proc[p].batch \in Copy /\ proc[p].batch.items \in Seq(Items)
      /\ proc[p].pos < Len(proc[p].batch.items)
      BY <1>1 DEF CreateAndLock, ProcInv, InHand, Proc, Copy
<1>3. PICK n \in Nat : /\ n = proc[p].pos + 1
                       /\ n \in 1..Len(proc[p].batch.items)
                       /\ n >= 1 /\ n <= Len(proc[p].batch.items)
                       /\ \A j \in 1..(n - 1) : j \in 1..proc[p].pos
                       /\ \A j \in 1..(n - 1) : j \in 1..Len(proc[p].batch.items)
      BY <1>2
<1>4. PICK k \in Items : k = proc[p].batch.items[n]
      BY <1>2, <1>3
<1>5. PICK d \in Copy : d = [id |-> nextId, att |-> 0, items |-> <<k>>]
  <2>1. nextId \in 1..(MaxId + 1) /\ nextId <= MaxId /\ MaxId \in Nat
        BY <1>1, BoundsAssumption DEF CreateAndLock, Insert, TypeOK
  <2>2. nextId \in Ids
        BY <2>1 DEF Ids
  <2>3. <<k>> \in Seq(Items)
        OBVIOUS
  <2>4. [id |-> nextId, att |-> 0, items |-> <<k>>] \in Copy
        BY <2>2, <2>3 DEF Copy
  <2> QED BY <2>4
<1>6. d.id = nextId /\ d.items = <<k>> /\ Len(d.items) = 1 /\ <<k>> \in Seq(Items)
      BY <1>5
<1>7. PICK r \in Row : r = NewRow(<<k>>, p, TRUE) /\ r.items = <<k>>
      BY <1>6, NewRowType
<1>8. Insert(r) /\ UNCHANGED <<caller, pool, history>> /\ Len(r.items) >= 1
  <2>1. /\ Insert(NewRow(<<proc[p].batch.items[proc[p].pos + 1]>>, p, TRUE))
        /\ UNCHANGED <<caller, pool, history>>
        BY DEF CreateAndLock
  <2>2. Insert(NewRow(<<k>>, p, TRUE))
        BY <1>3, <1>4, <2>1
  <2>3. Len(r.items) >= 1
    <3>1. Len(<<k>>) >= 1
          OBVIOUS
    <3> QED BY <1>7, <3>1
  <2> QED BY <1>7, <2>1, <2>2, <2>3 DEF Insert
<1>9. IsProc([proc[p] EXCEPT !.st = "item", !.pos = n, !.item = d],
             "item", proc[p].batch, n, d, proc[p].ok)
      BY <1>1, ProcUpdates DEF States
<1>10. PICK x \in Proc : /\ x = [proc[p] EXCEPT !.st = "item", !.pos = n, !.item = d]
                         /\ IsProc(x, "item", proc[p].batch, n, d, proc[p].ok)
      BY <1>9 DEF IsProc
<1>11. proc' = [proc EXCEPT ![p].st = "item", ![p].pos = proc[p].pos + 1,
                            ![p].item = [id |-> nextId, att |-> 0,
                                         items |-> <<proc[p].batch.items[proc[p].pos + 1]>>]]
      BY DEF CreateAndLock
<1>12. Moves(p, x) /\ proc'[p] = x
      BY <1>1, <1>3, <1>4, <1>5, <1>10, <1>11, MoveFacts DEF Moves, TypeOK
<1>13. /\ proc'[p].st = "item" /\ proc'[p].batch = proc[p].batch /\ proc'[p].pos = n
       /\ proc'[p].item = d
      BY <1>10, <1>12 DEF IsProc
<1>14. /\ nextId \in Ids /\ nextId \in table' /\ row'[nextId].items = <<k>>
      BY <1>1, <1>7, <1>8, InsertFacts
<1>15. RowsCarried /\ Removals /\ GoneCarried /\ Handed /\ nextId < nextId'
      BY <1>1, <1>8, InsertCarries, GoneSame, HandedSame DEF history
<1>16. TypeOK'
      BY <1>1, <1>8, <1>12, InsertFacts, MoveFacts DEF TypeOK, history
<1>17. Carries
      BY <1>1, <1>6, <1>12, <1>13, <1>15, MoverCarries
<1>18. /\ InBatch(p)'
       /\ CopyIn(proc'[p].batch, row', nextId')
       /\ Len(proc'[p].batch.items) # 1
       /\ BatchThere(p)'
       /\ \A j \in 1..Len(proc[p].batch.items) :
              Settles(proc[p].batch.items[j]) => Settles(proc[p].batch.items[j])'
      BY <1>2, <1>13, <1>16, <1>17, BatchStays
<1>19. CopyIn(proc'[p].item, row', nextId')
      BY <1>6, <1>13, <1>14, <1>15 DEF CopyIn
<1>20. InHand(p)'
      BY <1>3, <1>6, <1>13, <1>18, <1>19 DEF InHand, CopyOf
<1>21. ItemAtHand(p)'
      BY <1>3, <1>4, <1>6, <1>13, <1>14 DEF ItemAtHand
<1>22. Passed(p)'
  <2>1. \A j \in 1..(n - 1) : Settles(proc[p].batch.items[j])'
        BY <1>1, <1>2, <1>3, <1>18 DEF ProcInv, Passed
  <2> QED BY <1>13, <2>1 DEF Passed
<1>23. ProcInv(p)'
      BY <1>18, <1>20, <1>21, <1>22 DEF ProcInv
<1> QED BY <1>8, <1>12, <1>15, <1>16, <1>17, <1>23, MoverKeeps

\* A batch fails: the worker goes on to handle the failure of the batch.
LEMMA FailsKeeps ==
    ASSUME BatchInv, TypeOK', RowsCarried, GoneCarried, Removals, Handed, pool' = pool,
           NEW p \in Pids, InBatch(p), NEW r \in Proc, Moves(p, r),
           r.st = "failed", r.batch = proc[p].batch, r.pos = proc[p].pos
    PROVE  BatchInv'
<1>1. TypeOK /\ ProcInv(p)
      BY DEF BatchInv
<1>2. /\ proc'[p].st = "failed" /\ proc'[p].batch = proc[p].batch
      /\ proc'[p].pos = proc[p].pos
      BY <1>1, MoveFacts
<1>3. ~(AtHand(p)')
      BY <1>2 DEF AtHand
<1>4. Carries
      BY <1>1, <1>3, MoverCarries
<1>5. /\ InBatch(p)'
      /\ CopyIn(proc'[p].batch, row', nextId')
      /\ Len(proc'[p].batch.items) # 1
      /\ BatchThere(p)'
      BY <1>2, <1>4, BatchStays
<1>6. InHand(p)'
      BY <1>1, <1>2, <1>3, <1>5 DEF ProcInv, InHand, CopyOf
<1>7. ItemAtHand(p)' /\ Passed(p)'
      BY <1>2, <1>3 DEF ItemAtHand, Passed
<1>8. ProcInv(p)'
      BY <1>5, <1>6, <1>7 DEF ProcInv
<1> QED BY <1>4, <1>8, MoverKeeps

\* An error between the items, or after the last one.
LEMMA BatchRaisesKeeps ==
    ASSUME BatchInv, NEW p \in Pids, BatchRaises(p) \/ DestroyBatchRaises(p)
    PROVE  BatchInv'
<1>1. TypeOK /\ proc[p] \in Proc /\ ProcInv(p)
      BY DEF BatchInv, TypeOK
<1>2. InBatch(p) /\ UNCHANGED <<caller, database, pool, history>>
      BY <1>1 DEF BatchRaises, DestroyBatchRaises, ProcInv, InHand
<1>3. PICK r \in Proc : /\ Moves(p, r) /\ r.st = "failed"
                        /\ r.batch = proc[p].batch /\ r.pos = proc[p].pos
  <2>1. CASE BatchRaises(p)
    <3>1. IsProc([proc[p] EXCEPT !.st = "failed", !.item = NoCopy], "failed",
                 proc[p].batch, proc[p].pos, NoCopy, proc[p].ok)
          BY <1>1, ProcUpdates, NoProcFacts DEF States
    <3>2. proc' = [proc EXCEPT ![p] = [proc[p] EXCEPT !.st = "failed", !.item = NoCopy]]
          BY <1>1, <2>1 DEF BatchRaises, TypeOK
    <3> QED BY <3>1, <3>2 DEF Moves, IsProc
  <2>2. CASE DestroyBatchRaises(p)
    <3>1. IsProc([proc[p] EXCEPT !.st = "failed"], "failed",
                 proc[p].batch, proc[p].pos, proc[p].item, proc[p].ok)
          BY <1>1, ProcUpdates DEF States
    <3>2. proc' = [proc EXCEPT ![p] = [proc[p] EXCEPT !.st = "failed"]]
          BY <2>2 DEF DestroyBatchRaises
    <3> QED BY <3>1, <3>2 DEF Moves, IsProc
  <2> QED BY <2>1, <2>2
<1>4. TypeOK'
      BY <1>1, <1>2, <1>3, MoveFacts DEF TypeOK, database, history
<1>5. RowsCarried /\ Removals /\ GoneCarried /\ Handed
      BY <1>1, <1>2, TableSame, GoneSame, HandedSame DEF database, history
<1> QED BY <1>2, <1>3, <1>4, <1>5, FailsKeeps

\* The handling of an item's failure raises.
LEMMA HandlingRaisesKeeps ==
    ASSUME BatchInv, NEW p \in Pids, HandlingRaises(p)
    PROVE  BatchInv'
<1>1. TypeOK /\ proc[p] \in Proc /\ ProcInv(p)
      BY DEF BatchInv, TypeOK
<1>2. /\ InBatch(p) /\ proc[p].st = "ran" /\ AtHand(p)
      /\ UNCHANGED <<caller, row, nextId, pool, history>>
      /\ table' = table \/ table' = table \ {proc[p].item.id}
      BY DEF HandlingRaises, AtHand
<1>3. PICK r \in Proc : /\ Moves(p, r) /\ r.st = "failed"
                        /\ r.batch = proc[p].batch /\ r.pos = proc[p].pos
  <2>1. IsProc([proc[p] EXCEPT !.st = "failed", !.item = NoCopy, !.ok = TRUE], "failed",
               proc[p].batch, proc[p].pos, NoCopy, TRUE)
        BY <1>1, ProcUpdates, NoProcFacts DEF States
  <2>2. proc' = [proc EXCEPT ![p] = [proc[p] EXCEPT !.st = "failed", !.item = NoCopy, !.ok = TRUE]]
        BY <1>1 DEF HandlingRaises, TypeOK
  <2> QED BY <2>1, <2>2 DEF Moves, IsProc
<1>4. PICK i \in Ids : i = proc[p].item.id
      BY <1>1, <1>2 DEF ProcInv, InHand, CopyOf, CopyIn
<1>5. table' \in SUBSET Ids
      BY <1>1, <1>2 DEF TypeOK
<1>6. TypeOK'
      BY <1>1, <1>2, <1>3, <1>5, MoveFacts DEF TypeOK, history
<1>7. Abandoned(i)
  <2>1. proc'[p] = r
        BY <1>1, <1>3, MoveFacts
  <2> QED BY <1>2, <1>3, <1>4, <2>1 DEF Abandoned
<1>8. RowsCarried /\ Removals
  <2>1. CASE table' = table
        BY <1>1, <1>2, <2>1, TableSame
  <2>2. CASE table' = table \ {i}
        BY <1>1, <1>2, <1>7, <2>2, DestroyCarries
  <2> QED BY <1>2, <1>4, <2>1, <2>2
<1>9. GoneCarried /\ Handed
      BY <1>2, GoneSame, HandedSame DEF history
<1> QED BY <1>2, <1>3, <1>6, <1>8, <1>9, FailsKeeps

\* The job at hand stays at hand, and the table is left alone.
LEMMA StillAtHand ==
    ASSUME BatchInv, TypeOK', UNCHANGED <<database, pool>>, GoneCarried, Handed,
           NEW p \in Pids, AtHand(p), NEW r \in Proc, Moves(p, r),
           r.st \in {"item", "ran"}, r.batch = proc[p].batch, r.pos = proc[p].pos,
           r.item = proc[p].item,
           r.st = "ran" /\ r.ok => done'[proc[p].item.items[1]] > 0
    PROVE  BatchInv'
<1>1. TypeOK /\ ProcInv(p) /\ proc[p] \in Proc
      BY DEF BatchInv, TypeOK
<1>2. proc'[p] = r /\ AtHand(p)' /\ (InBatch(p)' <=> InBatch(p))
      BY <1>1, MoveFacts DEF AtHand, InBatch
<1>3. table' = table /\ row' = row /\ nextId' = nextId
      BY DEF database
<1>4. RowsCarried /\ Removals
      BY <1>1, <1>3, TableSame
<1>5. Carries
      BY <1>1, <1>2, <1>4, MoverCarries
<1>6. proc[p].batch \in Copy /\ proc[p].item \in Copy /\ proc[p].pos \in Nat
      BY <1>1 DEF Proc
<1>7. CopyOf(proc[p].item) /\ Len(proc[p].item.items) = 1
      BY <1>1 DEF ProcInv, InHand
<1>8. InBatch(p) => /\ CopyIn(proc'[p].batch, row', nextId')
                    /\ Len(proc'[p].batch.items) # 1
                    /\ BatchThere(p)'
                    /\ \A j \in 1..Len(proc[p].batch.items) :
                           Settles(proc[p].batch.items[j]) => Settles(proc[p].batch.items[j])'
      BY <1>2, <1>5, BatchStays
<1>9. InHand(p)'
      BY <1>1, <1>2, <1>3, <1>7, <1>8 DEF ProcInv, InHand, CopyOf, CopyIn, AtHand
<1>10. ItemAtHand(p)'
  <2>1. proc[p].item.items[1] \in Items
        BY <1>6, <1>7 DEF Copy
  <2> QED BY <1>1, <1>2, <1>3, <2>1 DEF ProcInv, ItemAtHand, GoneCarried
<1>11. Passed(p)'
  <2>1. InBatch(p) => Len(proc[p].batch.items) \in Nat /\ proc[p].pos <= Len(proc[p].batch.items)
        BY <1>1, <1>6 DEF ProcInv, InHand, Copy
  <2>2. InBatch(p) => \A j \in 1..(proc[p].pos - 1) : j \in 1..Len(proc[p].batch.items)
        BY <1>6, <2>1
  <2>3. InBatch(p) => \A j \in 1..(proc[p].pos - 1) : Settles(proc[p].batch.items[j])'
        BY <1>1, <1>8, <2>2 DEF ProcInv, Passed
  <2>4. proc'[p].st # "batch"
        BY <1>2
  <2> QED BY <1>2, <2>3, <2>4 DEF Passed
<1>12. BatchThere(p)'
      BY <1>2, <1>8 DEF BatchThere
<1>13. ProcInv(p)'
      BY <1>9, <1>10, <1>11, <1>12 DEF ProcInv
<1> QED BY <1>5, <1>13, MoverKeeps

\* A job returns or raises.
LEMMA InvokeKeeps ==
    ASSUME BatchInv, NEW p \in Pids, NEW ok \in BOOLEAN, Invoke(p, ok)
    PROVE  BatchInv'
<1>1. TypeOK /\ proc[p] \in Proc /\ ProcInv(p) /\ AtHand(p) /\ proc[p].item \in Copy
      BY DEF BatchInv, TypeOK, Invoke, AtHand, Proc
<1>2. PICK k \in Items : k = proc[p].item.items[1]
      BY <1>1 DEF ProcInv, InHand, Copy
<1>3. /\ UNCHANGED <<caller, database, pool, dropped, refused>>
      /\ tried' = tried \cup {k}
      /\ done' = IF ok THEN [done EXCEPT ![k] = IF done[k] < Often THEN done[k] + 1 ELSE done[k]]
                 ELSE done
      BY <1>2 DEF Invoke
<1>4. /\ done' \in [Items -> 0..Often]
      /\ \A l \in Items : done[l] > 0 => done'[l] > 0
      /\ ok => done'[k] > 0
  <2>1. done \in [Items -> 0..2]
        BY <1>1 DEF TypeOK, Often
  <2>2. done[k] \in 0..2
        BY <2>1
  <2>3. PICK m \in 0..2 : m = (IF done[k] < 2 THEN done[k] + 1 ELSE done[k]) /\ m > 0
        BY <2>2
  <2>4. CASE ok
    <3>1. done' = [done EXCEPT ![k] = m]
          BY <1>3, <2>3, <2>4 DEF Often
    <3> QED BY <2>1, <2>3, <3>1 DEF Often
  <2>5. CASE ~ok
        BY <1>3, <2>1, <2>5 DEF Often
  <2> QED BY <2>4, <2>5
<1>5. PICK r \in Proc : /\ Moves(p, r) /\ r.st = "ran" /\ r.batch = proc[p].batch
                        /\ r.pos = proc[p].pos /\ r.item = proc[p].item /\ r.ok = ok
  <2>1. IsProc([proc[p] EXCEPT !.st = "ran", !.ok = ok], "ran",
               proc[p].batch, proc[p].pos, proc[p].item, ok)
        BY <1>1, ProcUpdates DEF States
  <2>2. proc' = [proc EXCEPT ![p] = [proc[p] EXCEPT !.st = "ran", !.ok = ok]]
        BY <1>1 DEF Invoke, TypeOK
  <2> QED BY <2>1, <2>2 DEF Moves, IsProc
<1>6. TypeOK'
      BY <1>1, <1>3, <1>4, <1>5, MoveFacts DEF TypeOK, database
<1>7. GoneCarried /\ Handed
      BY <1>3, <1>4, HandedSame DEF GoneCarried
<1> QED BY <1>1, <1>2, <1>3, <1>4, <1>5, <1>6, <1>7, StillAtHand

\* The destroy of a job performed raises.
LEMMA DestroyRaisesKeeps ==
    ASSUME BatchInv, NEW p \in Pids, DestroyRaises(p)
    PROVE  BatchInv'
<1>1. TypeOK /\ proc[p] \in Proc /\ AtHand(p)
      BY DEF BatchInv, TypeOK, DestroyRaises, AtHand
<1>2. UNCHANGED <<caller, database, pool, history>>
      BY DEF DestroyRaises
<1>3. PICK r \in Proc : /\ Moves(p, r) /\ r.st = "ran" /\ r.batch = proc[p].batch
                        /\ r.pos = proc[p].pos /\ r.item = proc[p].item /\ r.ok = FALSE
  <2>1. IsProc([proc[p] EXCEPT !.ok = FALSE], proc[p].st,
               proc[p].batch, proc[p].pos, proc[p].item, FALSE)
        BY <1>1, ProcUpdates
  <2> QED BY <2>1 DEF Moves, IsProc, DestroyRaises
<1>4. TypeOK'
      BY <1>1, <1>2, <1>3, MoveFacts DEF TypeOK, database, history
<1>5. GoneCarried /\ Handed
      BY <1>2, GoneSame, HandedSame DEF history
<1> QED BY <1>1, <1>2, <1>3, <1>4, <1>5, StillAtHand

\* What a worker is left with after a job.
LEMMA BackFacts ==
    ASSUME NEW p \in Pids, proc[p] \in Proc
    PROVE  \E r \in Proc : /\ r = Back(p)
                           /\ r.st = IF InBatch(p) THEN "batch" ELSE "check"
                           /\ r.batch = proc[p].batch /\ r.pos = proc[p].pos
<1>1. (IF InBatch(p) THEN "batch" ELSE "check") \in States
      BY DEF States
<1>2. PICK st \in States : st = IF InBatch(p) THEN "batch" ELSE "check"
      BY <1>1
<1>3. IsProc([proc[p] EXCEPT !.st = st, !.item = NoCopy, !.ok = TRUE], st,
             proc[p].batch, proc[p].pos, NoCopy, TRUE)
      BY ProcUpdates, NoProcFacts
<1> QED BY <1>2, <1>3 DEF IsProc, Back

\* The worker is through with the job at hand, which needs its batch, if it
\* is in one, no more.
LEMMA BackKeeps ==
    ASSUME BatchInv, TypeOK', RowsCarried, GoneCarried, Removals, Handed, pool' = pool,
           NEW p \in Pids, proc[p].st = "ran",
           NEW r \in Proc, r = Back(p), Moves(p, r),
           r.st = IF InBatch(p) THEN "batch" ELSE "check",
           r.batch = proc[p].batch, r.pos = proc[p].pos,
           NEW k \in Items, k = proc[p].item.items[1], InBatch(p) => Settles(k)'
    PROVE  BatchInv'
<1>1. TypeOK /\ ProcInv(p) /\ proc[p] \in Proc /\ AtHand(p)
      BY DEF BatchInv, TypeOK, AtHand
<1>2. CASE ~InBatch(p)
      BY <1>2, FreeKeeps DEF InBatch
<1>3. CASE InBatch(p)
  <2>1. /\ proc'[p].st = "batch" /\ proc'[p].batch = proc[p].batch
        /\ proc'[p].pos = proc[p].pos
        BY <1>1, <1>3, MoveFacts
  <2>2. ~(AtHand(p)')
        BY <2>1 DEF AtHand
  <2>3. Carries
        BY <1>1, <2>2, MoverCarries
  <2>4. /\ InBatch(p)'
        /\ CopyIn(proc'[p].batch, row', nextId')
        /\ Len(proc'[p].batch.items) # 1
        /\ BatchThere(p)'
        /\ \A j \in 1..Len(proc[p].batch.items) :
               Settles(proc[p].batch.items[j]) => Settles(proc[p].batch.items[j])'
        BY <1>3, <2>1, <2>3, BatchStays
  <2>5. InHand(p)'
        BY <1>1, <1>3, <2>1, <2>2, <2>4 DEF ProcInv, InHand, CopyOf
  <2>6. ItemAtHand(p)'
        BY <2>2 DEF ItemAtHand
  <2>7. PICK n \in Nat : /\ n = proc[p].pos /\ n >= 1
                         /\ n <= Len(proc[p].batch.items)
                         /\ Len(proc[p].batch.items) \in Nat
    <3>1. proc[p].pos \in Nat /\ proc[p].batch \in Copy
          BY <1>1 DEF Proc
    <3>2. Len(proc[p].batch.items) \in Nat
          BY <3>1 DEF Copy
    <3> QED BY <1>1, <1>3, <3>1, <3>2 DEF ProcInv, InHand, ItemAtHand
  <2>8. \A j \in 1..n : j \in 1..Len(proc[p].batch.items) /\ (j = n \/ j \in 1..(n - 1))
        BY <2>7
  <2>9. \A j \in 1..(n - 1) : Settles(proc[p].batch.items[j])
        BY <1>1, <1>3, <2>7 DEF ProcInv, Passed
  <2>10. Settles(proc[p].batch.items[n])'
    <3>1. proc'[p].batch.items[n] = k
          BY <1>1, <1>3, <2>1, <2>7 DEF ProcInv, ItemAtHand
    <3>2. Settles(k)'
          BY <1>3
    <3> QED BY <3>1, <3>2 DEF Settles
  <2>11. \A j \in 1..n : Settles(proc[p].batch.items[j])'
        BY <2>4, <2>8, <2>9, <2>10
  <2>12. Passed(p)'
        BY <2>1, <2>2, <2>7, <2>11 DEF Passed
  <2>13. ProcInv(p)'
        BY <2>4, <2>5, <2>6, <2>12 DEF ProcInv
  <2> QED BY <2>3, <2>13, MoverKeeps
<1> QED BY <1>2, <1>3

\* A job performed is destroyed.
LEMMA CompleteKeeps ==
    ASSUME BatchInv, NEW p \in Pids, Complete(p)
    PROVE  BatchInv'
<1>1. TypeOK /\ proc[p] \in Proc /\ ProcInv(p) /\ AtHand(p) /\ proc[p].item \in Copy
      BY DEF BatchInv, TypeOK, Complete, AtHand, Proc
<1>2. /\ proc[p].st = "ran" /\ proc[p].ok
      /\ UNCHANGED <<caller, row, nextId, pool, history>>
      /\ table' = table \ {proc[p].item.id}
      BY DEF Complete, Destroy
<1>3. PICK r \in Proc : /\ r = Back(p)
                        /\ r.st = IF InBatch(p) THEN "batch" ELSE "check"
                        /\ r.batch = proc[p].batch /\ r.pos = proc[p].pos
      BY <1>1, BackFacts
<1>4. Moves(p, r)
      BY <1>3 DEF Complete, Moves
<1>5. PICK i \in Ids : /\ i = proc[p].item.id /\ row[i].items = proc[p].item.items
                       /\ Len(row[i].items) = 1
      BY <1>1 DEF ProcInv, InHand, CopyOf, CopyIn
<1>6. done'[proc[p].item.items[1]] > 0
      BY <1>1, <1>2 DEF ProcInv, InHand, history
<1>7. \A k \in ItemsOf(row[i]) : Gone(k)'
  <2>1. \A k \in ItemsOf(row[i]) : k = row[i].items[1]
    <3>1. \A n \in 1..1 : n = 1
          OBVIOUS
    <3> QED BY <1>5, <3>1 DEF ItemsOf
  <2> QED BY <1>5, <1>6, <2>1 DEF Gone
<1>8. RowsCarried /\ Removals
      BY <1>1, <1>2, <1>5, <1>7, DestroyCarries
<1>9. GoneCarried /\ Handed
      BY <1>2, GoneSame, HandedSame DEF history
<1>10. TypeOK'
  <2>1. table' \in SUBSET Ids
        BY <1>1, <1>2 DEF TypeOK
  <2> QED BY <1>1, <1>2, <1>4, <2>1, MoveFacts DEF TypeOK, history
<1>11. PICK k \in Items : k = proc[p].item.items[1] /\ done'[k] > 0
      BY <1>1, <1>5, <1>6 DEF Copy
<1>12. Settles(k)'
      BY <1>11 DEF Settles
<1> QED BY <1>2, <1>3, <1>4, <1>8, <1>9, <1>10, <1>11, <1>12, BackKeeps

\* A job that failed is retried or given up.
LEMMA HandleKeeps ==
    ASSUME BatchInv, NEW p \in Pids, HandleFailedJob(p)
    PROVE  BatchInv'
<1>1. TypeOK /\ proc[p] \in Proc /\ ProcInv(p) /\ AtHand(p)
      BY DEF BatchInv, TypeOK, HandleFailedJob, AtHand
<1>2. /\ proc[p].st = "ran"
      /\ Reschedule(proc[p].item)
      /\ UNCHANGED <<caller, pool, done, tried, refused>>
      BY DEF HandleFailedJob
<1>3. PICK r \in Proc : /\ r = Back(p)
                        /\ r.st = IF InBatch(p) THEN "batch" ELSE "check"
                        /\ r.batch = proc[p].batch /\ r.pos = proc[p].pos
      BY <1>1, BackFacts
<1>4. Moves(p, r)
      BY <1>3 DEF HandleFailedJob, Moves
<1>5. PICK c \in Copy : /\ c = proc[p].item /\ CopyIn(c, row, nextId)
                        /\ Len(c.items) = 1 /\ Reschedule(c)
      BY <1>1, <1>2 DEF ProcInv, InHand, CopyOf, Proc
<1>6. RowsCarried /\ Removals /\ GoneCarried
      BY <1>1, <1>2, <1>5, RescheduleCarries
<1>7. Handed
      BY <1>2, HandedSame
<1>8. TypeOK'
      BY <1>1, <1>2, <1>4, <1>5, RescheduleFacts, MoveFacts DEF TypeOK
<1>9. ASSUME InBatch(p)
      PROVE  Settles(c.items[1])'
  <2>1. \/ table' = table /\ dropped' = dropped
        \/ dropped' = dropped \cup ItemsOf(c)
        BY <1>1, <1>5, RescheduleFacts
  <2>2. CASE dropped' = dropped \cup ItemsOf(c)
    <3>1. c.items[1] \in ItemsOf(c)
          BY <1>5 DEF ItemsOf
    <3> QED BY <2>2, <3>1 DEF Settles
  <2>3. CASE table' = table /\ dropped' = dropped
    <3>1. c.id \in table \/ done[c.items[1]] > 0 \/ c.items[1] \in dropped
          BY <1>1, <1>5, <1>9 DEF ProcInv, ItemAtHand
    <3>2. CASE c.id \in table
      <4>1. ~HeldInBatch(c.id)'
        <5>1. \A q \in Pids : q # p => proc'[q] = proc[q]
              BY <1>1, <1>4, MoveFacts
        <5>2. proc'[p].st = "batch"
              BY <1>1, <1>3, <1>4, <1>9, MoveFacts
        <5>3. ASSUME NEW q \in Pids, InBatch(q)', AtHand(q)', proc'[q].item.id = c.id
              PROVE  FALSE
          <6>1. q # p
                BY <5>2, <5>3 DEF AtHand
          <6>2. InBatch(q) /\ AtHand(q) /\ proc[q].item.id = proc[p].item.id
                BY <1>5, <5>1, <5>3, <6>1 DEF InBatch, AtHand
          <6> QED BY <1>1, <1>9, <6>1, <6>2 DEF BatchInv, ItemsApart
        <5> QED BY <5>3 DEF HeldInBatch
      <4>2. row'[c.id].items = <<c.items[1]>>
        <5>1. row'[c.id].items = c.items
              BY <1>1, <1>5, RescheduleFacts DEF CopyIn
        <5>2. c.items = <<c.items[1]>>
              BY <1>1, <1>5, <1>9 DEF ProcInv, ItemAtHand
        <5> QED BY <5>1, <5>2
      <4> QED BY <2>3, <3>2, <4>1, <4>2 DEF Settles
    <3>3. CASE done[c.items[1]] > 0 \/ c.items[1] \in dropped
          BY <1>2, <2>3, <3>3 DEF Settles
    <3> QED BY <3>1, <3>2, <3>3
  <2> QED BY <2>1, <2>2, <2>3
<1>10. PICK k \in Items : k = c.items[1]
      BY <1>5 DEF Copy
<1>11. InBatch(p) => Settles(k)'
      BY <1>9, <1>10
<1> QED BY <1>2, <1>3, <1>4, <1>5, <1>6, <1>7, <1>8, <1>10, <1>11, BackKeeps

\* A batch that is through is destroyed.
LEMMA CompleteBatchKeeps ==
    ASSUME BatchInv, NEW p \in Pids, CompleteBatch(p)
    PROVE  BatchInv'
<1>1. TypeOK /\ ProcInv(p)
      BY DEF BatchInv
<1>2. /\ proc[p].st = "batch" /\ InBatch(p)
      /\ proc[p].pos = Len(proc[p].batch.items)
      /\ UNCHANGED <<caller, row, nextId, pool, history>>
      /\ table' = table \ {proc[p].batch.id}
      BY <1>1 DEF CompleteBatch, Destroy, ProcInv, InHand
<1>3. PICK i \in Ids : /\ i = proc[p].batch.id /\ row[i].items = proc[p].batch.items
                       /\ Len(row[i].items) # 1
      BY <1>1, <1>2 DEF ProcInv, InHand, CopyOf, CopyIn
<1>4. \A k \in ItemsOf(row[i]) : Settles(k)
  <2>1. \A n \in 1..Len(row[i].items) : Settles(row[i].items[n])
        BY <1>1, <1>2, <1>3 DEF ProcInv, Passed
  <2> QED BY <2>1 DEF ItemsOf
<1>5. RowsCarried /\ Removals
      BY <1>1, <1>2, <1>3, <1>4, DestroyCarries
<1>6. GoneCarried /\ Handed
      BY <1>2, GoneSame, HandedSame DEF history
<1>7. IsProc([NoProc EXCEPT !.st = "check"], "check", NoCopy, 0, NoCopy, TRUE)
      BY FreshProc DEF States
<1>8. PICK r \in Proc : Moves(p, r) /\ r.st = "check" /\ r.batch = NoCopy
      BY <1>7 DEF IsProc, CompleteBatch, Moves
<1>9. TypeOK'
  <2>1. table' \in SUBSET Ids
        BY <1>1, <1>2 DEF TypeOK
  <2> QED BY <1>1, <1>2, <1>8, <2>1, MoveFacts DEF TypeOK, history
<1> QED BY <1>2, <1>5, <1>6, <1>8, <1>9, FreeKeeps

\* A batch that failed is retried or given up.
LEMMA HandleBatchKeeps ==
    ASSUME BatchInv, NEW p \in Pids, HandleFailedBatch(p)
    PROVE  BatchInv'
<1>1. TypeOK /\ ProcInv(p) /\ proc[p] \in Proc
      BY DEF BatchInv, TypeOK
<1>2. /\ InBatch(p)
      /\ Reschedule(proc[p].batch)
      /\ UNCHANGED <<caller, pool, done, tried, refused>>
      BY <1>1 DEF HandleFailedBatch, ProcInv, InHand
<1>3. PICK c \in Copy : CopyIn(c, row, nextId) /\ Reschedule(c)
      BY <1>1, <1>2 DEF ProcInv, InHand, CopyOf, Proc
<1>4. RowsCarried /\ Removals /\ GoneCarried /\ Handed
      BY <1>1, <1>2, <1>3, RescheduleCarries, HandedSame
<1>5. IsProc([NoProc EXCEPT !.st = "check"], "check", NoCopy, 0, NoCopy, TRUE)
      BY FreshProc DEF States
<1>6. PICK r \in Proc : Moves(p, r) /\ r.st = "check" /\ r.batch = NoCopy
      BY <1>5 DEF IsProc, HandleFailedBatch, Moves
<1>7. TypeOK'
      BY <1>1, <1>2, <1>3, <1>6, RescheduleFacts, MoveFacts DEF TypeOK
<1> QED BY <1>2, <1>4, <1>6, <1>7, FreeKeeps

-----------------------------------------------------------------------------
(* The theorem.                                                            *)

\* The initial states.
LEMMA InitHolds == Init => BatchInv
<1> SUFFICES ASSUME Init PROVE BatchInv
    OBVIOUS
<1>1. <<>> \in Seq(Items)
      OBVIOUS
<1>2. TypeOK
  <2>1. NewRow(<<>>, Nobody, FALSE) \in Row
        BY <1>1, NewRowType
  <2>2. nextId \in 1..(MaxId + 1)
        BY BoundsAssumption DEF Init
  <2>3. done \in [Items -> 0..Often]
        BY DEF Init, Often
  <2>4. caller \in [st : {"out", "in", "flush"}, batches : [Groups -> Seq(Items)]]
        BY <1>1 DEF Init
  <2>5. row \in [Ids -> Row] /\ proc \in [Pids -> Proc]
        BY <2>1, NoProcFacts DEF Init
  <2>6. table \in SUBSET Ids /\ pool \in [sweep : BOOLEAN, orphans : SUBSET Orphan]
        BY DEF Init
  <2>7. tried \in SUBSET Items /\ dropped \in SUBSET Items /\ refused \in SUBSET Items
        BY DEF Init
  <2> QED BY <2>2, <2>3, <2>4, <2>5, <2>6, <2>7 DEF TypeOK
<1>3. RowsIssued
  <2>1. \A i \in 1..MaxId : ~(i < 1)
        BY BoundsAssumption
  <2>2. table = {} /\ nextId = 1
        BY DEF Init
  <2> QED BY <2>1, <2>2 DEF RowsIssued, Ids
<1>4. \A p \in Pids : ~InBatch(p) /\ ~AtHand(p) /\ proc[p].st = "none"
      BY FreshProc, NoProcFacts DEF Init, InBatch, AtHand, IsProc
<1>5. \A p \in Pids : ProcInv(p)
      BY <1>4 DEF ProcInv, InHand, ItemAtHand, Passed, BatchThere
<1>6. ItemsApart /\ \A o \in pool.orphans : CopyOf(o.copy)
      BY <1>4 DEF ItemsApart, Init
<1>7. Sent = {}
  <2>1. \A n \in 1..Len(<<>>) : FALSE
        OBVIOUS
  <2>2. Collected = {}
        BY <2>1 DEF Init, Collected
  <2>3. 1..(nextId - 1) = {}
        BY DEF Init
  <2> QED BY <2>2, <2>3 DEF Init, Sent
<1> QED BY <1>2, <1>3, <1>5, <1>6, <1>7 DEF BatchInv, ItemsKept

\* Every step.
LEMMA NextKeeps == BatchInv /\ [Next]_vars => BatchInv'
<1> SUFFICES ASSUME BatchInv, [Next]_vars PROVE BatchInv'
    OBVIOUS
<1>1. CASE UNCHANGED vars
  <2>1. /\ UNCHANGED <<caller, pool, history>> /\ proc' = proc
        /\ nextId' = nextId /\ table' = table /\ row' = row
        BY <1>1 DEF vars, history
  <2>2. TypeOK'
        BY <2>1 DEF BatchInv, TypeOK, history
  <2>3. RowsCarried /\ Removals /\ GoneCarried /\ Handed
        BY <2>1, TableSame, GoneSame, HandedSame DEF BatchInv, history
  <2> QED BY <2>1, <2>2, <2>3, QuietKeeps
<1>2. CASE CallerNext
      BY <1>2, CallerKeeps, CollectKeeps, FlushKeeps, FlushRaisesKeeps, EnqueueAtKeeps
         DEF CallerNext
<1>3. CASE PoolNext
      BY <1>3, SweepKeeps, ReapKeeps, IdleKeeps DEF PoolNext
<1>4. CASE TimeNext \/ ExpiryNext
      BY <1>4, TimeKeeps DEF TimeNext, ExpiryNext
<1>5. ASSUME NEW p \in Pids, Step(p)
      PROVE  BatchInv'
      BY <1>5, TakeKeeps, IdleKeeps, CreateKeeps, InvokeKeeps, CompleteKeeps,
         HandleKeeps, CompleteBatchKeeps, HandleBatchKeeps DEF Step
<1>6. ASSUME NEW p \in Pids, Fail(p)
      PROVE  BatchInv'
      BY <1>6, BatchRaisesKeeps, DestroyRaisesKeeps, HandlingRaisesKeeps, IdleKeeps DEF Fail
<1> QED BY <1>1, <1>2, <1>3, <1>4, <1>5, <1>6 DEF Next, CoreNext

\* The inductive invariant.
LEMMA BatchInvariant == Spec => []BatchInv
BY InitHolds, NextKeeps, PTL DEF Spec

\* The rows, the objects made from them and the state of every process,
\* pool and caller keep their types (delayed_jobs and the objects of the
\* workers).
THEOREM TypeCorrect == Spec => []TypeOK
<1>1. BatchInv => TypeOK
      BY DEF BatchInv
<1> QED BY <1>1, BatchInvariant, PTL

\* Whatever raises, whoever dies and whatever lock expires, an item handed to
\* serial_batch is with the caller, in the row of its batch or in a row of
\* its own, until it has returned or was given up (Delayed::Batch, and
\* Worker#perform and perform_batch).
THEOREM NoItemLost == Spec => []ItemsKept
<1>1. BatchInv => ItemsKept
      BY DEF BatchInv
<1> QED BY <1>1, BatchInvariant, PTL

-----------------------------------------------------------------------------
(* The batch in operation, while no worker dies and nothing but the jobs   *)
(* raises: CoreSpec.  The rows that workers have at hand are the locked    *)
(* rows, so that whatever one worker knows of an item holds for all.       *)

\* What a process in state r has at hand: a row of its own, its batch.
Has(r, i) == \/ r.st \in {"item", "ran"} /\ r.item.id = i
             \/ r.batch # NoCopy /\ r.batch.id = i
Reaches(r, i, n) == r.batch # NoCopy /\ r.batch.id = i /\ r.pos >= n
Returned(r, i) == r.st = "ran" /\ r.ok /\ r.item.id = i

Issued == {i \in Ids : i < nextId}
Single(i) == Len(row[i].items) = 1
Begun(k) == \E j \in Issued : row[j].items = <<k>>

NothingFails == (\A p \in Pids : proc[p].st # "failed") /\ pool.orphans = {}

LockedAtHand ==
    \A p \in Pids, i \in Ids : Has(proc[p], i) <=> i \in table /\ row[i].by = p

\* A job is enqueued once: into one place of one batch ...
CollectedOnce ==
    /\ \A g, h \in Groups :
           \A m \in 1..Len(caller.batches[g]), n \in 1..Len(caller.batches[h]) :
               caller.batches[g][m] = caller.batches[h][n] => g = h /\ m = n
    /\ \A i \in Issued : \A k \in ItemsOf(row[i]) : k \notin Collected
\* ... and has one row as an item of a batch, and one of its own.
EnqueuedOnce ==
    /\ \A i \in Issued : \A m, n \in 1..Len(row[i].items) :
           row[i].items[m] = row[i].items[n] => m = n
    /\ \A i, j \in Issued : \A k :
           k \in ItemsOf(row[i]) /\ k \in ItemsOf(row[j]) /\ (Single(i) <=> Single(j)) => i = j

\* An item of a batch has a row of its own once the batch has reached it.
ReachedBegun ==
    \A i \in table : \A n \in 1..Len(row[i].items) :
        ~Single(i) /\ Begun(row[i].items[n]) => \E p \in Pids : Reaches(proc[p], i, n)

TriedBegun == /\ \A k \in tried : Begun(k)
              /\ \A k \in Items : done[k] > 0 => k \in tried

\* The row of an item that has returned is about to be destroyed.
ReturnedGoes ==
    \A k \in Items : \A i \in table :
        row[i].items = <<k>> /\ done[k] > 0 => \E p \in Pids : Returned(proc[p], i)

TriedTo(r) == r.batch # NoCopy =>
    \A m \in 1..r.pos : r.batch.items[m] \in tried \/ (m = r.pos /\ r.st = "item")
TriedInOrder == \A p \in Pids : TriedTo(proc[p])

CoreInv == /\ NothingFails /\ LockedAtHand
           /\ CollectedOnce /\ EnqueuedOnce
           /\ ReachedBegun /\ TriedBegun /\ ReturnedGoes /\ OncePerItem /\ TriedInOrder

\* A row of one item is the row of that item.
LEMMA OneItem ==
    ASSUME NEW s \in Seq(Items)
    PROVE  /\ Len(s) = 1 => s[1] \in Items /\ s = <<s[1]>>
           /\ \A k : s = <<k>> => Len(s) = 1 /\ s[1] = k
<1>1. ASSUME Len(s) = 1 PROVE s[1] \in Items /\ s = <<s[1]>>
      BY <1>1
<1>2. ASSUME NEW k, s = <<k>> PROVE Len(s) = 1 /\ s[1] = k
      BY <1>2
<1> QED BY <1>1, <1>2

\* What BatchInv says of the rows.
LEMMA IssuedFacts ==
    ASSUME BatchInv
    PROVE  /\ nextId \in Nat /\ Ids \subseteq Nat /\ table \subseteq Issued /\ nextId \notin Issued
           /\ \A i \in Ids : row[i] \in Row /\ row[i].items \in Seq(Items) /\ Len(row[i].items) \in Nat
           /\ \A i \in Issued : Len(row[i].items) >= 1
           /\ \A k : Begun(k) <=> \E j \in Issued : Single(j) /\ k \in ItemsOf(row[j])
<1>1. /\ nextId \in Nat /\ Ids \subseteq Nat /\ table \subseteq Issued
      /\ \A i \in Ids : row[i] \in Row /\ row[i].items \in Seq(Items)
      /\ \A i \in Issued : Len(row[i].items) >= 1
      BY IdFacts DEF BatchInv, RowsIssued, Issued, TypeOK
<1>2. nextId \notin Issued /\ \A i \in Ids : Len(row[i].items) \in Nat
      BY <1>1 DEF Issued
<1>3. ASSUME NEW k, NEW j \in Issued
      PROVE  row[j].items = <<k>> <=> Single(j) /\ k \in ItemsOf(row[j])
  <2>1. row[j].items \in Seq(Items)
        BY <1>1 DEF Issued
  <2>2. ASSUME row[j].items = <<k>> PROVE Single(j) /\ k \in ItemsOf(row[j])
        BY <2>1, <2>2, OneItem DEF Single, ItemsOf
  <2>3. ASSUME Single(j), k \in ItemsOf(row[j]) PROVE row[j].items = <<k>>
        BY <2>1, <2>3, OneItem DEF Single, ItemsOf
  <2> QED BY <2>2, <2>3
<1> QED BY <1>1, <1>2, <1>3 DEF Begun

\* What BatchInv says of a process.
LEMMA HandFacts ==
    ASSUME BatchInv, NEW p \in Pids
    PROVE  /\ proc[p] \in Proc
           /\ proc[p].batch # NoCopy =>
                /\ proc[p].st \in {"batch", "item", "ran", "failed"}
                /\ proc[p].batch.id \in Issued
                /\ proc[p].batch.items = row[proc[p].batch.id].items
                /\ ~Single(proc[p].batch.id)
                /\ proc[p].pos \in Nat /\ proc[p].pos <= Len(proc[p].batch.items)
           /\ proc[p].st \in {"batch", "failed"} => proc[p].batch # NoCopy
           /\ proc[p].st \in {"item", "ran"} =>
                /\ proc[p].item.id \in Issued
                /\ proc[p].item.items = row[proc[p].item.id].items
                /\ Single(proc[p].item.id)
                /\ proc[p].item.items[1] \in Items
                /\ proc[p].item.items = <<proc[p].item.items[1]>>
                /\ proc[p].batch # NoCopy =>
                     proc[p].pos >= 1 /\ proc[p].item.items[1] = proc[p].batch.items[proc[p].pos]
<1>1. /\ proc[p] \in Proc /\ proc[p].pos \in Nat /\ InHand(p) /\ ItemAtHand(p)
      BY DEF BatchInv, ProcInv, TypeOK, Proc
<1>2. ASSUME proc[p].st \in {"item", "ran"}
      PROVE  /\ proc[p].item.id \in Issued
             /\ proc[p].item.items = row[proc[p].item.id].items
             /\ Single(proc[p].item.id)
      BY <1>1, <1>2 DEF InHand, AtHand, CopyOf, CopyIn, Issued, Single
<1>3. ASSUME proc[p].st \in {"item", "ran"}
      PROVE  /\ proc[p].item.items[1] \in Items
             /\ proc[p].item.items = <<proc[p].item.items[1]>>
  <2>1. PICK i \in Issued : i = proc[p].item.id /\ proc[p].item.items = row[i].items /\ Single(i)
        BY <1>2, <1>3
  <2>2. i \in Ids /\ row[i].items \in Seq(Items)
        BY IssuedFacts DEF Issued
  <2>3. Len(row[i].items) = 1
        BY <2>1 DEF Single
  <2>4. row[i].items[1] \in Items /\ row[i].items = <<row[i].items[1]>>
        BY <2>2, <2>3, OneItem
  <2> QED BY <2>1, <2>4
<1>4. ASSUME proc[p].st \in {"item", "ran"}, proc[p].batch # NoCopy
      PROVE  proc[p].pos >= 1 /\ proc[p].item.items[1] = proc[p].batch.items[proc[p].pos]
  <2>1. proc[p].pos >= 1 /\ proc[p].item.items = <<proc[p].batch.items[proc[p].pos]>>
        BY <1>1, <1>4 DEF ItemAtHand, InBatch, AtHand
  <2> QED BY <2>1
<1> QED BY <1>1, <1>2, <1>3, <1>4 DEF InHand, InBatch, CopyOf, CopyIn, Issued, Single

\* A row is at hand with one worker at most.
LEMMA OneHas ==
    ASSUME LockedAtHand, NEW p \in Pids, NEW q \in Pids, NEW i \in Ids, Has(proc[p], i), Has(proc[q], i)
    PROVE  p = q
BY DEF LockedAtHand

\* The items of the rows and the caller's batches stay: so does what is said of
\* them.
LEMMA ItemsSame ==
    ASSUME nextId' = nextId, \A i \in Ids : row'[i].items = row[i].items
    PROVE  /\ Issued' = Issued
           /\ \A i \in Ids : Single(i)' = Single(i) /\ ItemsOf(row'[i]) = ItemsOf(row[i])
           /\ \A k : Begun(k)' = Begun(k)
           /\ EnqueuedOnce => EnqueuedOnce'
           /\ CollectedOnce /\ caller'.batches = caller.batches => CollectedOnce'
<1>1. Issued' = Issued /\ Issued \subseteq Ids
      BY DEF Issued, Ids
<1>2. \A i \in Ids : Single(i)' = Single(i) /\ ItemsOf(row'[i]) = ItemsOf(row[i])
      BY DEF Single, ItemsOf
<1>3. \A k : Begun(k)' = Begun(k)
      BY <1>1 DEF Begun
<1>4. ASSUME EnqueuedOnce PROVE EnqueuedOnce'
  <2>1. \A i \in Issued : \A m, n \in 1..Len(row'[i].items) :
            row'[i].items[m] = row'[i].items[n] => m = n
        BY <1>1, <1>4 DEF EnqueuedOnce
  <2>2. \A i, j \in Issued : \A k :
            k \in ItemsOf(row'[i]) /\ k \in ItemsOf(row'[j]) /\ (Single(i)' <=> Single(j)') => i = j
        BY <1>1, <1>2, <1>4 DEF EnqueuedOnce
  <2> QED BY <1>1, <2>1, <2>2 DEF EnqueuedOnce
<1>5. ASSUME CollectedOnce, caller'.batches = caller.batches PROVE CollectedOnce'
  <2>1. Collected' = Collected
        BY <1>5 DEF Collected
  <2>2. \A i \in Issued : \A k \in ItemsOf(row'[i]) : k \notin Collected
        BY <1>1, <1>2, <1>5 DEF CollectedOnce
  <2> QED BY <1>1, <1>5, <2>1, <2>2 DEF CollectedOnce
<1> QED BY <1>1, <1>2, <1>3, <1>4, <1>5

\* The state of a process between two jobs.
Free(r) == r.st \in {"none", "idle", "check", "zombie"} /\ r.batch = NoCopy

\* A step that inserts nothing and invokes nothing, in which no process has a
\* job before and after.
LEMMA FreeCore ==
    ASSUME BatchInv, CoreInv, TypeOK', CollectedOnce', UNCHANGED <<table, nextId, done, tried>>,
           \A i \in Ids : row'[i].items = row[i].items /\ row'[i].by = row[i].by,
           \A p \in Pids : proc'[p] = proc[p] \/ (Free(proc[p]) /\ Free(proc'[p])),
           pool'.orphans = {}
    PROVE  CoreInv'
<1>1. /\ Issued' = Issued /\ EnqueuedOnce' /\ \A i \in Ids : Single(i)' = Single(i)
      /\ \A k : Begun(k)' = Begun(k)
      BY ItemsSame DEF CoreInv
<1>2. table \subseteq Ids
      BY DEF BatchInv, TypeOK
<1>3. \A p \in Pids :
          /\ \A i : /\ Has(proc'[p], i) <=> Has(proc[p], i)
                    /\ Returned(proc'[p], i) <=> Returned(proc[p], i)
                    /\ \A n : Reaches(proc'[p], i, n) <=> Reaches(proc[p], i, n)
          /\ TriedTo(proc'[p]) <=> TriedTo(proc[p])
          /\ proc'[p].st = "failed" => proc[p].st = "failed"
      BY DEF Free, Has, Returned, Reaches, TriedTo
<1>4. NothingFails'
      BY <1>3 DEF CoreInv, NothingFails
<1>5. LockedAtHand'
      BY <1>2, <1>3 DEF CoreInv, LockedAtHand, Ids
<1>6. ReachedBegun'
      BY <1>1, <1>2, <1>3 DEF CoreInv, ReachedBegun
<1>7. TriedBegun' /\ OncePerItem'
      BY <1>1 DEF CoreInv, TriedBegun, OncePerItem
<1>8. ReturnedGoes'
      BY <1>2, <1>3 DEF CoreInv, ReturnedGoes
<1>9. TriedInOrder'
  <2>1. \A p \in Pids : TriedTo(proc'[p])
        BY <1>3 DEF CoreInv, TriedInOrder
  <2> QED BY <2>1 DEF TriedInOrder, TriedTo
<1> QED BY <1>1, <1>4, <1>5, <1>6, <1>7, <1>8, <1>9 DEF CoreInv

\* Process p alone has other rows at hand.
LEMMA MoveLocks ==
    ASSUME BatchInv, NEW p \in Pids, NEW r \in Proc, Moves(p, r), LockedAtHand,
           \A i \in Ids : Has(r, i) <=> i \in table' /\ row'[i].by = p,
           \A i \in Ids, q \in Pids : q # p =>
               ((i \in table' /\ row'[i].by = q) <=> (i \in table /\ row[i].by = q))
    PROVE  LockedAtHand'
<1>1. proc'[p] = r /\ \A q \in Pids : q # p => proc'[q] = proc[q]
      BY MoveFacts DEF BatchInv
<1>2. \A q \in Pids, i \in Ids : Has(proc'[q], i) <=> i \in table' /\ row'[i].by = q
      BY <1>1 DEF LockedAtHand
<1> QED BY <1>2 DEF LockedAtHand, Has, Ids

\* Steps of the caller, of the pool, of time, and of a worker between two jobs.
LEMMA FreeSteps ==
    ASSUME BatchInv, BatchInv', CoreInv,
           \/ Begin \/ BlockEnds \/ FlushRaises \/ FlushDone
           \/ SweepDone \/ \E i \in Ids : BecomeDue(i)
           \/ \E p \in Pids : TakeNothing(p) \/ Loop(p) \/ Exit(p) \/ Reap(p) \/ Spawn(p)
    PROVE  CoreInv'
<1>1. /\ TypeOK /\ TypeOK' /\ row \in [Ids -> Row] /\ table \subseteq Ids
      /\ pool.orphans = {} /\ CollectedOnce
      BY DEF BatchInv, TypeOK, CoreInv, NothingFails
<1>2. ASSUME UNCHANGED <<table, row, nextId, proc, done, tried>>, CollectedOnce', pool'.orphans = {}
      PROVE  CoreInv'
      BY <1>1, <1>2, FreeCore
<1>3. CASE Begin \/ BlockEnds \/ FlushDone
  <2>1. UNCHANGED <<database, proc, pool, history>> /\ caller'.batches = caller.batches
        BY <1>1, <1>3, CallerType DEF Begin, BlockEnds, FlushDone
  <2>2. CollectedOnce'
        BY <1>1, <2>1, ItemsSame DEF database
  <2> QED BY <1>1, <1>2, <2>1, <2>2 DEF database, history
<1>4. CASE FlushRaises
  <2>1. /\ UNCHANGED <<database, proc, pool, done, tried, dropped>>
        /\ \A g \in Groups : caller'.batches[g] = <<>>
        BY <1>4 DEF FlushRaises
  <2>2. \A n \in 1..Len(<<>>) : FALSE
        OBVIOUS
  <2>3. CollectedOnce'
        BY <2>1, <2>2 DEF CollectedOnce, Collected
  <2> QED BY <1>1, <1>2, <2>1, <2>3 DEF database
<1>5. CASE SweepDone
  <2>1. pool'.orphans = {} /\ UNCHANGED <<caller, database, proc, history>>
        BY <1>1, <1>5 DEF SweepDone, TypeOK
  <2>2. CollectedOnce'
        BY <1>1, <2>1, ItemsSame DEF database
  <2> QED BY <1>2, <2>1, <2>2 DEF database, history
<1>6. ASSUME NEW i \in Ids, BecomeDue(i)
      PROVE  CoreInv'
  <2>1. /\ row' = [row EXCEPT ![i].due = TRUE]
        /\ UNCHANGED <<caller, table, nextId, proc, pool, history>>
        BY <1>6 DEF BecomeDue
  <2>2. \A r \in Row : /\ [r EXCEPT !.due = TRUE].items = r.items
                       /\ [r EXCEPT !.due = TRUE].by = r.by
        BY DEF Row
  <2>3. \A j \in Ids : row'[j].items = row[j].items /\ row'[j].by = row[j].by
        BY <1>1, <2>1, <2>2
  <2>4. CollectedOnce'
        BY <1>1, <2>1, <2>3, ItemsSame
  <2> QED BY <1>1, <2>1, <2>3, <2>4, FreeCore DEF history
<1>7. ASSUME NEW p \in Pids, NEW r \in Proc, Moves(p, r), Free(proc[p]), Free(r),
             UNCHANGED <<caller, database, history>>, pool'.orphans = {}
      PROVE  CoreInv'
  <2>1. proc'[p] = r /\ \A q \in Pids : q # p => proc'[q] = proc[q]
        BY <1>1, <1>7, MoveFacts
  <2>2. CollectedOnce'
        BY <1>1, <1>7, ItemsSame DEF database
  <2>3. \A q \in Pids : proc'[q] = proc[q] \/ (Free(proc[q]) /\ Free(proc'[q]))
        BY <1>7, <2>1
  <2> QED BY <1>1, <1>7, <2>2, <2>3, FreeCore DEF database, history
<1>8. ASSUME NEW p \in Pids, TakeNothing(p) \/ Loop(p)
      PROVE  CoreInv'
  <2>1. PICK s \in States : /\ s \in {"idle", "check"} /\ proc' = [proc EXCEPT ![p].st = s]
                            /\ proc[p].st \in {"idle", "check"}
                            /\ UNCHANGED <<caller, database, pool, history>>
        BY <1>8 DEF TakeNothing, Loop, States
  <2>2. proc[p].batch = NoCopy /\ proc[p] \in Proc
        BY <1>1, <2>1, IdleHasNone DEF TypeOK
  <2>3. IsProc([proc[p] EXCEPT !.st = s], s, proc[p].batch, proc[p].pos, proc[p].item, proc[p].ok)
        BY <2>2, ProcUpdates
  <2>4. PICK r \in Proc : Moves(p, r) /\ r.st = s /\ r.batch = NoCopy
        BY <2>1, <2>2, <2>3 DEF IsProc, Moves
  <2> QED BY <1>1, <1>7, <2>1, <2>2, <2>4 DEF Free
<1>9. ASSUME NEW p \in Pids, Exit(p) \/ Reap(p) \/ Spawn(p)
      PROVE  CoreInv'
  <2>1. Free(proc[p])
        BY <1>9, IdleHasNone DEF Exit, Reap, Spawn, Free
  <2>2. LockedBy(p) = {}
        BY <1>1, <2>1 DEF LockedBy, CoreInv, LockedAtHand, Free, Has
  <2>3. UNCHANGED <<caller, database, history>> /\ pool'.orphans = {}
    <3>1. CASE Exit(p)
      <4>1. Unlock({}) /\ UNCHANGED <<caller, pool, history>>
            BY <2>2, <3>1 DEF Exit
      <4>2. row' = row
            BY <1>1, <4>1 DEF Unlock
      <4> QED BY <1>1, <4>1, <4>2 DEF Unlock, database
    <3>2. CASE Reap(p)
          BY <2>2, <3>2 DEF Reap
    <3>3. CASE Spawn(p)
          BY <1>1, <3>3 DEF Spawn
    <3> QED BY <1>9, <3>1, <3>2, <3>3
  <2>4. PICK r \in Proc : Moves(p, r) /\ Free(r)
    <3>1. /\ Dead \in Proc /\ Free(Dead) /\ NoProc \in Proc /\ Free(NoProc)
          /\ [NoProc EXCEPT !.st = "idle"] \in Proc /\ Free([NoProc EXCEPT !.st = "idle"])
          BY FreshProc DEF IsProc, Free, States
    <3> QED BY <1>9, <3>1 DEF Exit, Reap, Spawn, Moves
  <2> QED BY <1>7, <2>1, <2>3, <2>4
<1> QED BY <1>3, <1>4, <1>5, <1>6, <1>8, <1>9

\* A job that was not enqueued yet is enqueued in the block.
LEMMA CollectCore ==
    ASSUME BatchInv, BatchInv', CoreInv, NEW k \in Items, NEW g \in Groups, Collect(k, g)
    PROVE  CoreInv'
<1>1. /\ TypeOK /\ TypeOK' /\ CollectedOnce /\ pool.orphans = {}
      /\ UNCHANGED <<database, proc, pool, history>> /\ k \notin Sent
      /\ caller' = [caller EXCEPT !.batches[g] = Append(@, k)]
      BY DEF BatchInv, CoreInv, NothingFails, Collect
<1>2. \A h \in Groups : caller.batches[h] \in Seq(Items) /\ Len(caller.batches[h]) \in Nat
      BY <1>1, CallerType
<1>3. \A h \in Groups : caller'.batches[h] = IF h = g THEN Append(caller.batches[g], k)
                                                      ELSE caller.batches[h]
      BY <1>1, CallerType DEF Caller
<1>4. k \notin Collected /\ \A i \in Issued : k \notin ItemsOf(row[i])
  <2>1. \A i \in Issued : i \in Ids \cap 1..(nextId - 1)
        BY <1>1, IssuedFacts DEF Issued, Ids, TypeOK
  <2> QED BY <1>1, <2>1 DEF Sent
<1>5. \A h \in Groups : \A m \in 1..Len(caller'.batches[h]) :
         \/ m \in 1..Len(caller.batches[h]) /\ caller'.batches[h][m] = caller.batches[h][m]
         \/ h = g /\ m = Len(caller.batches[g]) + 1 /\ caller'.batches[h][m] = k
  <2>1. ASSUME NEW q \in Seq(Items)
        PROVE  /\ Len(Append(q, k)) = Len(q) + 1 /\ Append(q, k)[Len(q) + 1] = k
               /\ \A n \in 1..Len(q) : Append(q, k)[n] = q[n]
        OBVIOUS
  <2>2. PICK x : x = Append(caller.batches[g], k)
        OBVIOUS
  <2>3. /\ Len(x) = Len(caller.batches[g]) + 1 /\ x[Len(caller.batches[g]) + 1] = k
        /\ \A n \in 1..Len(caller.batches[g]) : x[n] = caller.batches[g][n]
        BY <1>2, <2>1, <2>2, Zenon
  <2>4. \A h \in Groups : caller'.batches[h] = IF h = g THEN x ELSE caller.batches[h]
        BY <1>3, <2>2
  <2> HIDE <2>2
  <2>5. ASSUME NEW h \in Groups, NEW m \in 1..Len(caller'.batches[h])
        PROVE  \/ m \in 1..Len(caller.batches[h]) /\ caller'.batches[h][m] = caller.batches[h][m]
               \/ h = g /\ m = Len(caller.batches[g]) + 1 /\ caller'.batches[h][m] = k
    <3>1. CASE h = g
      <4>1. caller'.batches[h] = x /\ m \in 1..Len(x)
            BY <2>4, <3>1
      <4>2. m \in 1..Len(caller.batches[g]) \/ m = Len(caller.batches[g]) + 1
            BY <1>2, <2>3, <4>1
      <4> QED BY <2>3, <3>1, <4>1, <4>2
    <3>2. CASE h # g
          BY <1>2, <2>4, <3>2
    <3> QED BY <3>1, <3>2
  <2> QED BY <2>5
<1>6. \A h \in Groups : \A m \in 1..Len(caller.batches[h]) : caller.batches[h][m] \in Collected
      BY DEF Collected
<1>7. CollectedOnce'
  <2>1. ASSUME NEW h \in Groups, NEW l \in Groups, NEW m \in 1..Len(caller'.batches[h]),
               NEW n \in 1..Len(caller'.batches[l]), caller'.batches[h][m] = caller'.batches[l][n]
        PROVE  h = l /\ m = n
        BY <1>1, <1>4, <1>5, <1>6, <2>1 DEF CollectedOnce
  <2>2. ASSUME NEW l \in Collected' PROVE l \in Collected \/ l = k
        BY <1>5, <1>6, <2>2 DEF Collected
  <2>3. \A i \in Issued : \A l \in ItemsOf(row[i]) : l \notin Collected'
        BY <1>1, <1>4, <2>2 DEF CollectedOnce
  <2>4. Issued' = Issued /\ row' = row
        BY <1>1 DEF Issued, database, Ids
  <2> QED BY <2>1, <2>3, <2>4 DEF CollectedOnce
<1> QED BY <1>1, <1>7, FreeCore DEF database, history

\* What an insert does to what is said of rows.
LEMMA InsertItems ==
    ASSUME BatchInv, TypeOK', NEW r \in Row, Insert(r), NEW new, new = nextId
    PROVE  /\ new \in Ids /\ new \notin Issued /\ Issued' = Issued \cup {new}
           /\ table' = table \cup {new} /\ row'[new] = r
           /\ \A i \in Issued : row'[i] = row[i] /\ Single(i)' = Single(i)
           /\ Single(new)' <=> Len(r.items) = 1
           /\ \A k : Begun(k)' <=> Begun(k) \/ r.items = <<k>>
<1>1. /\ nextId \in Ids /\ nextId' = nextId + 1 /\ table' = table \cup {nextId}
      /\ row'[nextId] = r /\ \A i \in Ids : i # nextId => row'[i] = row[i]
      BY InsertFacts DEF BatchInv
<1>2. nextId \notin Issued /\ nextId \in Nat /\ Ids \subseteq Nat
      BY IssuedFacts
<1>3. Issued' = Issued \cup {nextId}
  <2>1. \A i \in Ids : i < nextId + 1 <=> i < nextId \/ i = nextId
        BY <1>2
  <2>2. Issued' = {i \in Ids : i < nextId + 1}
        BY <1>1 DEF Issued, Ids
  <2> QED BY <1>1, <2>1, <2>2 DEF Issued
<1>4. \A i \in Issued : i \in Ids /\ i # nextId
      BY <1>2 DEF Issued
<1>5. \A i \in Issued : row'[i] = row[i] /\ Single(i)' = Single(i)
      BY <1>1, <1>4 DEF Single
<1>6. Single(new)' <=> Len(r.items) = 1
      BY <1>1 DEF Single
<1>7. \A k : Begun(k)' <=> Begun(k) \/ r.items = <<k>>
      BY <1>1, <1>3, <1>5 DEF Begun
<1> QED BY <1>1, <1>2, <1>3, <1>5, <1>6, <1>7

\* The caller inserts a row, whose items are in no row yet.
LEMMA CallerInserts ==
    ASSUME BatchInv, TypeOK', CoreInv, NEW r \in Row, Insert(r), r.by = Nobody,
           \A m, n \in 1..Len(r.items) : r.items[m] = r.items[n] => m = n,
           \A i \in Issued : \A k \in ItemsOf(row[i]) : k \notin ItemsOf(r),
           UNCHANGED <<proc, pool, done, tried>>, CollectedOnce'
    PROVE  CoreInv'
<1>1. PICK new : new = nextId
      OBVIOUS
<1>2. /\ new \in Ids /\ new \notin Issued /\ Issued' = Issued \cup {new}
      /\ table' = table \cup {new} /\ row'[new] = r
      /\ \A i \in Issued : row'[i] = row[i] /\ Single(i)' = Single(i)
      /\ Single(new)' <=> Len(r.items) = 1
      /\ \A k : Begun(k)' <=> Begun(k) \/ r.items = <<k>>
      BY <1>1, InsertItems
<1>3. /\ table \subseteq Issued /\ Issued \subseteq Ids
      /\ \A i \in Issued : \A n \in 1..Len(row[i].items) : row[i].items[n] \in ItemsOf(row[i])
      /\ \A n \in 1..Len(r.items) : r.items[n] \in ItemsOf(r)
      BY IssuedFacts DEF Issued, ItemsOf
<1>4. \A k : Begun(k) => \E j \in Issued : k \in ItemsOf(row[j])
      BY IssuedFacts
<1>5. \A k : r.items = <<k>> => k \in ItemsOf(r) /\ Len(r.items) = 1
      BY OneItem DEF ItemsOf, Row
<1>6. NothingFails' /\ OncePerItem'
      BY DEF CoreInv, NothingFails, OncePerItem
<1>7. LockedAtHand'
  <2>1. ASSUME NEW p \in Pids, NEW i \in Ids
        PROVE  Has(proc[p], i) <=> i \in table' /\ row'[i].by = p
    <3>1. CASE i = new
          BY <1>2, <1>3, <3>1, NobodyAssumption DEF CoreInv, LockedAtHand
    <3>2. CASE i # new
          BY <1>2, <1>3, <3>2 DEF CoreInv, LockedAtHand
    <3> QED BY <3>1, <3>2
  <2> QED BY <2>1 DEF LockedAtHand, Has, Ids
<1>8. EnqueuedOnce'
  <2>1. ASSUME NEW i \in Issued', NEW m \in 1..Len(row'[i].items), NEW n \in 1..Len(row'[i].items),
               row'[i].items[m] = row'[i].items[n]
        PROVE  m = n
        BY <1>2, <2>1 DEF CoreInv, EnqueuedOnce
  <2>2. ASSUME NEW i \in Issued', NEW j \in Issued', NEW k,
               k \in ItemsOf(row'[i]), k \in ItemsOf(row'[j]), Single(i)' <=> Single(j)'
        PROVE  i = j
    <3>1. CASE i = new /\ j \in Issued
          BY <1>2, <2>2, <3>1
    <3>2. CASE j = new /\ i \in Issued
          BY <1>2, <2>2, <3>2
    <3>3. CASE i \in Issued /\ j \in Issued
          BY <1>2, <2>2, <3>3 DEF CoreInv, EnqueuedOnce
    <3> QED BY <1>2, <3>1, <3>2, <3>3
  <2> QED BY <2>1, <2>2 DEF EnqueuedOnce
<1>9. ReachedBegun'
  <2>1. ASSUME NEW i \in table', NEW n \in 1..Len(row'[i].items), ~Single(i)',
               NEW k, k = row'[i].items[n], Begun(k) \/ r.items = <<k>>
        PROVE  \E p \in Pids : Reaches(proc[p], i, n)
    <3>1. CASE i = new
      <4>1. k \in ItemsOf(r) /\ Len(r.items) # 1
            BY <1>2, <1>3, <2>1, <3>1
      <4>2. Begun(k)
            BY <1>5, <2>1, <4>1
      <4> QED BY <1>4, <4>1, <4>2
    <3>2. CASE i \in table
      <4>1. /\ row'[i] = row[i] /\ ~Single(i) /\ n \in 1..Len(row[i].items)
            /\ k = row[i].items[n] /\ k \in ItemsOf(row[i])
            BY <1>2, <1>3, <2>1, <3>2
      <4>2. Begun(k)
            BY <1>3, <1>5, <2>1, <3>2, <4>1
      <4> QED BY <3>2, <4>1, <4>2 DEF CoreInv, ReachedBegun
    <3> QED BY <1>2, <3>1, <3>2
  <2> QED BY <1>2, <2>1 DEF ReachedBegun
<1>10. TriedBegun'
      BY <1>2 DEF CoreInv, TriedBegun
<1>11. ReturnedGoes'
  <2>1. ASSUME NEW k \in Items, NEW i \in table', row'[i].items = <<k>>, done[k] > 0
        PROVE  \E p \in Pids : Returned(proc[p], i)
    <3>1. CASE i = new
          BY <1>2, <1>4, <1>5, <2>1, <3>1 DEF CoreInv, TriedBegun
    <3>2. CASE i \in table
          BY <1>2, <1>3, <2>1, <3>2 DEF CoreInv, ReturnedGoes
    <3> QED BY <1>2, <3>1, <3>2
  <2> QED BY <2>1 DEF ReturnedGoes
<1>12. TriedInOrder'
      BY DEF CoreInv, TriedInOrder, TriedTo
<1> QED BY <1>6, <1>7, <1>8, <1>9, <1>10, <1>11, <1>12 DEF CoreInv

\* A new row has the items and the lock given.
LEMMA NewRowIs ==
    \A items \in Seq(Items), by \in Pids \cup {Nobody}, due \in BOOLEAN :
        \E r \in Row : r = NewRow(items, by, due) /\ r.items = items /\ r.by = by
<1>1. ASSUME NEW items \in Seq(Items), NEW by \in Pids \cup {Nobody}, NEW due \in BOOLEAN
      PROVE  NewRow(items, by, due).items = items /\ NewRow(items, by, due).by = by
      BY DEF NewRow
<1> QED BY <1>1, NewRowType

\* The caller enqueues a batch.
LEMMA FlushCore ==
    ASSUME BatchInv, BatchInv', CoreInv, NEW g \in Groups, Flush(g)
    PROVE  CoreInv'
<1>1. TypeOK /\ TypeOK' /\ CollectedOnce
      BY DEF BatchInv, CoreInv
<1>2. /\ UNCHANGED <<proc, pool, history>>
      /\ Insert(NewRow(caller.batches[g], Nobody, TRUE))
      /\ caller' = [caller EXCEPT !.batches[g] = <<>>]
      BY DEF Flush
<1>3. PICK b \in Seq(Items) : b = caller.batches[g]
      BY <1>1, CallerType
<1>4. Nobody \in Pids \cup {Nobody} /\ TRUE \in BOOLEAN
      OBVIOUS
<1>5. PICK r \in Row : /\ r = NewRow(caller.batches[g], Nobody, TRUE)
                       /\ r.items = caller.batches[g] /\ r.by = Nobody
  <2>1. \E r \in Row : r = NewRow(b, Nobody, TRUE) /\ r.items = b /\ r.by = Nobody
        BY <1>4, NewRowIs, Zenon
  <2> QED BY <1>3, <2>1, Zenon
<1>6. Insert(r)
      BY <1>2, <1>5
<1> DEFINE s == r.items
<1>7. s = caller.batches[g] /\ s \in Seq(Items)
      BY <1>3, <1>5
<1>8. \A h \in Groups : h # g => caller'.batches[h] = caller.batches[h]
      BY <1>1, <1>2, CallerType DEF Caller
<1>9. \A n \in 1..Len(caller'.batches[g]) : FALSE
  <2>1. caller'.batches[g] = <<>>
        BY <1>1, <1>2, CallerType DEF Caller
  <2>2. \A n \in 1..Len(<<>>) : FALSE
        OBVIOUS
  <2> QED BY <2>1, <2>2
<1> HIDE DEF s
<1>10. PICK new : new = nextId
       OBVIOUS
<1>11. Issued' = Issued \cup {new} /\ row'[new] = r /\ \A i \in Issued : row'[i] = row[i]
       BY <1>1, <1>6, <1>10, InsertItems
<1>12. Collected' \subseteq Collected
       BY <1>8, <1>9 DEF Collected
<1>13. \A n \in 1..Len(s) : s[n] \in Collected /\ s[n] \notin Collected'
  <2>1. ASSUME NEW n \in 1..Len(s) PROVE s[n] \in Collected
        BY <1>7, <2>1 DEF Collected
  <2>2. ASSUME NEW n \in 1..Len(s), NEW h \in Groups, NEW m \in 1..Len(caller'.batches[h]),
               caller'.batches[h][m] = s[n]
        PROVE  FALSE
    <3>1. h # g /\ caller'.batches[h] = caller.batches[h]
          BY <1>8, <1>9, <2>2
    <3>2. m \in 1..Len(caller.batches[h]) /\ caller.batches[h][m] = caller.batches[g][n]
          BY <1>7, <2>2, <3>1
    <3> QED BY <1>1, <1>7, <3>1, <3>2 DEF CollectedOnce
  <2>3. \A k \in Collected' : \E h \in Groups : \E m \in 1..Len(caller'.batches[h]) :
            caller'.batches[h][m] = k
        BY DEF Collected
  <2> QED BY <2>1, <2>2, <2>3
<1>14. \A k \in ItemsOf(r) : k \in Collected /\ k \notin Collected'
       BY <1>13 DEF ItemsOf, s
<1>15. \A h, l \in Groups : \A m \in 1..Len(caller'.batches[h]), n \in 1..Len(caller'.batches[l]) :
          caller'.batches[h][m] = caller'.batches[l][n] => h = l /\ m = n
  <2>1. ASSUME NEW h \in Groups, NEW l \in Groups, NEW m \in 1..Len(caller'.batches[h]),
               NEW n \in 1..Len(caller'.batches[l]), caller'.batches[h][m] = caller'.batches[l][n]
        PROVE  h = l /\ m = n
    <3>1. h # g /\ l # g
          BY <1>9
    <3>2. caller'.batches[h] = caller.batches[h] /\ caller'.batches[l] = caller.batches[l]
          BY <1>8, <3>1
    <3> QED BY <1>1, <2>1, <3>2 DEF CollectedOnce
  <2> QED BY <2>1
<1>16. \A i \in Issued' : \A k \in ItemsOf(row'[i]) : k \notin Collected'
       BY <1>1, <1>11, <1>12, <1>14 DEF CollectedOnce
<1>17. CollectedOnce'
       BY <1>15, <1>16 DEF CollectedOnce
<1>18. \A i \in Issued : \A k \in ItemsOf(row[i]) : k \notin ItemsOf(r)
       BY <1>1, <1>14 DEF CollectedOnce
<1>19. \A m, n \in 1..Len(r.items) : r.items[m] = r.items[n] => m = n
       BY <1>1, <1>7 DEF CollectedOnce, s
<1> QED BY <1>1, <1>2, <1>5, <1>6, <1>17, <1>18, <1>19, CallerInserts DEF history

\* The caller enqueues a job by itself.
LEMMA EnqueueAtCore ==
    ASSUME BatchInv, BatchInv', CoreInv, NEW k \in Items, EnqueueAt(k)
    PROVE  CoreInv'
<1>1. TypeOK /\ TypeOK' /\ CollectedOnce
      BY DEF BatchInv, CoreInv
<1>2. /\ UNCHANGED <<caller, proc, pool, history>> /\ Insert(NewRow(<<k>>, Nobody, FALSE))
      /\ k \notin Sent
      BY DEF EnqueueAt
<1>3. <<k>> \in Seq(Items) /\ Nobody \in Pids \cup {Nobody} /\ FALSE \in BOOLEAN
      OBVIOUS
<1>4. PICK r \in Row : r = NewRow(<<k>>, Nobody, FALSE) /\ r.items = <<k>> /\ r.by = Nobody
      BY <1>3, NewRowIs, Zenon
<1>5. Insert(r)
      BY <1>2, <1>4
<1>6. ItemsOf(r) = {k} /\ \A m, n \in 1..Len(r.items) : m = n
  <2>1. Len(<<k>>) = 1 /\ \A m \in 1..Len(<<k>>) : m = 1 /\ <<k>>[m] = k
        OBVIOUS
  <2>2. r.items = <<k>>
        BY <1>4
  <2> QED BY <2>1, <2>2 DEF ItemsOf
<1>7. k \notin Collected /\ \A i \in Issued : k \notin ItemsOf(row[i])
  <2>1. \A i \in Issued : i \in Ids \cap 1..(nextId - 1)
        BY <1>1, IssuedFacts DEF Issued, Ids, TypeOK
  <2> QED BY <1>2, <2>1 DEF Sent
<1>8. PICK new : new = nextId
      OBVIOUS
<1>9. Issued' = Issued \cup {new} /\ row'[new] = r /\ \A i \in Issued : row'[i] = row[i]
      BY <1>1, <1>5, <1>8, InsertItems
<1>10. Collected' = Collected
       BY <1>2 DEF Collected
<1>11. \A i \in Issued' : \A l \in ItemsOf(row'[i]) : l \notin Collected'
       BY <1>1, <1>6, <1>7, <1>9, <1>10 DEF CollectedOnce
<1>12. CollectedOnce'
       BY <1>1, <1>2, <1>11 DEF CollectedOnce
<1>13. \A i \in Issued : \A l \in ItemsOf(row[i]) : l \notin ItemsOf(r)
       BY <1>6, <1>7
<1> QED BY <1>1, <1>2, <1>4, <1>5, <1>6, <1>12, <1>13, CallerInserts DEF history

\* Process p, and no other, goes on with its job, or to another one: no row is
\* inserted.
LEMMA MoverCore ==
    ASSUME BatchInv, CoreInv, TypeOK', UNCHANGED <<caller, pool, nextId>>,
           \A i \in Ids : row'[i].items = row[i].items,
           table' \subseteq table,
           NEW p \in Pids, NEW r \in Proc, Moves(p, r), r.st # "failed",
           \A i \in Ids : Has(r, i) <=> i \in table' /\ row'[i].by = p,
           \A i \in Ids, q \in Pids : q # p =>
               ((i \in table' /\ row'[i].by = q) <=> (i \in table /\ row[i].by = q)),
           \A i \in table' : \A n \in 1..Len(row[i].items) :
               Reaches(proc[p], i, n) => Reaches(r, i, n),
           tried \subseteq tried', \A k \in tried' : Begun(k),
           \A k \in Items : done'[k] > 0 => k \in tried',
           \A k \in Items : \A i \in table' :
               row[i].items = <<k>> /\ done'[k] > 0 =>
                   Returned(r, i) \/ (done[k] > 0 /\ ~Returned(proc[p], i)),
           OncePerItem', TriedTo(r)'
    PROVE  CoreInv'
<1>1. proc'[p] = r /\ \A q \in Pids : q # p => proc'[q] = proc[q]
      BY MoveFacts DEF BatchInv
<1>2. /\ Issued' = Issued /\ EnqueuedOnce' /\ CollectedOnce'
      /\ \A i \in Ids : Single(i)' = Single(i)
      /\ \A k : Begun(k)' = Begun(k)
      BY ItemsSame DEF CoreInv
<1>3. table \subseteq Ids
      BY DEF BatchInv, TypeOK
<1>4. NothingFails'
      BY <1>1 DEF CoreInv, NothingFails
<1>5. LockedAtHand'
      BY MoveLocks DEF CoreInv
<1>6. ReachedBegun'
  <2>1. ASSUME NEW i \in table', NEW n \in 1..Len(row[i].items), ~Single(i),
               NEW k, k = row[i].items[n], Begun(k)
        PROVE  \E q \in Pids : Reaches(proc'[q], i, n)
    <3>1. PICK q \in Pids : Reaches(proc[q], i, n)
          BY <2>1 DEF CoreInv, ReachedBegun
    <3>2. Reaches(proc'[q], i, n)
          BY <1>1, <3>1
    <3> QED BY <3>2
  <2>2. \A i \in table' : \A n \in 1..Len(row[i].items) : \A k :
            ~Single(i) /\ k = row[i].items[n] /\ Begun(k) => \E q \in Pids : Reaches(proc'[q], i, n)
        BY <2>1
  <2>3. \A i \in table' : row'[i].items = row[i].items /\ Single(i)' = Single(i)
        BY <1>2, <1>3
  <2>4. ASSUME NEW i \in table', NEW n \in 1..Len(row'[i].items), ~Single(i)',
               NEW k, k = row'[i].items[n], Begun(k)'
        PROVE  \E q \in Pids : Reaches(proc'[q], i, n)
        BY <1>2, <2>2, <2>3, <2>4
  <2> QED BY <2>4 DEF ReachedBegun, Reaches
<1>7. TriedBegun'
      BY <1>2 DEF TriedBegun
<1>8. ReturnedGoes'
  <2>1. ASSUME NEW k \in Items, NEW i \in table', row[i].items = <<k>>, done'[k] > 0
        PROVE  \E q \in Pids : Returned(proc'[q], i)
    <3>1. CASE Returned(r, i)
          BY <1>1, <3>1
    <3>2. CASE done[k] > 0 /\ ~Returned(proc[p], i)
      <4>1. PICK q \in Pids : Returned(proc[q], i)
            BY <2>1, <3>2 DEF CoreInv, ReturnedGoes
      <4>2. proc'[q] = proc[q]
            BY <1>1, <3>2, <4>1
      <4> QED BY <4>1, <4>2
    <3> QED BY <2>1, <3>1, <3>2
  <2>2. \A i \in table' : row'[i].items = row[i].items
        BY <1>3
  <2> QED BY <2>1, <2>2 DEF ReturnedGoes, Returned
<1>9. TriedInOrder'
  <2>1. ASSUME NEW q \in Pids PROVE TriedTo(proc[q])'
    <3>1. CASE q = p
          BY <1>1, <3>1 DEF TriedTo
    <3>2. CASE q # p
      <4>1. TriedTo(proc[q])
            BY DEF CoreInv, TriedInOrder
      <4> QED BY <1>1, <3>2, <4>1 DEF TriedTo
    <3> QED BY <3>1, <3>2
  <2> QED BY <2>1 DEF TriedInOrder
<1> QED BY <1>2, <1>4, <1>5, <1>6, <1>7, <1>8, <1>9 DEF CoreInv

\* The process that starts a job, or a batch.
LEMMA StartMoves ==
    ASSUME NEW p \in Pids, NEW c \in Copy,
           proc' = [proc EXCEPT ![p] = IF Len(c.items) > 1
                        THEN [NoProc EXCEPT !.st = "batch", !.batch = c]
                        ELSE [NoProc EXCEPT !.st = "item", !.item = c]]
    PROVE  \E r \in Proc : /\ Moves(p, r)
                           /\ \/ r.st = "batch" /\ r.batch = c /\ r.pos = 0
                              \/ r.st = "item" /\ r.batch = NoCopy /\ r.item = c
<1>s. "batch" \in States /\ "item" \in States
      BY DEF States
<1>1. IsProc([NoProc EXCEPT !.st = "batch", !.batch = c], "batch", c, 0, NoCopy, TRUE)
      BY <1>s, FreshProc, Zenon
<1>2. IsProc([NoProc EXCEPT !.st = "item", !.item = c], "item", NoCopy, 0, c, TRUE)
      BY <1>s, FreshProc, Zenon
<1>3. CASE Len(c.items) > 1
  <2>1. PICK r \in Proc : r = [NoProc EXCEPT !.st = "batch", !.batch = c]
                          /\ IsProc(r, "batch", c, 0, NoCopy, TRUE)
        BY <1>1 DEF IsProc
  <2>2. Moves(p, r)
        BY <1>3, <2>1 DEF Moves
  <2> QED BY <2>1, <2>2 DEF IsProc
<1>4. CASE ~(Len(c.items) > 1)
  <2>1. PICK r \in Proc : r = [NoProc EXCEPT !.st = "item", !.item = c]
                          /\ IsProc(r, "item", NoCopy, 0, c, TRUE)
        BY <1>2 DEF IsProc
  <2>2. Moves(p, r)
        BY <1>4, <2>1 DEF Moves
  <2> QED BY <2>1, <2>2 DEF IsProc
<1> QED BY <1>3, <1>4

\* The process that has invoked its job.
LEMMA InvokeMoves ==
    ASSUME BatchInv, NEW p \in Pids, NEW ok \in BOOLEAN, Invoke(p, ok)
    PROVE  \E r \in Proc : /\ Moves(p, r) /\ r.st = "ran" /\ r.batch = proc[p].batch
                           /\ r.pos = proc[p].pos /\ r.item = proc[p].item /\ r.ok = ok
<1>1. TypeOK /\ proc[p] \in Proc
      BY DEF BatchInv, TypeOK
<1>2. IsProc([proc[p] EXCEPT !.st = "ran", !.ok = ok], "ran",
             proc[p].batch, proc[p].pos, proc[p].item, ok)
  <2>1. "ran" \in States
        BY DEF States
  <2> QED BY <1>1, <2>1, ProcUpdates, Zenon
<1>3. proc' = [proc EXCEPT ![p] = [proc[p] EXCEPT !.st = "ran", !.ok = ok]]
      BY <1>1 DEF Invoke, TypeOK
<1>4. PICK r : r = [proc[p] EXCEPT !.st = "ran", !.ok = ok]
      OBVIOUS
<1>5. IsProc(r, "ran", proc[p].batch, proc[p].pos, proc[p].item, ok) /\ Moves(p, r)
      BY <1>2, <1>3, <1>4 DEF Moves
<1> QED BY <1>5 DEF IsProc

\* A worker takes a job, or a batch.
LEMMA TakeCore ==
    ASSUME BatchInv, BatchInv', CoreInv, NEW p \in Pids, NEW i \in Ids, Take(p, i)
    PROVE  CoreInv'
<1>1. /\ TypeOK /\ TypeOK' /\ row[i] \in Row /\ i \in table
      /\ proc[p].st = "idle" /\ proc[p].batch = NoCopy /\ row[i].by = Nobody
      BY IdleHasNone DEF BatchInv, TypeOK, Take
<1>2. PICK c \in Copy : /\ c = [id |-> i, att |-> row[i].attempts, items |-> row[i].items]
                        /\ c.id = i /\ c # NoCopy
  <2>1. [id |-> i, att |-> row[i].attempts, items |-> row[i].items] \in Copy
        BY <1>1 DEF Row, Copy
  <2>2. i # 0
        BY DEF Ids
  <2> QED BY <2>1, <2>2 DEF NoCopy, NoId
<1>3. /\ row' = [row EXCEPT ![i].by = p, ![i].old = FALSE]
      /\ UNCHANGED <<caller, table, nextId, pool, history>>
      /\ proc' = [proc EXCEPT ![p] = IF Len(c.items) > 1
                      THEN [NoProc EXCEPT !.st = "batch", !.batch = c]
                      ELSE [NoProc EXCEPT !.st = "item", !.item = c]]
      BY <1>2 DEF Take
<1>4. /\ \A j \in Ids : row'[j].items = row[j].items
      /\ row'[i].by = p /\ \A j \in Ids : j # i => row'[j].by = row[j].by
  <2>1. row' = [row EXCEPT ![i] = [row[i] EXCEPT !.by = p, !.old = FALSE]]
        BY <1>1, <1>3 DEF TypeOK
  <2>2. /\ [row[i] EXCEPT !.by = p, !.old = FALSE].items = row[i].items
        /\ [row[i] EXCEPT !.by = p, !.old = FALSE].by = p
        BY <1>1 DEF Row
  <2> QED BY <1>1, <2>1, <2>2 DEF TypeOK
<1>5. PICK r \in Proc :
          /\ Moves(p, r)
          /\ \/ r.st = "batch" /\ r.batch = c /\ r.pos = 0
             \/ r.st = "item" /\ r.batch = NoCopy /\ r.item = c
      BY <1>3, StartMoves, Zenon
<1>6. \A j \in Ids : Has(r, j) <=> j \in table' /\ row'[j].by = p
  <2>1. \A j \in Ids : Has(r, j) <=> j = i
        BY <1>2, <1>5 DEF Has
  <2>2. \A j \in Ids : ~Has(proc[p], j)
        BY <1>1 DEF Has
  <2>3. /\ table' = table /\ i \in table
        /\ \A j \in Ids : j \in table => row[j].by # p
        BY <1>1, <1>3, <2>2 DEF CoreInv, LockedAtHand
  <2> QED BY <1>4, <2>1, <2>3
<1>7. \A j \in Ids, q \in Pids : q # p =>
          ((j \in table' /\ row'[j].by = q) <=> (j \in table /\ row[j].by = q))
      BY <1>1, <1>3, <1>4, NobodyAssumption
<1>8. \A j, n : ~Reaches(proc[p], j, n) /\ ~Returned(proc[p], j)
      BY <1>1 DEF Reaches, Returned
<1>9. TriedTo(r)'
  <2>1. \A m \in 1..0 : FALSE
        OBVIOUS
  <2> QED BY <1>5, <2>1 DEF TriedTo
<1>10. /\ done' = done /\ tried' = tried /\ r.st # "failed" /\ OncePerItem'
       /\ \A k \in tried : Begun(k)
       /\ \A k \in Items : done[k] > 0 => k \in tried
       BY <1>3, <1>5 DEF history, CoreInv, TriedBegun, OncePerItem
<1> QED BY <1>1, <1>3, <1>4, <1>5, <1>6, <1>7, <1>8, <1>9, <1>10, MoverCore

\* A job returns or raises: it had not returned before.
LEMMA InvokeCore ==
    ASSUME BatchInv, BatchInv', CoreInv, NEW p \in Pids, NEW ok \in BOOLEAN, Invoke(p, ok)
    PROVE  CoreInv'
<1>1. /\ TypeOK /\ TypeOK' /\ proc[p] \in Proc /\ proc[p].st = "item"
      /\ proc \in [Pids -> Proc]
      BY DEF BatchInv, TypeOK, Invoke
<1>2. PICK i \in Issued, k \in Items :
          /\ i = proc[p].item.id /\ k = proc[p].item.items[1] /\ row[i].items = <<k>> /\ Single(i)
          /\ proc[p].batch # NoCopy => proc[p].pos \in Nat /\ proc[p].batch.items[proc[p].pos] = k
      BY <1>1, HandFacts
<1>3. /\ UNCHANGED <<caller, database, pool, dropped, refused>>
      /\ tried' = tried \cup {k}
      /\ done' = IF ok THEN [done EXCEPT ![k] = IF done[k] < Often THEN done[k] + 1 ELSE done[k]]
                 ELSE done
      BY <1>2 DEF Invoke
<1>4. PICK r \in Proc : /\ Moves(p, r) /\ r.st = "ran" /\ r.batch = proc[p].batch
                        /\ r.pos = proc[p].pos /\ r.item = proc[p].item /\ r.ok = ok
      BY InvokeMoves
<1>5. i \in Ids /\ Has(proc[p], i) /\ i \in table
  <2>1. i \in Ids /\ Has(proc[p], i)
        BY <1>1, <1>2 DEF Has, Issued
  <2> QED BY <2>1 DEF CoreInv, LockedAtHand
<1>6. done[k] = 0
  <2>1. ASSUME done[k] > 0 PROVE FALSE
    <3>1. PICK q \in Pids : Returned(proc[q], i)
          BY <1>2, <1>5, <2>1 DEF CoreInv, ReturnedGoes
    <3>2. Has(proc[q], i)
          BY <3>1 DEF Returned, Has
    <3>3. q = p
          BY <1>5, <3>2, OneHas DEF CoreInv
    <3> QED BY <1>1, <3>1, <3>3 DEF Returned
  <2>2. done[k] \in 0..2
        BY <1>1 DEF TypeOK, Often
  <2> QED BY <2>1, <2>2
<1>7. \A l \in Items : done'[l] = IF ok /\ l = k THEN 1 ELSE done[l]
      BY <1>1, <1>3, <1>6 DEF TypeOK, Often
<1>8. OncePerItem'
      BY <1>7 DEF OncePerItem, CoreInv
<1>9. \A j, n : /\ Has(r, j) <=> Has(proc[p], j)
                /\ Reaches(r, j, n) <=> Reaches(proc[p], j, n)
                /\ ~Returned(proc[p], j)
      BY <1>1, <1>4 DEF Has, Reaches, Returned
<1>10. \A l \in tried' : Begun(l)
       BY <1>2, <1>3 DEF CoreInv, TriedBegun, Begun
<1>11. tried \subseteq tried' /\ \A l \in Items : done'[l] > 0 => l \in tried'
       BY <1>3, <1>7 DEF CoreInv, TriedBegun
<1>12. ASSUME NEW l \in Items, NEW j \in table', row[j].items = <<l>>, done'[l] > 0
       PROVE  Returned(r, j) \/ (done[l] > 0 /\ ~Returned(proc[p], j))
  <2>1. CASE ok /\ l = k
    <3>1. j \in Issued /\ row[j].items \in Seq(Items)
          BY <1>3, IssuedFacts DEF database, Issued
    <3>2. Single(j) /\ k \in ItemsOf(row[j]) /\ k \in ItemsOf(row[i])
      <4>1. Len(<<k>>) = 1 /\ <<k>>[1] = k
            OBVIOUS
      <4> QED BY <1>2, <1>12, <2>1, <4>1 DEF Single, ItemsOf
    <3>3. j = i
          BY <1>2, <3>1, <3>2 DEF CoreInv, EnqueuedOnce
    <3> QED BY <1>2, <1>4, <2>1, <3>3 DEF Returned
  <2>2. CASE ~(ok /\ l = k)
        BY <1>7, <1>9, <1>12, <2>2
  <2> QED BY <2>1, <2>2
<1>13. TriedTo(r)'
  <2>1. TriedTo(proc[p])
        BY DEF CoreInv, TriedInOrder
  <2>2. ASSUME r.batch # NoCopy, NEW m \in 1..r.pos
        PROVE  r.batch.items[m] \in tried'
    <3>1. CASE m = r.pos
          BY <1>2, <1>3, <1>4, <2>2, <3>1
    <3>2. CASE m # r.pos
          BY <1>3, <1>4, <2>1, <2>2, <3>2 DEF TriedTo
    <3> QED BY <3>1, <3>2
  <2> QED BY <2>2 DEF TriedTo
<1>14. \A j \in Ids : Has(r, j) <=> j \in table' /\ row'[j].by = p
       BY <1>3, <1>9 DEF database, CoreInv, LockedAtHand
<1>15. /\ UNCHANGED <<caller, pool, nextId>> /\ table' = table /\ row' = row
       /\ Moves(p, r) /\ r.st # "failed" /\ TypeOK'
       BY <1>1, <1>3, <1>4 DEF database
<1>16. \A j \in table' : \A n \in 1..Len(row[j].items) : Reaches(proc[p], j, n) => Reaches(r, j, n)
       BY <1>9
<1> QED BY <1>8, <1>10, <1>11, <1>12, <1>13, <1>14, <1>15, <1>16, MoverCore

\* A worker is through with its job, whose row is gone or free.
LEMMA BackCore ==
    ASSUME BatchInv, BatchInv', CoreInv, NEW p \in Pids, proc[p].st = "ran",
           proc' = [proc EXCEPT ![p] = Back(p)],
           UNCHANGED <<caller, pool, nextId, done, tried>>,
           NEW i \in Ids, i = proc[p].item.id,
           \A j \in Ids : row'[j].items = row[j].items /\ (j # i => row'[j].by = row[j].by),
           \/ table' = table \ {i} /\ row'[i].by = row[i].by
           \/ table' = table /\ row'[i].by = Nobody /\ ~proc[p].ok
    PROVE  CoreInv'
<1>1. TypeOK /\ TypeOK' /\ proc[p] \in Proc
      BY DEF BatchInv, TypeOK
<1>2. PICK r \in Proc : /\ r = Back(p)
                        /\ r.st = IF InBatch(p) THEN "batch" ELSE "check"
                        /\ r.batch = proc[p].batch /\ r.pos = proc[p].pos
      BY <1>1, BackFacts
<1>3. Moves(p, r)
      BY <1>2 DEF Moves
<1>4. \A j \in Ids : Has(proc[p], j) <=> Has(r, j) \/ j = i
      BY <1>2 DEF Has
<1>5. ~Has(r, i)
      BY <1>2, HandFacts DEF Has
<1>6. row[i].by = p /\ i \in table /\ p # Nobody
      BY <1>4, NobodyAssumption DEF CoreInv, LockedAtHand
<1>7. \A j \in Ids : Has(r, j) <=> j \in table' /\ row'[j].by = p
      BY <1>4, <1>5, <1>6 DEF CoreInv, LockedAtHand
<1>8. \A j \in Ids, q \in Pids : q # p =>
          ((j \in table' /\ row'[j].by = q) <=> (j \in table /\ row[j].by = q))
      BY <1>6, NobodyAssumption
<1>9. \A j \in Ids : \A n : Reaches(proc[p], j, n) => Reaches(r, j, n)
      BY <1>2 DEF Reaches
<1>10. \A j \in table' : ~Returned(proc[p], j)
       BY DEF Returned
<1>11. TriedTo(r)'
  <2>1. TriedTo(proc[p])
        BY DEF CoreInv, TriedInOrder
  <2> QED BY <1>2, <2>1 DEF TriedTo
<1>12. /\ OncePerItem' /\ \A k \in tried : Begun(k)
       /\ \A k \in Items : done[k] > 0 => k \in tried
       BY DEF CoreInv, TriedBegun, OncePerItem
<1>13. r.st # "failed" /\ table' \subseteq table /\ table \subseteq Ids
       BY <1>1, <1>2 DEF TypeOK
<1> QED BY <1>1, <1>3, <1>7, <1>8, <1>9, <1>10, <1>11, <1>12, <1>13, MoverCore

\* A job performed is destroyed; one that failed is retried or given up.
LEMMA DoneCore ==
    ASSUME BatchInv, BatchInv', CoreInv, NEW p \in Pids, Complete(p) \/ HandleFailedJob(p)
    PROVE  CoreInv'
<1>1. TypeOK /\ proc[p].st = "ran" /\ proc[p] \in Proc
      BY DEF BatchInv, TypeOK, Complete, HandleFailedJob
<1>2. PICK c \in Copy, i \in Ids : c = proc[p].item /\ i = c.id
      BY <1>1, HandFacts DEF Proc, Issued
<1>3. CASE Complete(p)
      BY <1>1, <1>2, <1>3, BackCore DEF Complete, Destroy, history
<1>4. CASE HandleFailedJob(p)
  <2>1. /\ Reschedule(c) /\ ~proc[p].ok /\ proc' = [proc EXCEPT ![p] = Back(p)]
        /\ UNCHANGED <<caller, pool, done, tried, refused>>
        BY <1>2, <1>4 DEF HandleFailedJob
  <2>2. nextId' = nextId /\ \A j \in Ids : row'[j].items = row[j].items
        BY <1>1, <2>1, RescheduleFacts
  <2>3. i \in table
    <3>1. Has(proc[p], i)
          BY <1>1, <1>2 DEF Has
    <3> QED BY <3>1 DEF CoreInv, LockedAtHand
  <2>4. /\ \A j \in Ids : j # i => row'[j].by = row[j].by
        /\ \/ table' = table \ {i} /\ row'[i].by = row[i].by
           \/ table' = table /\ row'[i].by = Nobody
    <3>1. CASE Exhausted(c)
          BY <1>2, <2>1, <3>1 DEF Reschedule, Destroy
    <3>2. CASE ~Exhausted(c)
      <4>1. PICK x : x = [row[i] EXCEPT !.by = Nobody, !.old = FALSE,
                                        !.attempts = c.att + 1, !.due = FALSE]
            OBVIOUS
      <4>2. row' = [row EXCEPT ![i] = x] /\ table' = table
            BY <1>2, <2>1, <2>3, <3>2, <4>1 DEF Reschedule
      <4>3. x.by = Nobody
        <5>1. row[i] \in Row
              BY <1>1 DEF TypeOK
        <5> QED BY <4>1, <5>1 DEF Row
      <4>4. row \in [Ids -> Row]
            BY <1>1 DEF TypeOK
      <4> HIDE <4>1
      <4> QED BY <4>2, <4>3, <4>4
    <3> QED BY <3>1, <3>2
  <2> QED BY <1>1, <1>2, <2>1, <2>2, <2>4, BackCore
<1> QED BY <1>3, <1>4

\* A batch that is through is destroyed.
LEMMA BatchDoneCore ==
    ASSUME BatchInv, BatchInv', CoreInv, NEW p \in Pids, CompleteBatch(p)
    PROVE  CoreInv'
<1>1. TypeOK /\ TypeOK' /\ proc[p].st = "batch"
      BY DEF BatchInv, CompleteBatch
<1>2. PICK i \in Ids : i = proc[p].batch.id /\ proc[p].batch # NoCopy
      BY <1>1, HandFacts DEF Issued
<1>3. /\ UNCHANGED <<caller, row, nextId, pool, history>> /\ table' = table \ {i}
      BY <1>2 DEF CompleteBatch, Destroy
<1>4. PICK r \in Proc : Moves(p, r) /\ r.st = "check" /\ r.batch = NoCopy
  <2>1. "check" \in States
        BY DEF States
  <2>2. IsProc([NoProc EXCEPT !.st = "check"], "check", NoCopy, 0, NoCopy, TRUE)
        BY <2>1, FreshProc, Zenon
  <2>3. PICK r : r = [NoProc EXCEPT !.st = "check"]
        OBVIOUS
  <2>4. IsProc(r, "check", NoCopy, 0, NoCopy, TRUE) /\ Moves(p, r)
        BY <2>2, <2>3 DEF CompleteBatch, Moves
  <2> QED BY <2>4 DEF IsProc
<1>5. \A j \in Ids : ~Has(r, j) /\ (Has(proc[p], j) <=> j = i)
      BY <1>1, <1>2, <1>4 DEF Has
<1>6. \A j \in Ids : j \in table' => row[j].by # p
      BY <1>3, <1>5 DEF CoreInv, LockedAtHand
<1>7. row[i].by = p
      BY <1>5 DEF CoreInv, LockedAtHand
<1>8. \A j \in table' : \A n : ~Reaches(proc[p], j, n) /\ ~Returned(proc[p], j)
      BY <1>1, <1>2, <1>3 DEF Reaches, Returned
<1>9. TriedTo(r)'
      BY <1>4 DEF TriedTo
<1>10. /\ done' = done /\ tried' = tried /\ OncePerItem' /\ \A k \in tried : Begun(k)
       /\ \A k \in Items : done[k] > 0 => k \in tried
       BY <1>3 DEF history, CoreInv, TriedBegun, OncePerItem
<1>11. table' \subseteq table
       BY <1>3
<1>12. \A j \in Ids : Has(r, j) <=> j \in table' /\ row'[j].by = p
       BY <1>3, <1>5, <1>6
<1>13. \A j \in Ids, q \in Pids : q # p =>
          ((j \in table' /\ row'[j].by = q) <=> (j \in table /\ row[j].by = q))
       BY <1>3, <1>7
<1> QED BY <1>1, <1>3, <1>4, <1>8, <1>9, <1>10, <1>11, <1>12, <1>13, MoverCore

\* The next item of a batch gets its row, which it had not before.
LEMMA CreateCore ==
    ASSUME BatchInv, BatchInv', CoreInv, NEW p \in Pids, CreateAndLock(p)
    PROVE  CoreInv'
<1>1. /\ TypeOK /\ TypeOK' /\ proc[p] \in Proc /\ proc[p].st = "batch"
      BY DEF BatchInv, TypeOK, CreateAndLock
<1>2. PICK b \in Issued, n \in Nat, s \in Seq(Items) :
          /\ proc[p].batch # NoCopy /\ proc[p].batch.id = b /\ ~Single(b)
          /\ s = row[b].items /\ s = proc[p].batch.items
          /\ n = proc[p].pos + 1 /\ n \in 1..Len(s) /\ proc[p].pos \in Nat
  <2>1. /\ proc[p].batch # NoCopy /\ proc[p].batch.id \in Issued
        /\ proc[p].batch.items = row[proc[p].batch.id].items
        /\ ~Single(proc[p].batch.id) /\ proc[p].pos \in Nat
        BY <1>1, HandFacts
  <2>2. row[proc[p].batch.id].items \in Seq(Items)
        BY <2>1, IssuedFacts DEF Issued
  <2>3. proc[p].pos < Len(proc[p].batch.items)
        BY DEF CreateAndLock
  <2> QED BY <2>1, <2>2, <2>3
<1>3. PICK k \in Items : k = s[n] /\ k = proc[p].batch.items[n] /\ k \in ItemsOf(row[b])
      BY <1>2 DEF ItemsOf
<1>4. PICK new : new = nextId
      OBVIOUS
<1>5. PICK d : d = [id |-> new, att |-> 0, items |-> <<k>>]
      OBVIOUS
<1>6. /\ Insert(NewRow(<<k>>, p, TRUE)) /\ UNCHANGED <<caller, pool, history>>
      /\ proc' = [proc EXCEPT ![p].st = "item", ![p].pos = n, ![p].item = d]
      BY <1>2, <1>3, <1>4, <1>5 DEF CreateAndLock
<1>7. PICK x \in Row : x = NewRow(<<k>>, p, TRUE) /\ x.items = <<k>> /\ x.by = p
  <2>1. <<k>> \in Seq(Items) /\ p \in Pids \cup {Nobody} /\ TRUE \in BOOLEAN
        OBVIOUS
  <2> QED BY <2>1, NewRowIs, Zenon
<1>8. /\ new \in Ids /\ new \notin Issued /\ Issued' = Issued \cup {new}
      /\ table' = table \cup {new} /\ row'[new] = x
      /\ \A i \in Issued : row'[i] = row[i] /\ Single(i)' = Single(i)
      /\ Single(new)' /\ \A l : Begun(l)' <=> Begun(l) \/ <<l>> = <<k>>
  <2>1. Insert(x)
        BY <1>6, <1>7
  <2>2. Len(x.items) = 1
        BY <1>7
  <2> QED BY <1>1, <1>4, <1>7, <2>1, <2>2, InsertItems
<1>9. PICK r \in Proc : /\ Moves(p, r) /\ r.st = "item" /\ r.batch = proc[p].batch
                        /\ r.pos = n /\ r.item = d /\ d.id = new
  <2>1. d \in Copy /\ d.id = new
        BY <1>5, <1>8 DEF Copy
  <2>2. "item" \in States
        BY DEF States
  <2>3. IsProc([proc[p] EXCEPT !.st = "item", !.pos = n, !.item = d],
               "item", proc[p].batch, n, d, proc[p].ok)
        BY <1>1, <2>1, <2>2, ProcUpdates, Zenon
  <2>4. PICK r : r = [proc[p] EXCEPT !.st = "item", !.pos = n, !.item = d]
        OBVIOUS
  <2>5. proc' = [proc EXCEPT ![p] = [proc[p] EXCEPT !.st = "item", !.pos = n, !.item = d]]
        BY <1>1, <1>6 DEF TypeOK
  <2>6. IsProc(r, "item", proc[p].batch, n, d, proc[p].ok) /\ Moves(p, r)
        BY <2>3, <2>4, <2>5 DEF Moves
  <2> QED BY <2>1, <2>6 DEF IsProc
<1>10. proc'[p] = r /\ \A q \in Pids : q # p => proc'[q] = proc[q]
       BY <1>1, <1>9, MoveFacts
<1>11. Len(<<k>>) = 1 /\ (\A m \in 1..Len(<<k>>) : m = 1 /\ <<k>>[m] = k) /\ ItemsOf(x) = {k}
  <2>1. Len(<<k>>) = 1 /\ \A m \in 1..Len(<<k>>) : m = 1 /\ <<k>>[m] = k
        OBVIOUS
  <2>2. Len(x.items) = 1 /\ \A m \in 1..Len(x.items) : m = 1 /\ x.items[m] = k
        BY <1>7, <2>1, Zenon
  <2>3. 1 \in 1..1
        OBVIOUS
  <2>4. ItemsOf(x) = {k}
        BY <2>2, <2>3 DEF ItemsOf
  <2> QED BY <2>1, <2>4
<1>12. \A l : <<l>> = <<k>> <=> l = k
       OBVIOUS
<1>13. table \subseteq Issued /\ Issued \subseteq Ids
       BY IssuedFacts DEF Issued
<1>14. b \in table
  <2>1. Has(proc[p], b)
        BY <1>2 DEF Has
  <2> QED BY <1>13, <2>1 DEF CoreInv, LockedAtHand
<1>15. ~Begun(k)
  <2>1. ASSUME Begun(k) PROVE FALSE
    <3>1. PICK q \in Pids : Reaches(proc[q], b, n)
          BY <1>2, <1>3, <1>14, <2>1 DEF CoreInv, ReachedBegun
    <3>2. Has(proc[q], b) /\ Has(proc[p], b)
          BY <1>2, <3>1 DEF Has, Reaches
    <3>3. q = p
          BY <1>13, <3>2, OneHas DEF CoreInv
    <3> QED BY <1>2, <3>1, <3>3 DEF Reaches
  <2> QED BY <2>1
<1>16. NothingFails'
       BY <1>6, <1>9, <1>10 DEF CoreInv, NothingFails
<1>17. LockedAtHand'
  <2>1. \A i \in Ids : Has(r, i) <=> i = new \/ i = b
        BY <1>2, <1>9 DEF Has
  <2>2. \A i \in Ids : Has(proc[p], i) <=> i = b
        BY <1>1, <1>2 DEF Has
  <2>3. ASSUME NEW i \in Ids PROVE Has(r, i) <=> i \in table' /\ row'[i].by = p
    <3>1. CASE i = new
          BY <1>7, <1>8, <2>1, <3>1
    <3>2. CASE i # new
          BY <1>8, <1>13, <2>1, <2>2, <3>2 DEF CoreInv, LockedAtHand
    <3> QED BY <3>1, <3>2
  <2>4. ASSUME NEW i \in Ids, NEW q \in Pids, q # p
        PROVE  (i \in table' /\ row'[i].by = q) <=> (i \in table /\ row[i].by = q)
    <3>1. CASE i = new
          BY <1>7, <1>8, <1>13, <2>4, <3>1
    <3>2. CASE i # new
          BY <1>8, <1>13, <3>2
    <3> QED BY <3>1, <3>2
  <2> QED BY <1>9, <2>3, <2>4, MoveLocks DEF CoreInv
<1>18. CollectedOnce'
  <2>1. Collected' = Collected /\ caller' = caller
        BY <1>6 DEF Collected
  <2>2. \A i \in Issued' : \A l \in ItemsOf(row'[i]) : l \notin Collected
        BY <1>2, <1>3, <1>8, <1>11 DEF CoreInv, CollectedOnce
  <2> QED BY <2>1, <2>2 DEF CoreInv, CollectedOnce
<1>19. EnqueuedOnce'
  <2>1. ASSUME NEW i \in Issued', NEW l \in 1..Len(row'[i].items), NEW m \in 1..Len(row'[i].items),
               row'[i].items[l] = row'[i].items[m]
        PROVE  l = m
    <3>1. CASE i = new
      <4>1. row'[i].items = <<k>>
            BY <1>7, <1>8, <3>1
      <4> QED BY <1>11, <2>1, <4>1
    <3>2. CASE i \in Issued
          BY <1>8, <2>1, <3>2 DEF CoreInv, EnqueuedOnce
    <3> QED BY <1>8, <3>1, <3>2
  <2>2. \A j \in Issued : Single(j) => k \notin ItemsOf(row[j])
        BY <1>15, IssuedFacts
  <2>3. ASSUME NEW i \in Issued', NEW j \in Issued', NEW l,
               l \in ItemsOf(row'[i]), l \in ItemsOf(row'[j]), Single(i)' <=> Single(j)'
        PROVE  i = j
    <3>1. CASE i = new /\ j \in Issued
          BY <1>8, <1>11, <2>2, <2>3, <3>1
    <3>2. CASE j = new /\ i \in Issued
          BY <1>8, <1>11, <2>2, <2>3, <3>2
    <3>3. CASE i \in Issued /\ j \in Issued
          BY <1>8, <2>3, <3>3 DEF CoreInv, EnqueuedOnce
    <3> QED BY <1>8, <3>1, <3>2, <3>3
  <2> QED BY <2>1, <2>3 DEF EnqueuedOnce
<1>20. ReachedBegun'
  <2>1. ASSUME NEW i \in table', NEW m \in 1..Len(row'[i].items), ~Single(i)',
               NEW l, l = row'[i].items[m], Begun(l) \/ l = k
        PROVE  \E q \in Pids : Reaches(proc'[q], i, m)
    <3>1. i \in table /\ i \in Issued /\ i # new
          BY <1>8, <1>13, <2>1
    <3>2. /\ row'[i] = row[i] /\ ~Single(i) /\ m \in 1..Len(row[i].items)
          /\ l = row[i].items[m] /\ l \in ItemsOf(row[i])
          BY <1>8, <2>1, <3>1 DEF ItemsOf
    <3>3. CASE Begun(l)
      <4>1. PICK q \in Pids : Reaches(proc[q], i, m)
            BY <3>1, <3>2, <3>3 DEF CoreInv, ReachedBegun
      <4>2. Reaches(proc'[q], i, m)
            BY <1>2, <1>9, <1>10, <4>1 DEF Reaches
      <4> QED BY <4>2
    <3>4. CASE l = k
      <4>1. i = b
        <5>1. \A j, h \in Issued : k \in ItemsOf(row[j]) /\ k \in ItemsOf(row[h])
                                   /\ (Single(j) <=> Single(h)) => j = h
              BY DEF CoreInv, EnqueuedOnce
        <5> QED BY <1>2, <1>3, <3>1, <3>2, <3>4, <5>1
      <4>2. m = n
        <5>1. \A h, j \in 1..Len(row[b].items) : row[b].items[h] = row[b].items[j] => h = j
              BY DEF CoreInv, EnqueuedOnce
        <5>2. m \in 1..Len(row[b].items) /\ row[b].items[m] = k
              BY <3>2, <3>4, <4>1
        <5>3. n \in 1..Len(row[b].items) /\ row[b].items[n] = k
              BY <1>2, <1>3
        <5> QED BY <5>1, <5>2, <5>3
      <4>3. Reaches(proc'[p], i, m)
            BY <1>2, <1>9, <1>10, <4>1, <4>2 DEF Reaches
      <4> QED BY <4>3
    <3> QED BY <2>1, <3>3, <3>4
  <2> QED BY <1>8, <1>12, <2>1 DEF ReachedBegun, Reaches
<1>21. TriedBegun' /\ OncePerItem'
       BY <1>6, <1>8 DEF CoreInv, TriedBegun, OncePerItem, history
<1>22. ReturnedGoes'
  <2>1. ASSUME NEW l \in Items, NEW i \in table', row'[i].items = <<l>>, done[l] > 0
        PROVE  \E q \in Pids : Returned(proc'[q], i)
    <3>1. CASE i = new
          BY <1>7, <1>8, <1>12, <1>15, <2>1, <3>1 DEF CoreInv, TriedBegun
    <3>2. CASE i \in table
      <4>1. PICK q \in Pids : Returned(proc[q], i)
            BY <1>8, <1>13, <2>1, <3>2 DEF CoreInv, ReturnedGoes
      <4>2. q # p
            BY <1>1, <4>1 DEF Returned
      <4> QED BY <1>10, <4>1, <4>2
    <3> QED BY <1>8, <3>1, <3>2
  <2>2. done' = done
        BY <1>6 DEF history
  <2> QED BY <2>1, <2>2 DEF ReturnedGoes, Returned
<1>23. TriedInOrder'
  <2>1. tried' = tried
        BY <1>6 DEF history
  <2>2. TriedTo(r)
    <3>1. TriedTo(proc[p])
          BY DEF CoreInv, TriedInOrder
    <3> QED BY <1>1, <1>2, <1>9, <3>1 DEF TriedTo
  <2>3. \A q \in Pids : TriedTo(proc'[q])
        BY <1>10, <2>2 DEF CoreInv, TriedInOrder
  <2> QED BY <2>1, <2>3 DEF TriedInOrder, TriedTo
<1> QED BY <1>16, <1>17, <1>18, <1>19, <1>20, <1>21, <1>22, <1>23 DEF CoreInv

\* Nothing is at hand and nothing is enqueued yet.
LEMMA CoreInit == Init => CoreInv
<1> SUFFICES ASSUME Init PROVE CoreInv
    OBVIOUS
<1>1. /\ table = {} /\ nextId = 1 /\ tried = {} /\ pool.orphans = {}
      /\ \A k \in Items : done[k] = 0
      /\ \A g \in Groups : caller.batches[g] = <<>>
      BY DEF Init
<1>2. Issued = {}
  <2>1. \A i \in 1..MaxId : ~(i < 1)
        BY BoundsAssumption
  <2> QED BY <1>1, <2>1 DEF Issued, Ids
<1>3. \A n \in 1..Len(<<>>) : FALSE
      OBVIOUS
<1>4. \A p \in Pids : proc[p].st = "none" /\ proc[p].batch = NoCopy
      BY NoProcFacts DEF Init, NoProc
<1>5. NothingFails /\ LockedAtHand /\ TriedInOrder
      BY <1>1, <1>4 DEF NothingFails, LockedAtHand, TriedInOrder, TriedTo, Has
<1>6. CollectedOnce
      BY <1>1, <1>2, <1>3 DEF CollectedOnce
<1>7. EnqueuedOnce
      BY <1>2 DEF EnqueuedOnce
<1>8. ReachedBegun /\ TriedBegun /\ ReturnedGoes /\ OncePerItem
      BY <1>1 DEF ReachedBegun, TriedBegun, ReturnedGoes, OncePerItem
<1> QED BY <1>5, <1>6, <1>7, <1>8 DEF CoreInv

\* Every step while no worker dies.
LEMMA CoreNextKeeps == BatchInv /\ BatchInv' /\ CoreInv /\ [CoreNext]_vars => CoreInv'
<1> SUFFICES ASSUME BatchInv, BatchInv', CoreInv, [CoreNext]_vars PROVE CoreInv'
    OBVIOUS
<1>1. CASE UNCHANGED vars
  <2>1. /\ UNCHANGED <<caller, table, nextId, done, tried>>
        /\ row' = row /\ proc' = proc /\ pool' = pool
        BY <1>1 DEF vars
  <2>2. CollectedOnce' /\ TypeOK' /\ pool'.orphans = {}
        BY <2>1, ItemsSame DEF CoreInv, NothingFails, BatchInv
  <2> QED BY <2>1, <2>2, FreeCore
<1>2. CASE CallerNext
      BY <1>2, FreeSteps, FlushCore, CollectCore, EnqueueAtCore DEF CallerNext
<1>3. CASE PoolNext
      BY <1>3, FreeSteps DEF PoolNext, CoreInv, NothingFails
<1>4. CASE TimeNext
      BY <1>4, FreeSteps DEF TimeNext
<1>5. ASSUME NEW p \in Pids, Step(p)
      PROVE  CoreInv'
  <2>1. ~HandleFailedBatch(p)
        BY DEF CoreInv, NothingFails, HandleFailedBatch
  <2> QED BY <1>5, <2>1, TakeCore, FreeSteps, CreateCore, InvokeCore, DoneCore, BatchDoneCore
             DEF Step
<1> QED BY <1>1, <1>2, <1>3, <1>4, <1>5 DEF CoreNext

\* The inductive invariant of the batch in operation.
LEMMA CoreInvariant == CoreSpec => [](BatchInv /\ CoreInv)
<1>1. Init => BatchInv /\ CoreInv
      BY InitHolds, CoreInit
<1>2. BatchInv /\ CoreInv /\ [CoreNext]_vars => (BatchInv /\ CoreInv)'
  <2>1. [CoreNext]_vars => [Next]_vars
        BY DEF Next
  <2> QED BY <2>1, NextKeeps, CoreNextKeeps
<1> QED BY <1>1, <1>2, PTL DEF CoreSpec

\* While no worker dies and the database does not refuse, no item is performed
\* again after it returned, though items raise and are retried beside their
\* batch: perform_batch gives an item one row, and job.destroy comes before
\* any other worker can take it.
THEOREM NoItemTwice == CoreSpec => []OncePerItem
<1>1. BatchInv /\ CoreInv => OncePerItem
      BY DEF CoreInv
<1> QED BY <1>1, CoreInvariant, PTL

\* The items of a batch are begun in the order in which they were enqueued
\* (perform_batch, each item of job.payload_object.items in turn).
THEOREM ItemsInOrder == CoreSpec => []InOrder
<1>1. BatchInv /\ CoreInv => InOrder
  <2> SUFFICES ASSUME BatchInv, CoreInv, NEW i \in table,
                      NEW m \in 1..Len(row[i].items), NEW n \in 1..Len(row[i].items),
                      m < n, row[i].items[n] \in tried
               PROVE  row[i].items[m] \in tried
      BY DEF InOrder
  <2>1. ~Single(i) /\ m \in Nat /\ n \in Nat /\ m >= 1
    <3>1. i \in Ids /\ Len(row[i].items) \in Nat
          BY IssuedFacts DEF Issued
    <3> QED BY <3>1 DEF Single
  <2>2. Begun(row[i].items[n])
        BY DEF CoreInv, TriedBegun
  <2>3. PICK p \in Pids : Reaches(proc[p], i, n)
        BY <2>1, <2>2 DEF CoreInv, ReachedBegun
  <2>4. /\ proc[p].batch # NoCopy /\ proc[p].pos \in Nat /\ proc[p].pos >= n
        /\ proc[p].batch.items = row[i].items
        BY <2>3, HandFacts DEF Reaches
  <2>5. m \in 1..proc[p].pos /\ m # proc[p].pos
        BY <2>1, <2>4
  <2> QED BY <2>4, <2>5 DEF CoreInv, TriedInOrder, TriedTo
<1> QED BY <1>1, CoreInvariant, PTL

=============================================================================
