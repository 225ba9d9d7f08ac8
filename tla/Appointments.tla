---------------------------- MODULE Appointments ----------------------------
(***************************************************************************)
(* The time slots of one appointment group and their reservations, under   *)
(* requests that run at once (calendar_event.rb, appointment_group.rb,     *)
(* enrollment.rb).  A request is a transaction at READ COMMITTED: it sees  *)
(* what was committed and its own writes, a row that it updates or reads   *)
(* FOR UPDATE is its own until it ends, and whoever wants that row waits.  *)
(* A step takes one row; queries that wait for nothing go with the step    *)
(* before them.                                                            *)
(***************************************************************************)
EXTENDS Integers, Sequences, FiniteSets, Relation

CONSTANTS
  Slots,           \* the group's appointments
  Participants,    \* the students
  Clients,         \* the server processes: requests under way at once
  Group,           \* the row of the group
  None,            \* no slot, no participant
  Limits,          \* the values of participants_per_appointment
  Mixes            \* the mixes of requests to look at

AllKinds == {"reserve", "cancel", "delete", "drop", "conclude", "limit"}

ASSUME NamesAssumption == /\ None \notin Slots \cup Participants
                          /\ Slots \cap Participants = {}
                          /\ Group \notin Slots \cup Participants
                          /\ Group \notin Nat
                          /\ \A x \in Slots \cup Participants : x \notin Nat
ASSUME ClientsAssumption == IsFiniteSet(Clients)
ASSUME LimitsAssumption == Limits \subseteq Nat \ {0} /\ Limits # {}

\* swaps: the values of cancel_existing. most: max_appointments_per_participant.
\* rows: a bound on the reservations ever made.
ASSUME MixesAssumption ==
  \A m \in Mixes : /\ m.kinds \subseteq AllKinds /\ m.swaps \subseteq BOOLEAN
                   /\ m.most \in Nat \ {0} /\ m.rows \in Nat

VARIABLES
  mix,    \* the mix at hand, which never changes
  open,   \* the group is published and not deleted
  slot,   \* workflow_state of each slot
  limit,  \* participants_per_appointment of each slot
  rows,   \* the reservations, in the order in which they were committed
  req     \* what each client is doing

vars == <<mix, open, slot, limit, rows, req>>

SlotStates == {"active", "locked", "deleted"}
Ids == 1..Len(rows)
Lockable == Slots \cup Participants \cup {Group} \cup (1..mix.rows)

\* at: the next step. seen: the state of the slot as the request's object has
\* it. todo, want: slots and rows still to be taken. held: the rows it has
\* taken. gone, put: its reservations deleted and slots updated, uncommitted.
Request ==
  [kind : mix.kinds \cup {"none"},
   at : {"idle", "slot", "who", "mine", "check", "row", "owner", "unlock", "group",
         "drop", "delete", "child", "sweep", "commit"},
   slot : Slots \cup {None}, who : Participants \cup {None}, row : 0..mix.rows,
   swap : BOOLEAN, seen : SlotStates, todo : SUBSET Slots, want : SUBSET Lockable,
   held : SUBSET Lockable, gone : SUBSET (1..mix.rows),
   put : [Slots -> SlotStates \cup {"same"}]]

Idle == [kind |-> "none", at |-> "idle", slot |-> None, who |-> None, row |-> 0,
         swap |-> FALSE, seen |-> "active", todo |-> {}, want |-> {}, held |-> {},
         gone |-> {}, put |-> [s \in Slots |-> "same"]]

TypeOK ==
  /\ mix \in Mixes
  /\ open \in BOOLEAN
  /\ slot \in [Slots -> SlotStates]
  /\ limit \in [Slots -> Limits]
  /\ rows \in Seq([slot : Slots, who : Participants, live : BOOLEAN])
  /\ Len(rows) <= mix.rows
  /\ req \in [Clients -> Request]

Init ==
  /\ mix \in Mixes
  /\ open = TRUE
  /\ slot = [s \in Slots |-> "active"]
  /\ limit \in [Slots -> Limits]
  /\ rows = <<>>
  /\ req = [q \in Clients |-> Idle]

-----------------------------------------------------------------------------
(* What a transaction sees and may take.                                   *)

Live == {i \in Ids : rows[i].live}

SlotAsSeenBy(q, s) == IF req[q].put[s] = "same" THEN slot[s] ELSE req[q].put[s]

\* child_events of a slot; reservations_for a participant, which joins the
\* slots that are not deleted.
ChildEvents(q, s) == {i \in Live \ req[q].gone : rows[i].slot = s}

ReservationsFor(q, p) ==
  {i \in Live \ req[q].gone :
     rows[i].who = p /\ SlotAsSeenBy(q, rows[i].slot) # "deleted"}

Free(q, x) == \A other \in Clients \ {q} : x \notin req[other].held

Goto(q, step) == [req[q] EXCEPT !.at = step]

\* Take row x and go on with the request as new.
Take(q, x, new) ==
  /\ Free(q, x)
  /\ req' = [req EXCEPT ![q] = [new EXCEPT !.held = @ \cup {x}]]
  /\ UNCHANGED <<mix, open, slot, limit, rows>>

Begin(q, kind, new) ==
  /\ kind \in mix.kinds
  /\ req[q] = Idle
  /\ req' = [req EXCEPT ![q] = [new EXCEPT !.kind = kind]]
  /\ UNCHANGED <<mix, open, slot, limit, rows>>

At(q, step) == req[q].at = step

-----------------------------------------------------------------------------
(* CalendarEvent#reserve_for.                                              *)

\* A page may still show a slot that has been deleted: only the group is asked
\* for the permission to reserve.
StartReserve(q, s, p, swap) ==
  /\ open
  /\ Len(rows) + Cardinality({c \in Clients : req[c].kind = "reserve"}) < mix.rows
  /\ Begin(q, "reserve",
           [Idle EXCEPT !.at = "slot", !.slot = s, !.who = p, !.swap = swap])

\* Mutants: the row is read but not taken; taken, but the object not reloaded.
LockSlotNot(q) ==
  /\ At(q, "slot")
  /\ req' = [req EXCEPT ![q] = [Goto(q, "who") EXCEPT !.seen = slot[req[q].slot]]]
  /\ UNCHANGED <<mix, open, slot, limit, rows>>
LockSlotStale(q) == At(q, "slot") /\ Take(q, req[q].slot, Goto(q, "who"))

\* lock! reloads the slot as it takes its row.
LockSlot(q) ==
  /\ At(q, "slot")
  /\ Take(q, req[q].slot, [Goto(q, "who") EXCEPT !.seen = slot[req[q].slot]])

\* Mutant: the participant's row is not taken.
LockParticipantNot(q) ==
  /\ At(q, "who")
  /\ req' = [req EXCEPT ![q] = Goto(q, "check")]
  /\ UNCHANGED <<mix, open, slot, limit, rows>>

\* participant.lock!; with cancel_existing the query for the participant's
\* reservations begins, which locks the rows it joins.
LockParticipant(q) ==
  LET mine == ReservationsFor(q, req[q].who) IN
  /\ At(q, "who")
  /\ Take(q, req[q].who,
          IF req[q].swap
            THEN [Goto(q, "mine") EXCEPT !.want = mine \cup {rows[i].slot : i \in mine}]
            ELSE Goto(q, "check"))

LockExisting(q) ==
  /\ At(q, "mine")
  /\ \E x \in req[q].want : Take(q, x, [req[q] EXCEPT !.want = @ \ {x}])

\* Mutant: the slots left are not unlocked.
CancelExistingOnly(q) ==
  /\ At(q, "mine")
  /\ req[q].want = {}
  /\ req' = [req EXCEPT ![q] = [Goto(q, "check") EXCEPT
                !.gone = ReservationsFor(q, req[q].who) \cap req[q].held]]
  /\ UNCHANGED <<mix, open, slot, limit, rows>>

\* Each reservation that is still there is destroyed, and a slot that loses
\* its last one is unlocked, with an object of its own.
CancelExisting(q) ==
  LET mine == ReservationsFor(q, req[q].who) \cap req[q].held
      emptied == {s \in Slots : /\ slot[s] = "locked"
                                /\ \E i \in mine : rows[i].slot = s
                                /\ ChildEvents(q, s) \subseteq mine}
      new == [Goto(q, "check") EXCEPT
                !.gone = mine,
                !.put = [s \in Slots |-> IF s \in emptied THEN "active" ELSE "same"]]
  IN /\ At(q, "mine")
     /\ req[q].want = {}
     /\ IF emptied = {}
          THEN /\ req' = [req EXCEPT ![q] = new]
               /\ UNCHANGED <<mix, open, slot, limit, rows>>
          ELSE Take(q, Group, new)

\* Mutant: without the test for a reservation of the same appointment.
CanReserveAgain(q) ==
  /\ Cardinality(ReservationsFor(q, req[q].who)) < mix.most
  /\ Cardinality(ChildEvents(q, req[q].slot)) < limit[req[q].slot]

CanReserve(q) ==
  LET s == req[q].slot  p == req[q].who IN
  /\ Cardinality(ReservationsFor(q, p)) < mix.most
  /\ Cardinality(ChildEvents(q, s)) < limit[s]
  /\ \A i \in ChildEvents(q, s) : rows[i].who # p

\* Mutants: the slot is not locked, or gets a state that does not exist.
ReserveOnly(q) ==
  /\ At(q, "check")
  /\ CanReserve(q)
  /\ req' = [req EXCEPT ![q] = Goto(q, "commit")]
  /\ UNCHANGED <<mix, open, slot, limit, rows>>
ReserveMisnamed(q) ==
  /\ At(q, "check")
  /\ CanReserve(q)
  /\ req' = [req EXCEPT ![q] = [Goto(q, "group") EXCEPT !.put[req[q].slot] = "reserved"]]
  /\ UNCHANGED <<mix, open, slot, limit, rows>>

\* The new reservation is inserted, and the slot is locked if the object says
\* that it is active.
Reserve(q) ==
  /\ At(q, "check")
  /\ CanReserve(q)
  /\ req' = [req EXCEPT ![q] =
               IF req[q].seen = "active"
                 THEN [Goto(q, "group") EXCEPT !.put[req[q].slot] = "locked"]
                 ELSE Goto(q, "commit")]
  /\ UNCHANGED <<mix, open, slot, limit, rows>>

\* A ReservationError or a killed statement rolls everything back.
Rollback(q) ==
  /\ req' = [req EXCEPT ![q] = Idle]
  /\ UNCHANGED <<mix, open, slot, limit, rows>>

\* Mutant: without a transaction what was destroyed stays so.
RefuseCommitted(q) ==
  /\ At(q, "check")
  /\ ~CanReserve(q)
  /\ rows' = [i \in Ids |-> [rows[i] EXCEPT !.live = @ /\ i \notin req[q].gone]]
  /\ req' = [req EXCEPT ![q] = Idle]
  /\ UNCHANGED <<mix, open, slot, limit>>

Refuse(q) ==
  /\ At(q, "check")
  /\ ~CanReserve(q)
  /\ Rollback(q)

-----------------------------------------------------------------------------
(* CalendarEvent#destroy, for a reservation and for a slot;                *)
(* AppointmentGroup#destroy; Enrollment#cancel_future_appointments.        *)

\* The permission to delete reads parent_event, which the reservation keeps.
StartCancel(q, i) ==
  Begin(q, "cancel",
        [Idle EXCEPT !.at = "row", !.row = i, !.slot = rows[i].slot,
                     !.seen = slot[rows[i].slot]])

UpdateReservation(q) ==
  LET i == req[q].row IN
  /\ At(q, "row")
  /\ Take(q, i, [Goto(q, "owner") EXCEPT !.gone = {i}])

\* touch_context updates the participant.  Then the slot is unlocked if the
\* object says that it is locked and no other reservation is seen.
TouchOwner(q) ==
  LET s == req[q].slot IN
  /\ At(q, "owner")
  /\ Take(q, rows[req[q].row].who,
          Goto(q, IF req[q].kind # "cancel" THEN "child"
                  ELSE IF req[q].seen = "locked" /\ ChildEvents(q, s) = {}
                  THEN "unlock" ELSE "commit"))

Unlock(q) ==
  LET s == req[q].slot IN
  /\ At(q, "unlock")
  /\ Take(q, s, [Goto(q, "group") EXCEPT !.put[s] = "active"])

\* touch_context updates the group for a slot that was saved; destroy then
\* reads the children.
TouchGroup(q) ==
  LET s == req[q].slot IN
  /\ At(q, "group")
  /\ Take(q, Group,
          IF req[q].kind = "delete"
            THEN [Goto(q, "child") EXCEPT !.want = ChildEvents(q, s)]
            ELSE Goto(q, "commit"))

StartDelete(q, s) ==
  /\ open
  /\ slot[s] # "deleted"
  /\ Begin(q, "delete", [Idle EXCEPT !.at = "delete", !.slot = s, !.todo = {s}])

\* The slots and their children are loaded by update_cached_values, before the
\* group is saved.
StartDrop(q) ==
  LET there == {s \in Slots : slot[s] # "deleted"} IN
  /\ open
  /\ Begin(q, "drop", [Idle EXCEPT !.at = "drop", !.todo = there,
                                   !.want = {i \in Live : rows[i].slot \in there}])

DropGroup(q) ==
  /\ At(q, "drop")
  /\ Take(q, Group, Goto(q, "child"))

\* The children of the slots deleted so far go before the next slot.
Orphans(q) == {i \in req[q].want : req[q].put[rows[i].slot] = "deleted"}

DeleteSlot(q) ==
  /\ \/ At(q, "delete")
     \/ At(q, "child") /\ Orphans(q) = {}
  /\ \E s \in req[q].todo :
       Take(q, s, [Goto(q, IF req[q].kind = "delete" THEN "group" ELSE "child")
                     EXCEPT !.todo = @ \ {s}, !.put[s] = "deleted"])

DeleteChild(q) ==
  /\ At(q, "child")
  /\ \E i \in Orphans(q) :
       Take(q, i, [Goto(q, "owner") EXCEPT !.row = i, !.want = @ \ {i}, !.gone = @ \cup {i}])

\* One UPDATE of all reservations of a student whose enrollment is concluded.
StartConclude(q, p) ==
  LET mine == {i \in Live : rows[i].who = p} IN
  /\ mine # {}
  /\ Begin(q, "conclude", [Idle EXCEPT !.at = "sweep", !.want = mine])

SweepRow(q) ==
  /\ At(q, "sweep")
  /\ \E i \in req[q].want :
       Take(q, i, [req[q] EXCEPT !.want = @ \ {i},
                                 !.gone = IF rows[i].live THEN @ \cup {i} ELSE @])

-----------------------------------------------------------------------------
(* The end of a transaction; the teacher's other update; the database.     *)

Ready(q) ==
  \/ At(q, "commit")
  \/ At(q, "child") /\ Orphans(q) = {} /\ req[q].todo = {}
  \/ At(q, "sweep") /\ req[q].want = {}

Kept(q) == [i \in Ids |-> [rows[i] EXCEPT !.live = @ /\ i \notin req[q].gone]]

Commit(q) ==
  /\ Ready(q)
  /\ slot' = [s \in Slots |-> SlotAsSeenBy(q, s)]
  /\ rows' = IF req[q].kind = "reserve"
               THEN Append(Kept(q), [slot |-> req[q].slot, who |-> req[q].who, live |-> TRUE])
               ELSE Kept(q)
  /\ open' = (open /\ req[q].kind # "drop")
  /\ req' = [req EXCEPT ![q] = Idle]
  /\ UNCHANGED <<mix, limit>>

\* participants_per_appointment= and save, a single UPDATE of the slot.
ChangeLimit(q, s, n) ==
  /\ "limit" \in mix.kinds
  /\ req[q] = Idle
  /\ open /\ slot[s] # "deleted" /\ n # limit[s]
  /\ Free(q, s) /\ Free(q, Group)
  /\ limit' = [limit EXCEPT ![s] = n]
  /\ UNCHANGED <<mix, open, slot, rows, req>>

\* The rows of which the next step takes one.
Wanted(q) ==
  CASE At(q, "slot")   -> {req[q].slot}
    [] At(q, "unlock") -> {req[q].slot}
    [] At(q, "who")    -> {req[q].who}
    [] At(q, "mine")   -> IF req[q].want = {} THEN {Group} ELSE req[q].want
    [] At(q, "row")    -> {req[q].row}
    [] At(q, "owner")  -> {rows[req[q].row].who}
    [] At(q, "group")  -> {Group}
    [] At(q, "drop")   -> {Group}
    [] At(q, "delete") -> req[q].todo
    [] At(q, "child")  -> IF Orphans(q) = {} THEN req[q].todo ELSE Orphans(q)
    [] At(q, "sweep")  -> req[q].want
    [] OTHER           -> {}

WaitsFor(q, c) ==
  /\ q # c
  /\ Wanted(q) # {}
  /\ \A x \in Wanted(q) : ~Free(q, x)
  /\ Wanted(q) \cap req[c].held # {}

WaitsInACircle(q) ==
  TransitiveClosure([x, y \in Clients |-> WaitsFor(x, y)], Clients)[q, q]

\* PostgreSQL ends a transaction that waits in a circle.
Deadlock(q) == WaitsInACircle(q) /\ Rollback(q)

-----------------------------------------------------------------------------
Start(q) ==
  \/ \E s \in Slots, p \in Participants, swap \in mix.swaps : StartReserve(q, s, p, swap)
  \/ \E i \in Ids : StartCancel(q, i)
  \/ \E s \in Slots : StartDelete(q, s)
  \/ StartDrop(q)
  \/ \E p \in Participants : StartConclude(q, p)
  \/ \E s \in Slots, n \in Limits : ChangeLimit(q, s, n)

Step(q) ==
  \/ LockSlot(q) \/ LockParticipant(q) \/ LockExisting(q) \/ CancelExisting(q)
  \/ Reserve(q) \/ Refuse(q)
  \/ UpdateReservation(q) \/ TouchOwner(q) \/ Unlock(q) \/ TouchGroup(q)
  \/ DropGroup(q) \/ DeleteSlot(q) \/ DeleteChild(q) \/ SweepRow(q)
  \/ Commit(q)

Next == \E q \in Clients : Start(q) \/ Step(q) \/ Deadlock(q)

Spec == Init /\ [][Next]_vars


-----------------------------------------------------------------------------
(* Properties.                                                             *)

LiveIn(s) == {i \in Live : rows[i].slot = s}

\* Some of them hold without certain kinds of requests only.
Asked(kinds) == mix.kinds \cap kinds # {}

\* The slot's row is held from the count to the commit: a reservation is never
\* added to a slot beyond the slot's own limit at that time, whoever else asks for
\* it and whenever the teacher changes this limit (calendar_event.rb:393, :404).
\* The group's limit, which a slot without one of its own falls back to (:425-430),
\* is not held by this lock and is left out.
GrowsWithinLimit ==
  [][\A s \in Slots : ~(LiveIn(s)' \subseteq LiveIn(s)) => Cardinality(LiveIn(s)') <= limit'[s]]_vars

\* Nobody holds two places in one slot, after a double click, a retry or a
\* swap either (calendar_event.rb:405).
OncePerSlot ==
  \A i, j \in Live : rows[i].slot = rows[j].slot /\ rows[i].who = rows[j].who => i = j

\* The participant's row is held too: two requests for one participant, each
\* in a slot of its own, do not exceed the participant's limit
\* (calendar_event.rb:394, :403). A cancellation may bring a deleted slot back
\* with what was in it.
WithinMax ==
  ~(Asked({"cancel"}) /\ Asked({"delete", "drop"})) => \A p \in Participants :
    Cardinality({i \in Live : rows[i].who = p /\ slot[rows[i].slot] # "deleted"}) <= mix.most

\* Who asks for another slot in place of the one held ends with one of them,
\* although the old one is given up first and the new one may be refused or
\* the transaction be killed (calendar_event.rb:392-404).
SwapKeepsPlace ==
  [][\A q \in Clients :
       LET mine == {i \in Live : rows[i].who = req[q].who} IN
       req[q].kind = "reserve" /\ req'[q] = Idle /\ mine # {}
         => \E i \in Live' : rows'[i].who = req[q].who]_vars

\* A slot with reservations is locked, without swaps, which may unlock the very
\* slot that is reserved, and cancellations, whose object of the slot is as old
\* as they are (calendar_event.rb:287-290, :412-415).
ReservedIsLocked ==
  TRUE \in mix.swaps \/ Asked({"cancel"})
    \/ \A s \in Slots : slot[s] = "active" => LiveIn(s) = {}

\* A slot is unlocked with its last reservation, a swap's too, without
\* cancellations, two of which leave it to each other, and concluded
\* enrollments, which leave it as it is (calendar_event.rb:287-290).
FreeIsUnlocked ==
  Asked({"cancel", "conclude"})
    \/ \A s \in Slots : slot[s] = "locked" => LiveIn(s) # {}

\* A deleted slot is not there again, although requests have waited for its row,
\* without cancellations, whose object is as old as they are
\* (calendar_event.rb:266, :393).
DeletedStays ==
  [][Asked({"cancel"}) \/ \A s \in Slots : slot[s] = "deleted" => slot'[s] = "deleted"]_vars
=============================================================================
