------------------------- MODULE AppointmentsProofs -------------------------
(***************************************************************************)
(* Theorems about Appointments: all of its properties, for any number of   *)
(* slots, participants and server processes and any mix of requests.       *)
(*                                                                         *)
(* The invariant Inv says of each request what it knows at each step (Good)*)
(* and that no two requests hold the same row (Exclusive).  What a request *)
(* has checked depends only on rows, and states of slots, that nobody      *)
(* changes without holding the slot or the participant; these it holds, so *)
(* what it has checked is true when it commits (CommitOthers).             *)
(***************************************************************************)
EXTENDS Appointments, FiniteSetTheorems, TLAPS

\* The child events of slot s as the request r sees them, and the reservations
\* of participant p.
Children(r, s) == {i \in Live \ r.gone : rows[i].slot = s}

SeenBy(r, s) == IF r.put[s] = "same" THEN slot[s] ELSE r.put[s]

Mine(r, p) == {i \in Live \ r.gone : rows[i].who = p /\ SeenBy(r, rows[i].slot) # "deleted"}

\* A request that reserves a slot.
Reserves(r) ==
  /\ r.at \in {"slot", "who", "mine", "check", "group", "commit"}
  /\ r.slot \in Slots
  /\ r.who \in Participants
  /\ r.swap \in mix.swaps
  /\ \A s \in Slots : r.put[s] # "deleted"
  \* it comes by its rows one after the other
  /\ r.at = "slot" => r.held = {}
  /\ r.at = "who" => r.held = {r.slot}
  /\ r.at # "slot" => r.slot \in r.held /\ r.seen = slot[r.slot]
  /\ r.at \notin {"slot", "who"} => r.who \in r.held
  /\ r.at = "mine" => \A i \in (r.want \cup r.held) \cap Nat :
                        i \in Ids /\ rows[i].slot \in r.want \cup r.held
  \* and has not written before it has checked
  /\ r.at \in {"slot", "who", "mine"} => r.gone = {} /\ \A s \in Slots : r.put[s] = "same"
  /\ r.swap = FALSE => r.at # "mine" /\ r.gone = {} /\ \A s \in Slots : r.put[s] # "active"
  /\ \A s \in Slots : r.put[s] = "active" => slot[s] = "locked"
  /\ \A s \in Slots : r.put[s] = "locked" => /\ s = r.slot
                                             /\ slot[s] = "active"
                                             /\ r.at \in {"group", "commit"}
  /\ r.at \in {"group", "commit"} /\ r.seen = "active" => r.put[r.slot] = "locked"

\* What it has checked still holds when it commits.
Checked(r) ==
  r.at \in {"group", "commit"} =>
    /\ Cardinality(Children(r, r.slot)) < limit[r.slot]
    /\ \A i \in Children(r, r.slot) : rows[i].who # r.who
    /\ ~(Asked({"cancel"}) /\ Asked({"delete", "drop"}))
         => Cardinality(Mine(r, r.who)) < mix.most

Cancels(r) ==
  /\ r.at \in {"row", "owner", "unlock", "group", "commit"}
  /\ r.slot \in Slots
  /\ r.row \in Ids
  /\ \A s \in Slots : r.put[s] \in {"same", "active"}

\* A request that deletes slots, one of them or all.
Deletes(r) ==
  /\ r.at \in {"delete", "drop", "group", "child", "owner"}
  /\ r.kind = "delete" => r.slot \in Slots
  /\ r.kind = "drop" => r.at # "group"
  /\ r.at = "owner" => r.row \in Ids
  /\ r.want \subseteq Ids
  /\ \A s \in Slots : r.put[s] \in {"same", "deleted"}
  /\ \A i \in r.gone : r.put[rows[i].slot] = "deleted"

Concludes(r) ==
  /\ r.at = "sweep"
  /\ r.want \subseteq Ids
  /\ \A s \in Slots : r.put[s] = "same"

\* Without requests that leave a slot locked, each slot that stays locked keeps
\* a reservation.
KeepsOne(r) ==
  ~Asked({"cancel", "conclude"}) =>
    \A s \in Slots : r.put[s] = "same" /\ slot[s] = "locked" => Children(r, s) # {}

Good(r) ==
  /\ r.kind = "none" => r = Idle
  /\ r.kind # "limit"
  /\ r.kind = "reserve" => Reserves(r) /\ Checked(r)
  /\ r.kind = "cancel" => Cancels(r)
  /\ r.kind \in {"delete", "drop"} => Deletes(r)
  /\ r.kind = "conclude" => Concludes(r)
  /\ r.gone \subseteq Ids
  /\ r.kind \notin {"cancel", "conclude"} => \A i \in r.gone : rows[i].slot \in r.held
  /\ \A s \in Slots : r.put[s] # "same" => s \in r.held
  /\ KeepsOne(r)

\* No row is taken by two requests.
Exclusive == \A c, d \in Clients : c # d => req[c].held \cap req[d].held = {}

Reservers == {c \in Clients : req[c].kind = "reserve"}

\* The bound on the rows counts the reservations that are to be committed.
RowsBound == Len(rows) + Cardinality(Reservers) <= mix.rows

NoneDeleted == ~Asked({"delete", "drop"}) => \A s \in Slots : slot[s] # "deleted"

\* The inductive invariant.
Inv == /\ TypeOK /\ RowsBound /\ Exclusive /\ NoneDeleted
       /\ \A c \in Clients : Good(req[c])
       /\ OncePerSlot /\ WithinMax /\ ReservedIsLocked /\ FreeIsUnlocked

-----------------------------------------------------------------------------
(* The building blocks.                                                    *)

\* The rows are numbered and typed.
LEMMA RowsAre ==
  ASSUME TypeOK
  PROVE  /\ Ids \subseteq Nat /\ Ids \subseteq 1..mix.rows /\ mix.rows \in Nat
         /\ Len(rows) \in Nat
         /\ \A i \in Ids : /\ rows[i] \in [slot : Slots, who : Participants, live : BOOLEAN]
                           /\ rows[i].slot \in Slots /\ rows[i].who \in Participants
         /\ Live \subseteq Ids
<1>1. mix.rows \in Nat
  BY MixesAssumption DEF TypeOK
<1>2. Len(rows) \in Nat /\ Len(rows) <= mix.rows
  BY DEF TypeOK
<1>3. ASSUME NEW i \in Ids
      PROVE  rows[i] \in [slot : Slots, who : Participants, live : BOOLEAN]
  <2> DEFINE R == [slot : Slots, who : Participants, live : BOOLEAN]
  <2>1. rows \in Seq(R) /\ i \in 1..Len(rows)
    BY <1>3 DEF TypeOK, Ids
  <2> HIDE DEF R
  <2>2. rows[i] \in R
    BY <2>1
  <2> QED BY <2>2 DEF R
<1>4. Ids \subseteq Nat /\ Ids \subseteq 1..mix.rows
  BY <1>1, <1>2 DEF Ids
<1> QED BY <1>1, <1>2, <1>3, <1>4 DEF Live

\* Sets of rows are finite.
LEMMA RowsAreFinite ==
  ASSUME TypeOK
  PROVE  /\ IsFiniteSet(Ids)
         /\ \A S \in SUBSET Ids : IsFiniteSet(S) /\ Cardinality(S) \in Nat
<1>1. IsFiniteSet(Ids)
  BY RowsAre, FS_Interval DEF Ids
<1> QED BY <1>1, FS_Subset, FS_CardinalityType

\* What is good of a request depends on what is committed only.
LEMMA GoodStays ==
  ASSUME UNCHANGED <<mix, slot, limit, rows>>
  PROVE  \A r : Good(r) => Good(r)'
BY DEF Good, Reserves, Checked, Cancels, Deletes, Concludes, KeepsOne,
       Children, SeenBy, Mine, Live, Ids, Asked

\* An element more counts at most one more.
LEMMA OneMore ==
  ASSUME NEW S, NEW x, IsFiniteSet(S)
  PROVE  /\ IsFiniteSet(S \cup {x})
         /\ Cardinality(S) \in Nat /\ Cardinality(S \cup {x}) \in Nat
         /\ Cardinality(S \cup {x}) <= Cardinality(S) + 1
<1>1. IsFiniteSet(S \cup {x}) /\ Cardinality(S) \in Nat /\ Cardinality(S \cup {x}) \in Nat
  BY FS_AddElement, FS_CardinalityType
<1>2. Cardinality(S \cup {x}) = IF x \in S THEN Cardinality(S) ELSE Cardinality(S) + 1
  BY FS_AddElement
<1> QED BY <1>1, <1>2

\* A step of one request that commits nothing.
LEMMA OwnStep ==
  ASSUME Inv, NEW q \in Clients, NEW r \in Request,
         req' = [req EXCEPT ![q] = r],
         UNCHANGED <<mix, open, slot, limit, rows>>,
         \A c \in Clients \ {q} : r.held \cap req[c].held = {},
         Good(r),
         r.kind # "reserve" \/ req[q].kind = "reserve"
           \/ Len(rows) + Cardinality(Reservers) < mix.rows
  PROVE  Inv'
<1> USE DEF Inv
<1>0. Request' = Request
  BY DEF Request, Lockable
<1>1. TypeOK'
  BY <1>0 DEF TypeOK
<1>2. RowsBound'
  <2>1. IsFiniteSet(Reservers) /\ Cardinality(Reservers) \in Nat
    BY ClientsAssumption, FS_Subset, FS_CardinalityType DEF Reservers
  <2>2. CASE r.kind # "reserve" \/ req[q].kind = "reserve"
    <3>1. Reservers' \subseteq Reservers
      BY <2>2 DEF Reservers, TypeOK
    <3>2. Cardinality(Reservers') \in Nat /\ Cardinality(Reservers') <= Cardinality(Reservers)
      BY <2>1, <3>1, FS_Subset, FS_CardinalityType
    <3> QED BY <2>1, <3>2, RowsAre DEF RowsBound
  <2>3. CASE Len(rows) + Cardinality(Reservers) < mix.rows
    <3> DEFINE S == Reservers \cup {q}
    <3>1. Reservers' \subseteq S
      BY DEF Reservers, TypeOK
    <3>2. IsFiniteSet(S) /\ Cardinality(S) = IF q \in Reservers THEN Cardinality(Reservers)
                                             ELSE Cardinality(Reservers) + 1
      BY <2>1, FS_AddElement
    <3> HIDE DEF S
    <3>3. /\ Cardinality(Reservers') \in Nat
          /\ Cardinality(Reservers') <= Cardinality(S)
      BY <3>1, <3>2, FS_Subset, FS_CardinalityType
    <3>4. Cardinality(Reservers') <= Cardinality(Reservers) + 1
      BY <2>1, <3>2, <3>3
    <3>5. Len(rows)' = Len(rows) /\ mix' = mix
      OBVIOUS
    <3> QED BY <2>1, <2>3, <3>3, <3>4, <3>5, RowsAre DEF RowsBound
  <2> QED BY <2>2, <2>3
<1>3. Exclusive'
  BY DEF Exclusive, TypeOK
<1>4. \A c \in Clients : Good(req[c])'
  <2>1. \A c \in Clients : Good(req'[c])
    BY DEF TypeOK
  <2>2. \A c \in Clients : req'[c] \in Request
    BY <1>0, <1>1 DEF TypeOK
  <2> QED BY <2>1, <2>2, GoodStays
<1>7. Live' = Live /\ \A s \in Slots : LiveIn(s)' = LiveIn(s)
  BY DEF Live, LiveIn, Ids
<1>8. (NoneDeleted /\ OncePerSlot /\ WithinMax /\ ReservedIsLocked /\ FreeIsUnlocked)'
  BY <1>7 DEF NoneDeleted, OncePerSlot, WithinMax, ReservedIsLocked, FreeIsUnlocked, Asked
<1> QED BY <1>1, <1>2, <1>3, <1>4, <1>8

\* A step that takes a row of its own.
LEMMA TakeStep ==
  ASSUME Inv, NEW q \in Clients, NEW x \in Lockable, NEW new \in Request,
         Take(q, x, new),
         new.held = req[q].held, new.kind = req[q].kind,
         NEW r, r = [new EXCEPT !.held = @ \cup {x}], Good(r)
  PROVE  Inv'
<1>1. r \in Request
  BY DEF Request
<1>2. r.kind = req[q].kind /\ r.held = req[q].held \cup {x}
  BY DEF Request
<1>3. req[q].held \subseteq Lockable /\ \A c \in Clients \ {q} : x \notin req[c].held
  BY DEF Take, Free, Inv, TypeOK, Request
<1>4. \A c \in Clients \ {q} : r.held \cap req[c].held = {}
  BY <1>2, <1>3 DEF Inv, Exclusive
<1> QED BY <1>1, <1>2, <1>4, OwnStep DEF Take

\* A request that has not written anything since.
LEMMA KeepsOneStays ==
  ASSUME NEW o, NEW r, KeepsOne(o), r.put = o.put, r.gone = o.gone
  PROVE  KeepsOne(r)
BY DEF KeepsOne, Children

\* What a request does tells what kind of request it is.
LEMMA KindAt ==
  ASSUME Inv, NEW q \in Clients
  PROVE  /\ req[q] \in Request /\ Good(req[q])
         /\ slot \in [Slots -> SlotStates]
         /\ req[q].kind \in {"none", "reserve", "cancel", "delete", "drop", "conclude"}
         /\ req[q].kind # "none" => req[q].kind \in mix.kinds
         /\ req[q].at \in {"slot", "who", "mine", "check"} => req[q].kind = "reserve"
         /\ req[q].at \in {"row", "unlock"} => req[q].kind = "cancel"
         /\ req[q].at = "owner" => req[q].kind \in {"cancel", "delete", "drop"}
         /\ req[q].at = "group" => req[q].kind \in {"reserve", "cancel", "delete"}
         /\ req[q].at = "commit" => req[q].kind \in {"reserve", "cancel"}
         /\ req[q].at \in {"delete", "drop", "child"} => req[q].kind \in {"delete", "drop"}
         /\ req[q].at = "sweep" => req[q].kind = "conclude"
<1>1. req[q] \in Request /\ Good(req[q]) /\ slot \in [Slots -> SlotStates] /\ mix.kinds \subseteq AllKinds
  BY MixesAssumption DEF Inv, TypeOK
<1>2. req[q].kind \in mix.kinds \cup {"none"}
  BY <1>1 DEF Request
<1>3. req[q].kind \in AllKinds \cup {"none"}
  BY <1>1, <1>2
<1>4. req[q].kind = "none" => req[q].at = "idle"
  BY <1>1 DEF Good, Idle
<1>5. req[q].kind = "reserve" => req[q].at \in {"slot", "who", "mine", "check", "group", "commit"}
  BY <1>1 DEF Good, Reserves
<1>6. req[q].kind = "cancel" => req[q].at \in {"row", "owner", "unlock", "group", "commit"}
  BY <1>1 DEF Good, Cancels
<1>7. req[q].kind \in {"delete", "drop"} =>
        /\ req[q].at \in {"delete", "drop", "group", "child", "owner"}
        /\ req[q].kind = "drop" => req[q].at # "group"
  BY <1>1 DEF Good, Deletes
<1>8. req[q].kind = "conclude" => req[q].at = "sweep"
  BY <1>1 DEF Good, Concludes
<1>9. req[q].kind \in {"none", "reserve", "cancel", "delete", "drop", "conclude"}
  <2>1. req[q].kind # "limit"
    BY <1>1 DEF Good
  <2> QED BY <1>3, <2>1 DEF AllKinds
<1> QED BY <1>1, <1>2, <1>4, <1>5, <1>6, <1>7, <1>8, <1>9

-----------------------------------------------------------------------------
(* The steps of a reservation.                                             *)

\* lock! of the slot.
LEMMA LockSlotStep ==
  ASSUME Inv, NEW q \in Clients, LockSlot(q)
  PROVE  Inv'
<1> DEFINE o == req[q]
           s == req[q].slot
           new == [Goto(q, "who") EXCEPT !.seen = slot[s]]
           r == [new EXCEPT !.held = @ \cup {s}]
<1>1. /\ o \in Request /\ Good(o) /\ o.at = "slot" /\ o.kind = "reserve"
      /\ slot \in [Slots -> SlotStates]
  BY KindAt DEF LockSlot, At
<1>2. Reserves(o)
  BY <1>1 DEF Good
<1>3. s \in Slots /\ s \in Lockable
  BY <1>2 DEF Reserves, Lockable
<1>4. new \in Request /\ new.held = o.held /\ new.kind = o.kind
  BY <1>1, <1>3 DEF Goto, Request
<1>5. /\ r.kind = "reserve" /\ r.at = "who" /\ r.slot = s /\ r.who = o.who /\ r.swap = o.swap
      /\ r.seen = slot[s] /\ r.held = o.held \cup {s} /\ r.gone = o.gone /\ r.put = o.put
  BY <1>1 DEF Goto, Request
<1>6. Good(r)
  <2> HIDE DEF r
  <2>1. Reserves(r)
    BY <1>1, <1>2, <1>5 DEF Reserves
  <2>2. Checked(r) /\ KeepsOne(r)
    BY <1>1, <1>5, KeepsOneStays DEF Checked, Good
  <2> QED BY <1>1, <1>5, <2>1, <2>2 DEF Good
<1> QED BY <1>3, <1>4, <1>6, TakeStep DEF LockSlot

\* lock! of the participant.
LEMMA LockParticipantStep ==
  ASSUME Inv, NEW q \in Clients, LockParticipant(q)
  PROVE  Inv'
<1> DEFINE o == req[q]
           p == o.who
           mine == ReservationsFor(q, p)
           slots == {rows[i].slot : i \in mine}
           new == IF o.swap THEN [Goto(q, "mine") EXCEPT !.want = mine \cup slots]
                            ELSE Goto(q, "check")
           r == [new EXCEPT !.held = @ \cup {p}]
<1>1. /\ o \in Request /\ Good(o) /\ o.at = "who" /\ o.kind = "reserve"
  BY KindAt DEF LockParticipant, At
<1>2. Reserves(o)
  BY <1>1 DEF Good
<1>3. p \in Participants /\ p \in Lockable /\ o.slot \in Slots
  BY <1>2 DEF Reserves, Lockable
<1>4. mine \subseteq Ids /\ slots \subseteq Slots /\ mine \cup slots \subseteq Lockable
  BY RowsAre DEF ReservationsFor, Lockable, Inv
<1>5. Take(q, p, new)
  BY DEF LockParticipant
<1>6. new \in Request /\ new.held = o.held /\ new.kind = o.kind
  <2> HIDE DEF mine, slots
  <2> QED BY <1>1, <1>3, <1>4 DEF Goto, Request
<1>7. /\ r.kind = "reserve" /\ r.slot = o.slot /\ r.who = p /\ r.swap = o.swap
      /\ r.seen = o.seen /\ r.held = o.held \cup {p} /\ r.gone = o.gone /\ r.put = o.put
      /\ r.at = IF o.swap THEN "mine" ELSE "check"
      /\ o.swap => r.want = mine \cup slots
      /\ o.swap \in BOOLEAN
  <2> HIDE DEF mine, slots
  <2> QED BY <1>1 DEF Goto, Request
<1>8. Good(r)
  <2> HIDE DEF r
  <2>1. Reserves(r)
    <3>1. ASSUME o.swap, NEW i \in (r.want \cup r.held) \cap Nat
          PROVE  i \in Ids /\ rows[i].slot \in r.want \cup r.held
      <4>1. r.held = {o.slot, p} /\ o.slot \notin Nat /\ p \notin Nat
        BY <1>1, <1>2, <1>3, <1>7, NamesAssumption DEF Reserves
      <4>2. slots \cap Nat = {}
        BY <1>4, NamesAssumption
      <4>3. i \in mine
        <5> HIDE DEF mine, slots
        <5> QED BY <1>7, <3>1, <4>1, <4>2
      <4>4. rows[i].slot \in slots
        BY <4>3
      <4> HIDE DEF mine, slots
      <4> QED BY <1>4, <1>7, <3>1, <4>3, <4>4
    <3> HIDE DEF mine, slots
    <3> QED BY <1>1, <1>2, <1>7, <3>1 DEF Reserves
  <2>2. Checked(r) /\ KeepsOne(r)
    BY <1>1, <1>7, KeepsOneStays DEF Checked, Good
  <2> QED BY <1>1, <1>7, <2>1, <2>2 DEF Good
<1> HIDE DEF mine, slots, new
<1> QED BY <1>3, <1>5, <1>6, <1>8, TakeStep

\* Each row of the query for the reservations to cancel.
LEMMA LockExistingStep ==
  ASSUME Inv, NEW q \in Clients, LockExisting(q)
  PROVE  Inv'
<1> DEFINE o == req[q]
<1>1. PICK x \in o.want : Take(q, x, [o EXCEPT !.want = @ \ {x}])
  BY DEF LockExisting
<1> DEFINE new == [o EXCEPT !.want = @ \ {x}]
           r == [new EXCEPT !.held = @ \cup {x}]
<1>2. /\ o \in Request /\ Good(o) /\ o.at = "mine" /\ o.kind = "reserve"
  BY KindAt DEF LockExisting, At
<1>3. Reserves(o)
  BY <1>2 DEF Good
<1>4. x \in Lockable /\ new \in Request /\ new.held = o.held /\ new.kind = o.kind
  BY <1>2 DEF Request
<1>5. /\ r.kind = "reserve" /\ r.slot = o.slot /\ r.who = o.who /\ r.swap = o.swap
      /\ r.seen = o.seen /\ r.held = o.held \cup {x} /\ r.gone = o.gone /\ r.put = o.put
      /\ r.at = "mine" /\ r.want = o.want \ {x}
  BY <1>2 DEF Request
<1>6. Good(r)
  <2> HIDE DEF r
  <2>0. r.want \cup r.held = o.want \cup o.held
    BY <1>5
  <2>1. Reserves(r)
    BY <1>2, <1>3, <1>5, <2>0 DEF Reserves
  <2>2. Checked(r) /\ KeepsOne(r)
    BY <1>2, <1>5, KeepsOneStays DEF Checked, Good
  <2> QED BY <1>2, <1>5, <2>1, <2>2 DEF Good
<1> HIDE DEF r
<1> QED BY <1>1, <1>4, <1>6, TakeStep DEF r

\* What is cancelled is in slots that the request holds.
LEMMA CancelExistingStep ==
  ASSUME Inv, NEW q \in Clients, CancelExisting(q)
  PROVE  Inv'
<1> DEFINE o == req[q]
           mine == ReservationsFor(q, o.who) \cap o.held
           emptied == {s \in Slots : /\ slot[s] = "locked"
                                     /\ \E i \in mine : rows[i].slot = s
                                     /\ ChildEvents(q, s) \subseteq mine}
           put == [s \in Slots |-> IF s \in emptied THEN "active" ELSE "same"]
           new == [Goto(q, "check") EXCEPT !.gone = mine, !.put = put]
<1>1. /\ o \in Request /\ Good(o) /\ o.at = "mine" /\ o.kind = "reserve" /\ o.want = {}
  BY KindAt DEF CancelExisting, At
<1>2. Reserves(o) /\ KeepsOne(o) /\ o.swap = TRUE /\ o.gone = {}
      /\ \A s \in Slots : o.put[s] = "same"
  BY <1>1 DEF Good, Reserves, Request
<1>3. mine \subseteq Ids /\ mine \subseteq 1..mix.rows /\ \A i \in mine : i \in o.held /\ i \in Nat
  BY RowsAre DEF ReservationsFor, Inv
<1>4. \A i \in mine : rows[i].slot \in o.held
  BY <1>1, <1>2, <1>3 DEF Reserves
<1>5. put \in [Slots -> SlotStates \cup {"same"}] /\ \A s \in Slots : put[s] \in {"same", "active"}
  BY DEF SlotStates
<1>6. \A s \in Slots : put[s] = "active" => slot[s] = "locked" /\ s \in o.held
  BY <1>4
<1>7. ASSUME NEW s \in Slots, put[s] = "same", slot[s] = "locked", ~Asked({"cancel", "conclude"})
      PROVE  \E i \in Live \ mine : rows[i].slot = s
  <2>1. PICK i \in Children(o, s) : TRUE
    BY <1>2, <1>7 DEF KeepsOne
  <2>2. ChildEvents(q, s) = Children(o, s) /\ Children(o, s) = {k \in Live : rows[k].slot = s}
    BY <1>2 DEF ChildEvents, Children
  <2>3. s \notin emptied
    BY <1>7
  <2>4. ~(ChildEvents(q, s) \subseteq mine) \/ ~\E k \in mine : rows[k].slot = s
    BY <1>7, <2>3
  <2> HIDE DEF mine
  <2> QED BY <2>1, <2>2, <2>4
<1> HIDE DEF mine, emptied, put
<1>8. new \in Request /\ new.held = o.held /\ new.kind = o.kind
  BY <1>1, <1>3, <1>5 DEF Goto, Request
<1>9. ASSUME NEW r, r.kind = "reserve", r.slot = o.slot, r.who = o.who, r.swap = o.swap,
             r.seen = o.seen, o.held \subseteq r.held, r.gone = mine, r.put = put, r.at = "check"
      PROVE  Good(r)
  <2>1. Reserves(r)
    BY <1>1, <1>2, <1>5, <1>6, <1>9 DEF Reserves
  <2>2. Checked(r)
    BY <1>9 DEF Checked
  <2>3. KeepsOne(r)
    BY <1>7, <1>9 DEF KeepsOne, Children
  <2> QED BY <1>1, <1>3, <1>4, <1>6, <1>9, <2>1, <2>2, <2>3, <1>5 DEF Good
<1>10. /\ new.kind = "reserve" /\ new.slot = o.slot /\ new.who = o.who /\ new.swap = o.swap
       /\ new.seen = o.seen /\ new.held = o.held /\ new.gone = mine /\ new.put = put
       /\ new.at = "check"
  BY <1>1 DEF Goto, Request
<1>11. CASE emptied = {}
  <2>1. req' = [req EXCEPT ![q] = new] /\ UNCHANGED <<mix, open, slot, limit, rows>>
    BY <1>11 DEF CancelExisting, mine, emptied, put
  <2>2. Good(new)
    BY <1>9, <1>10
  <2>3. \A c \in Clients \ {q} : new.held \cap req[c].held = {}
    BY <1>8 DEF Inv, Exclusive
  <2> HIDE DEF new
  <2> QED BY <1>1, <1>8, <2>1, <2>2, <2>3, OwnStep
<1>12. CASE emptied # {}
  <2> DEFINE r == [new EXCEPT !.held = @ \cup {Group}]
  <2>1. Take(q, Group, new)
    BY <1>12 DEF CancelExisting, mine, emptied, put
  <2>2. /\ r.kind = new.kind /\ r.slot = new.slot /\ r.who = new.who /\ r.swap = new.swap
        /\ r.seen = new.seen /\ r.held = new.held \cup {Group} /\ r.gone = new.gone
        /\ r.put = new.put /\ r.at = new.at
    BY <1>8 DEF Request
  <2>3. Good(r)
    <3> HIDE DEF r, new
    <3> QED BY <1>9, <1>10, <2>2
  <2>4. Group \in Lockable
    BY DEF Lockable
  <2> HIDE DEF new
  <2> QED BY <1>8, <2>1, <2>3, <2>4, TakeStep
<1> QED BY <1>11, <1>12

\* CanReserve is what Checked says of the request then.
LEMMA ReserveStep ==
  ASSUME Inv, NEW q \in Clients, Reserve(q)
  PROVE  Inv'
<1> DEFINE o == req[q]
           r == IF o.seen = "active" THEN [Goto(q, "group") EXCEPT !.put[o.slot] = "locked"]
                                     ELSE Goto(q, "commit")
<1>1. /\ o \in Request /\ Good(o) /\ o.at = "check" /\ o.kind = "reserve"
  BY KindAt DEF Reserve, At
<1>2. Reserves(o) /\ o.slot \in Slots /\ o.slot \in o.held /\ o.seen = slot[o.slot]
  BY <1>1 DEF Good, Reserves
<1>3. \A s \in Slots : o.put[s] # "locked" /\ (o.put[s] = "active" => slot[s] = "locked")
  BY <1>1, <1>2 DEF Reserves
<1>4. r \in Request
  BY <1>1, <1>2 DEF Goto, Request, SlotStates
<1>5. /\ r.kind = "reserve" /\ r.slot = o.slot /\ r.who = o.who /\ r.swap = o.swap
      /\ r.seen = o.seen /\ r.held = o.held /\ r.gone = o.gone
      /\ r.at \in {"group", "commit"}
      /\ r.put = IF o.seen = "active" THEN [o.put EXCEPT ![o.slot] = "locked"] ELSE o.put
      /\ o.put \in [Slots -> SlotStates \cup {"same"}]
  BY <1>1 DEF Goto, Request
<1>6. \A s \in Slots : \/ r.put[s] = o.put[s]
                       \/ s = o.slot /\ r.put[s] = "locked" /\ slot[s] = "active"
                            /\ o.put[s] = "same"
  <2>1. CASE o.seen # "active"
    BY <1>5, <2>1
  <2>2. CASE o.seen = "active"
    <3>1. slot[o.slot] = "active" /\ o.put[o.slot] # "deleted"
      BY <1>2, <2>2 DEF Reserves
    <3>2. o.put[o.slot] = "same"
      BY <1>2, <1>3, <1>5, <3>1 DEF SlotStates
    <3>3. r.put = [o.put EXCEPT ![o.slot] = "locked"]
      BY <1>5, <2>2
    <3>4. ASSUME NEW s \in Slots PROVE r.put[s] = IF s = o.slot THEN "locked" ELSE o.put[s]
      BY <1>5, <3>3, <3>4
    <3> QED BY <3>1, <3>2, <3>4
  <2> QED BY <2>1, <2>2
<1>7. o.seen = "active" => r.put[o.slot] = "locked"
  BY <1>2, <1>5
<1>8. req' = [req EXCEPT ![q] = r] /\ UNCHANGED <<mix, open, slot, limit, rows>>
  BY DEF Reserve
<1> HIDE DEF r
<1>9. Good(r)
  <2>1. Reserves(r)
    BY <1>1, <1>2, <1>3, <1>5, <1>6, <1>7 DEF Reserves
  <2>2. \A s : Children(r, s) = ChildEvents(q, s)
    BY <1>5 DEF Children, ChildEvents
  <2>3. Mine(r, o.who) = ReservationsFor(q, o.who)
    <3>1. ASSUME NEW s \in Slots PROVE SeenBy(r, s) = "deleted" <=> SlotAsSeenBy(q, s) = "deleted"
      BY <1>6 DEF SeenBy, SlotAsSeenBy
    <3> QED BY <1>5, <3>1, RowsAre DEF Mine, ReservationsFor, Inv
  <2>4. Checked(r)
    BY <1>5, <2>2, <2>3 DEF Reserve, CanReserve, Checked
  <2>5. KeepsOne(r)
    <3>1. \A s \in Slots : r.put[s] = "same" => o.put[s] = "same"
      BY <1>6
    <3>2. \A s : Children(r, s) = Children(o, s)
      BY <1>5 DEF Children
    <3> QED BY <1>1, <3>1, <3>2 DEF KeepsOne, Good
  <2>6. \A s \in Slots : r.put[s] # "same" => s \in r.held
    BY <1>1, <1>2, <1>5, <1>6 DEF Good
  <2>7. r.gone \subseteq Ids /\ \A i \in r.gone : rows[i].slot \in r.held
    BY <1>1, <1>5 DEF Good
  <2> QED BY <1>5, <2>1, <2>4, <2>5, <2>6, <2>7 DEF Good
<1> QED BY <1>1, <1>4, <1>5, <1>8, <1>9, OwnStep DEF Inv, Exclusive

-----------------------------------------------------------------------------
(* The end of a transaction without a commit.                              *)

\* A request that does nothing knows nothing.
LEMMA IdleIsGood ==
  ASSUME Inv
  PROVE  Idle \in Request /\ Good(Idle) /\ Idle.kind = "none" /\ Idle.held = {}
<1>1. Idle \in Request
  <2>1. mix.rows \in Nat
    BY RowsAre DEF Inv
  <2> QED BY <2>1 DEF Idle, Request, SlotStates
<1>2. Idle.kind = "none" /\ Idle.gone = {} /\ Idle.held = {} /\ \A s \in Slots : Idle.put[s] = "same"
  BY DEF Idle
<1>3. KeepsOne(Idle)
  BY <1>2 DEF Inv, FreeIsUnlocked, KeepsOne, LiveIn, Children
<1> QED BY <1>1, <1>2, <1>3 DEF Good

\* A ReservationError, a killed statement.
LEMMA RollbackStep ==
  ASSUME Inv, NEW q \in Clients, Rollback(q)
  PROVE  Inv'
BY IdleIsGood, OwnStep DEF Rollback

-----------------------------------------------------------------------------
(* The steps of a cancellation and of a deletion.                          *)

\* destroy of a reservation.
LEMMA UpdateReservationStep ==
  ASSUME Inv, NEW q \in Clients, UpdateReservation(q)
  PROVE  Inv'
<1> DEFINE o == req[q]
           i == o.row
           new == [Goto(q, "owner") EXCEPT !.gone = {i}]
           r == [new EXCEPT !.held = @ \cup {i}]
<1>1. /\ o \in Request /\ Good(o) /\ o.at = "row" /\ o.kind = "cancel" /\ Take(q, i, new)
  BY KindAt DEF UpdateReservation, At, Good
<1>2. Cancels(o) /\ i \in Ids /\ i \in 1..mix.rows /\ i \in Lockable /\ Asked({"cancel"})
      /\ Asked({"cancel", "conclude"})
  BY <1>1, RowsAre, KindAt DEF Good, Cancels, Lockable, Inv, Asked
<1>3. new \in Request /\ new.held = o.held /\ new.kind = o.kind
  BY <1>1, <1>2 DEF Goto, Request
<1>4. /\ r.kind = "cancel" /\ r.slot = o.slot /\ r.row = i /\ r.held = o.held \cup {i}
      /\ r.gone = {i} /\ r.put = o.put /\ r.at = "owner"
  BY <1>1 DEF Goto, Request
<1> HIDE DEF r
<1>5. Good(r)
  <2>1. KeepsOne(r)
    BY <1>2 DEF KeepsOne
  <2>2. Cancels(r) /\ r.gone \subseteq Ids /\ \A s \in Slots : r.put[s] # "same" => s \in r.held
    BY <1>1, <1>2, <1>4 DEF Good, Cancels
  <2> QED BY <1>4, <2>1, <2>2 DEF Good
<1> HIDE DEF new
<1> QED BY <1>1, <1>2, <1>3, <1>5, TakeStep DEF r

\* A step that only takes a row and goes on.
LEMMA TakeOnlyStep ==
  ASSUME Inv, NEW q \in Clients, NEW x \in Lockable, NEW step, Take(q, x, Goto(q, step)),
         \/ req[q].kind = "cancel" /\ step \in {"unlock", "commit"}
         \/ req[q].kind \in {"delete", "drop"} /\ step = "child"
         \/ req[q].kind \in {"reserve", "cancel"} /\ req[q].at = "group" /\ step = "commit"
  PROVE  Inv'
<1> DEFINE o == req[q]
           new == Goto(q, step)
           r == [new EXCEPT !.held = @ \cup {x}]
<1>1. o \in Request /\ Good(o)
  BY KindAt
<1>2. new \in Request /\ new.held = o.held /\ new.kind = o.kind
  BY <1>1 DEF Goto, Request
<1>3. /\ r.kind = o.kind /\ r.slot = o.slot /\ r.who = o.who /\ r.row = o.row /\ r.swap = o.swap
      /\ r.held = o.held \cup {x} /\ r.gone = o.gone /\ r.put = o.put /\ r.at = step
      /\ r.seen = o.seen /\ r.want = o.want
  BY <1>1 DEF Goto, Request
<1> HIDE DEF r
<1>4. Good(r)
  <2>1. KeepsOne(r)
    BY <1>1, <1>3, KeepsOneStays DEF Good
  <2>2. CASE o.kind = "cancel"
    BY <1>1, <1>3, <2>1, <2>2 DEF Good, Cancels
  <2>3. CASE o.kind \in {"delete", "drop"}
    BY <1>1, <1>3, <2>1, <2>3 DEF Good, Deletes
  <2>4. CASE o.kind = "reserve"
    <3>1. \A s : Children(r, s) = Children(o, s) /\ Mine(r, s) = Mine(o, s)
      BY <1>3 DEF Children, Mine, SeenBy
    <3>2. Reserves(r) /\ Checked(r)
      BY <1>1, <1>3, <2>4, <3>1 DEF Good, Reserves, Checked
    <3> QED BY <1>1, <1>3, <2>1, <2>4, <3>2 DEF Good
  <2> QED BY <2>2, <2>3, <2>4
<1> HIDE DEF new
<1> QED BY <1>2, <1>4, TakeStep DEF r, new

\* touch_context of the participant.
LEMMA TouchOwnerStep ==
  ASSUME Inv, NEW q \in Clients, TouchOwner(q)
  PROVE  Inv'
<1> DEFINE o == req[q]
<1>1. /\ o \in Request /\ Good(o) /\ o.at = "owner" /\ o.kind \in {"cancel", "delete", "drop"}
  BY KindAt DEF TouchOwner, At
<1>2. o.row \in Ids
  BY <1>1 DEF Good, Cancels, Deletes
<1>3. rows[o.row].who \in Lockable
  BY <1>2, RowsAre DEF Lockable, Inv
<1> QED BY <1>1, <1>3, TakeOnlyStep DEF TouchOwner

\* The slot is unlocked with its last reservation.
LEMMA UnlockStep ==
  ASSUME Inv, NEW q \in Clients, Unlock(q)
  PROVE  Inv'
<1> DEFINE o == req[q]
           s == o.slot
           new == [Goto(q, "group") EXCEPT !.put[s] = "active"]
           r == [new EXCEPT !.held = @ \cup {s}]
<1>1. /\ o \in Request /\ Good(o) /\ o.at = "unlock" /\ o.kind = "cancel" /\ Take(q, s, new)
  BY KindAt DEF Unlock, At, Good
<1>2. Cancels(o) /\ s \in Slots /\ s \in Lockable /\ Asked({"cancel", "conclude"})
  BY <1>1, KindAt DEF Good, Cancels, Lockable, Asked
<1>3. new \in Request /\ new.held = o.held /\ new.kind = o.kind
  BY <1>1, <1>2 DEF Goto, Request, SlotStates
<1>4. /\ r.kind = "cancel" /\ r.slot = s /\ r.row = o.row /\ r.held = o.held \cup {s}
      /\ r.gone = o.gone /\ r.put = [o.put EXCEPT ![s] = "active"] /\ r.at = "group"
      /\ o.put \in [Slots -> SlotStates \cup {"same"}]
  BY <1>1 DEF Goto, Request
<1> HIDE DEF r
<1>5. Good(r)
  <2>1. KeepsOne(r)
    BY <1>2 DEF KeepsOne
  <2>2. Cancels(r) /\ r.gone \subseteq Ids /\ \A x \in Slots : r.put[x] # "same" => x \in r.held
    BY <1>1, <1>2, <1>4 DEF Good, Cancels
  <2> QED BY <1>4, <2>1, <2>2 DEF Good
<1> HIDE DEF new
<1> QED BY <1>1, <1>2, <1>3, <1>5, TakeStep DEF r

\* touch_context of the group.
LEMMA TouchGroupStep ==
  ASSUME Inv, NEW q \in Clients, TouchGroup(q)
  PROVE  Inv'
<1> DEFINE o == req[q]
<1>1. /\ o \in Request /\ Good(o) /\ o.at = "group" /\ o.kind \in {"reserve", "cancel", "delete"}
  BY KindAt DEF TouchGroup, At
<1>2. Group \in Lockable
  BY DEF Lockable
<1>3. CASE o.kind # "delete"
  <2>1. Take(q, Group, Goto(q, "commit"))
    BY <1>3 DEF TouchGroup
  <2> QED BY <1>1, <1>2, <1>3, <2>1, TakeOnlyStep
<1>4. CASE o.kind = "delete"
  <2> DEFINE children == ChildEvents(q, o.slot)
             new == [Goto(q, "child") EXCEPT !.want = children]
             r == [new EXCEPT !.held = @ \cup {Group}]
  <2>1. children \subseteq Ids /\ children \subseteq Lockable
    BY RowsAre DEF ChildEvents, Lockable, Inv
  <2>2. Take(q, Group, new)
    BY <1>4 DEF TouchGroup
  <2> HIDE DEF children
  <2>3. new \in Request /\ new.held = o.held /\ new.kind = o.kind
    BY <1>1, <2>1 DEF Goto, Request
  <2>4. /\ r.kind = "delete" /\ r.slot = o.slot /\ r.row = o.row /\ r.held = o.held \cup {Group}
        /\ r.gone = o.gone /\ r.put = o.put /\ r.at = "child" /\ r.want = children
    BY <1>1, <1>4 DEF Goto, Request
  <2> HIDE DEF r
  <2>5. Good(r)
    <3>1. KeepsOne(r)
      BY <1>1, <2>4, KeepsOneStays DEF Good
    <3> QED BY <1>1, <1>4, <2>1, <2>4, <3>1 DEF Good, Deletes
  <2> HIDE DEF new
  <2> QED BY <1>2, <2>2, <2>3, <2>5, TakeStep DEF r
<1> QED BY <1>3, <1>4

\* The group is saved as deleted.
LEMMA DropGroupStep ==
  ASSUME Inv, NEW q \in Clients, DropGroup(q)
  PROVE  Inv'
<1>1. req[q].kind \in {"delete", "drop"}
  BY KindAt DEF DropGroup, At
<1>2. Group \in Lockable
  BY DEF Lockable
<1> QED BY <1>1, <1>2, TakeOnlyStep DEF DropGroup

\* destroy of a slot.
LEMMA DeleteSlotStep ==
  ASSUME Inv, NEW q \in Clients, DeleteSlot(q)
  PROVE  Inv'
<1> DEFINE o == req[q]
           step == IF o.kind = "delete" THEN "group" ELSE "child"
<1>1. PICK s \in o.todo :
        Take(q, s, [Goto(q, step) EXCEPT !.todo = @ \ {s}, !.put[s] = "deleted"])
  BY DEF DeleteSlot
<1> DEFINE new == [Goto(q, step) EXCEPT !.todo = @ \ {s}, !.put[s] = "deleted"]
           r == [new EXCEPT !.held = @ \cup {s}]
<1>2. /\ o \in Request /\ Good(o) /\ o.kind \in {"delete", "drop"}
  BY KindAt DEF DeleteSlot, At
<1>3. Deletes(o) /\ s \in Slots /\ s \in Lockable
  BY <1>1, <1>2 DEF Good, Lockable, Request
<1>4. new \in Request /\ new.held = o.held /\ new.kind = o.kind
  <2> DEFINE put == [o.put EXCEPT ![s] = "deleted"]
             todo == o.todo \ {s}
  <2>1. put \in [Slots -> SlotStates \cup {"same"}] /\ todo \in SUBSET Slots
    BY <1>2, <1>3 DEF Request, SlotStates
  <2>2. step \in {"group", "child"} /\ new = [o EXCEPT !.at = step, !.todo = todo, !.put = put]
    BY <1>2 DEF Goto, Request
  <2> HIDE DEF put, todo, step, new
  <2> QED BY <1>2, <2>1, <2>2 DEF Request
<1>5. /\ r.kind = o.kind /\ r.slot = o.slot /\ r.row = o.row /\ r.held = o.held \cup {s}
      /\ r.gone = o.gone /\ r.put = [o.put EXCEPT ![s] = "deleted"] /\ r.at = step
      /\ r.want = o.want /\ o.put \in [Slots -> SlotStates \cup {"same"}]
  BY <1>2 DEF Goto, Request
<1>6. \A x \in Slots : r.put[x] = IF x = s THEN "deleted" ELSE o.put[x]
  BY <1>3, <1>5
<1> HIDE DEF r
<1>7. Good(r)
  <2>1. KeepsOne(r)
    BY <1>2, <1>5, <1>6 DEF Good, KeepsOne, Children
  <2>2. \A i \in r.gone : rows[i].slot \in Slots
    BY <1>2, <1>5, RowsAre DEF Good, Inv
  <2>3. Deletes(r)
    BY <1>2, <1>3, <1>5, <1>6, <2>2 DEF Deletes
  <2> QED BY <1>2, <1>3, <1>5, <1>6, <2>1, <2>3 DEF Good
<1> HIDE DEF new
<1> QED BY <1>1, <1>3, <1>4, <1>7, TakeStep DEF r, new

\* destroy of its reservations.
LEMMA DeleteChildStep ==
  ASSUME Inv, NEW q \in Clients, DeleteChild(q)
  PROVE  Inv'
<1> DEFINE o == req[q]
<1>1. PICK i \in Orphans(q) :
        Take(q, i, [Goto(q, "owner") EXCEPT !.row = i, !.want = @ \ {i}, !.gone = @ \cup {i}])
  BY DEF DeleteChild
<1> DEFINE new == [Goto(q, "owner") EXCEPT !.row = i, !.want = @ \ {i}, !.gone = @ \cup {i}]
           r == [new EXCEPT !.held = @ \cup {i}]
<1>2. /\ o \in Request /\ Good(o) /\ o.kind \in {"delete", "drop"} /\ o.at = "child"
  BY KindAt DEF DeleteChild, At
<1>3. Deletes(o) /\ i \in Ids /\ i \in 1..mix.rows /\ i \in 0..mix.rows /\ i \in Lockable
      /\ o.put[rows[i].slot] = "deleted" /\ rows[i].slot \in o.held
  <2>1. Deletes(o) /\ i \in o.want /\ o.put[rows[i].slot] = "deleted"
    BY <1>1, <1>2 DEF Good, Orphans
  <2>2. i \in Ids
    BY <2>1 DEF Deletes
  <2> QED BY <1>2, <2>1, <2>2, RowsAre DEF Good, Lockable, Inv
<1>4. new \in Request /\ new.held = o.held /\ new.kind = o.kind
  BY <1>2, <1>3 DEF Goto, Request
<1>5. /\ r.kind = o.kind /\ r.slot = o.slot /\ r.row = i /\ r.held = o.held \cup {i}
      /\ r.gone = o.gone \cup {i} /\ r.put = o.put /\ r.at = "owner" /\ r.want = o.want \ {i}
  BY <1>2 DEF Goto, Request
<1> HIDE DEF r
<1>6. Good(r)
  <2>1. KeepsOne(r)
    BY <1>2, <1>3, <1>5 DEF Good, KeepsOne, Children
  <2>2. Deletes(r)
    BY <1>2, <1>3, <1>5 DEF Deletes
  <2> QED BY <1>2, <1>3, <1>5, <2>1, <2>2 DEF Good
<1> HIDE DEF new
<1> QED BY <1>1, <1>3, <1>4, <1>6, TakeStep DEF r, new

\* The UPDATE for a concluded enrollment.
LEMMA SweepRowStep ==
  ASSUME Inv, NEW q \in Clients, SweepRow(q)
  PROVE  Inv'
<1> DEFINE o == req[q]
<1>1. PICK i \in o.want :
        Take(q, i, [o EXCEPT !.want = @ \ {i}, !.gone = IF rows[i].live THEN @ \cup {i} ELSE @])
  BY DEF SweepRow
<1> DEFINE new == [o EXCEPT !.want = @ \ {i}, !.gone = IF rows[i].live THEN @ \cup {i} ELSE @]
           r == [new EXCEPT !.held = @ \cup {i}]
<1>2. /\ o \in Request /\ Good(o) /\ o.kind = "conclude" /\ o.at = "sweep"
      /\ Asked({"cancel", "conclude"})
  BY KindAt DEF SweepRow, At, Asked
<1>3. Concludes(o) /\ i \in Ids /\ i \in 1..mix.rows /\ i \in Lockable
  BY <1>1, <1>2, RowsAre DEF Good, Concludes, Lockable, Inv
<1>4. new \in Request /\ new.held = o.held /\ new.kind = o.kind
  BY <1>2, <1>3 DEF Request
<1>5. /\ r.kind = "conclude" /\ r.held = o.held \cup {i} /\ r.at = "sweep"
      /\ r.gone \subseteq o.gone \cup {i} /\ r.put = o.put /\ r.want = o.want \ {i}
  BY <1>2 DEF Request
<1> HIDE DEF r
<1>6. Good(r)
  <2>1. KeepsOne(r)
    BY <1>2 DEF KeepsOne
  <2>2. Concludes(r) /\ r.gone \subseteq Ids /\ \A s \in Slots : r.put[s] # "same" => s \in r.held
    BY <1>2, <1>3, <1>5 DEF Good, Concludes
  <2> QED BY <1>5, <2>1, <2>2 DEF Good
<1> HIDE DEF new
<1> QED BY <1>1, <1>3, <1>4, <1>6, TakeStep DEF r, new

-----------------------------------------------------------------------------
(* The beginning of a request.                                             *)

\* Every request begins idle, holding nothing.
LEMMA BeginStep ==
  ASSUME Inv, NEW q \in Clients, NEW kind, NEW new \in Request, Begin(q, kind, new),
         NEW r, r = [new EXCEPT !.kind = kind], Good(r),
         new.held = {},
         kind # "reserve" \/ Len(rows) + Cardinality(Reservers) < mix.rows
  PROVE  Inv'
<1>1. r \in Request /\ r.held = {} /\ r.kind = kind
  BY DEF Begin, Request
<1> QED BY <1>1, OwnStep DEF Begin

\* Each kind of request begins.
LEMMA StartStep ==
  ASSUME Inv, NEW q \in Clients,
         \/ \E s \in Slots, p \in Participants, swap \in mix.swaps : StartReserve(q, s, p, swap)
         \/ \E i \in Ids : StartCancel(q, i)
         \/ \E s \in Slots : StartDelete(q, s)
         \/ StartDrop(q)
         \/ \E p \in Participants : StartConclude(q, p)
  PROVE  Inv'
<1>0. /\ mix.rows \in Nat /\ mix.kinds \subseteq AllKinds /\ slot \in [Slots -> SlotStates]
      /\ mix.swaps \subseteq BOOLEAN
  BY RowsAre, MixesAssumption DEF Inv, TypeOK
<1>1. Idle \in Request /\ KeepsOne(Idle) /\ Idle.gone = {} /\ Idle.held = {}
      /\ \A s \in Slots : Idle.put[s] = "same"
  BY IdleIsGood DEF Idle, Good
<1>2. ASSUME NEW s \in Slots, NEW p \in Participants, NEW swap \in mix.swaps,
             StartReserve(q, s, p, swap)
      PROVE  Inv'
  <2> DEFINE new == [Idle EXCEPT !.at = "slot", !.slot = s, !.who = p, !.swap = swap]
             r == [new EXCEPT !.kind = "reserve"]
  <2>1. new \in Request /\ new.held = {}
    BY <1>0, <1>1 DEF Request
  <2>2. /\ r.kind = "reserve" /\ r.at = "slot" /\ r.slot = s /\ r.who = p /\ r.swap = swap
        /\ r.held = {} /\ r.gone = {} /\ r.put = Idle.put
    BY <1>1 DEF Idle
  <2> HIDE DEF r
  <2>3. KeepsOne(r)
    BY <1>1, <2>2, KeepsOneStays
  <2>4. Reserves(r) /\ Checked(r)
    BY <1>1, <2>2 DEF Reserves, Checked
  <2>5. Good(r)
    BY <1>1, <2>2, <2>3, <2>4 DEF Good
  <2> HIDE DEF new
  <2> QED BY <1>2, <2>1, <2>5, BeginStep DEF StartReserve, r, new, Reservers
<1>3. ASSUME NEW i \in Ids, StartCancel(q, i)
      PROVE  Inv'
  <2> DEFINE s == rows[i].slot
             new == [Idle EXCEPT !.at = "row", !.row = i, !.slot = s, !.seen = slot[s]]
             r == [new EXCEPT !.kind = "cancel"]
  <2>9. Begin(q, "cancel", new)
    BY <1>3 DEF StartCancel
  <2>0. s \in Slots /\ i \in 0..mix.rows
    BY RowsAre DEF Inv
  <2>1. new \in Request /\ new.held = {}
    BY <1>0, <1>1, <2>0 DEF Request
  <2>2. /\ r.kind = "cancel" /\ r.at = "row" /\ r.slot = s /\ r.row = i
        /\ r.held = {} /\ r.gone = {} /\ r.put = Idle.put
    BY <1>1 DEF Idle
  <2> HIDE DEF r
  <2>3. KeepsOne(r)
    BY <1>1, <2>2, KeepsOneStays
  <2>5. Good(r)
    BY <1>1, <2>0, <2>2, <2>3 DEF Good, Cancels
  <2> HIDE DEF new
  <2> QED BY <2>9, <2>1, <2>5, BeginStep DEF r
<1>4. ASSUME NEW s \in Slots, StartDelete(q, s)
      PROVE  Inv'
  <2> DEFINE new == [Idle EXCEPT !.at = "delete", !.slot = s, !.todo = {s}]
             r == [new EXCEPT !.kind = "delete"]
  <2>9. Begin(q, "delete", new)
    BY <1>4 DEF StartDelete
  <2>1. new \in Request /\ new.held = {}
    BY <1>0, <1>1 DEF Request
  <2>2. /\ r.kind = "delete" /\ r.at = "delete" /\ r.slot = s /\ r.want = {}
        /\ r.held = {} /\ r.gone = {} /\ r.put = Idle.put
    BY <1>1 DEF Idle
  <2> HIDE DEF r
  <2>3. KeepsOne(r)
    BY <1>1, <2>2, KeepsOneStays
  <2>5. Good(r)
    BY <1>1, <2>2, <2>3 DEF Good, Deletes
  <2> HIDE DEF new
  <2> QED BY <2>9, <2>1, <2>5, BeginStep DEF r
<1>5. ASSUME StartDrop(q)
      PROVE  Inv'
  <2> DEFINE there == {s \in Slots : slot[s] # "deleted"}
             want == {i \in Live : rows[i].slot \in there}
             new == [Idle EXCEPT !.at = "drop", !.todo = there, !.want = want]
             r == [new EXCEPT !.kind = "drop"]
  <2>0. want \subseteq Ids /\ want \subseteq Lockable
    BY RowsAre DEF Inv, Lockable
  <2>9. Begin(q, "drop", new)
    BY <1>5 DEF StartDrop
  <2>8. want \in SUBSET Lockable /\ there \in SUBSET Slots
    BY <2>0
  <2> HIDE DEF want, there
  <2>1. new \in Request /\ new.held = {}
    BY <1>0, <1>1, <2>8 DEF Request
  <2>2. /\ r.kind = "drop" /\ r.at = "drop" /\ r.want = want
        /\ r.held = {} /\ r.gone = {} /\ r.put = Idle.put
    BY <1>1 DEF Idle
  <2> HIDE DEF r
  <2>3. KeepsOne(r)
    BY <1>1, <2>2, KeepsOneStays
  <2>5. Good(r)
    <3>1. Deletes(r)
      BY <1>1, <2>0, <2>2 DEF Deletes
    <3> QED BY <1>1, <2>2, <2>3, <3>1 DEF Good
  <2> HIDE DEF new
  <2> QED BY <2>9, <2>1, <2>5, BeginStep DEF r
<1>6. ASSUME NEW p \in Participants, StartConclude(q, p)
      PROVE  Inv'
  <2> DEFINE mine == {i \in Live : rows[i].who = p}
             new == [Idle EXCEPT !.at = "sweep", !.want = mine]
             r == [new EXCEPT !.kind = "conclude"]
  <2>0. mine \subseteq Ids /\ mine \subseteq Lockable
    BY RowsAre DEF Inv, Lockable
  <2>9. Begin(q, "conclude", new)
    BY <1>6 DEF StartConclude
  <2>8. mine \in SUBSET Lockable
    BY <2>0
  <2> HIDE DEF mine
  <2>1. new \in Request /\ new.held = {}
    BY <1>0, <1>1, <2>8 DEF Request
  <2>2. /\ r.kind = "conclude" /\ r.at = "sweep" /\ r.want = mine
        /\ r.held = {} /\ r.gone = {} /\ r.put = Idle.put
    BY <1>1 DEF Idle
  <2> HIDE DEF r
  <2>3. KeepsOne(r)
    BY <1>1, <2>2, KeepsOneStays
  <2>5. Good(r)
    <3>1. Concludes(r)
      BY <1>1, <2>0, <2>2 DEF Concludes
    <3> QED BY <1>1, <2>2, <2>3, <3>1 DEF Good
  <2> HIDE DEF new
  <2> QED BY <2>9, <2>1, <2>5, BeginStep DEF r
<1> QED BY <1>2, <1>3, <1>4, <1>5, <1>6

\* The limit of a slot whose row is taken does not change.
LEMMA ChangeLimitStep ==
  ASSUME Inv, NEW q \in Clients, NEW s \in Slots, NEW n \in Limits, ChangeLimit(q, s, n)
  PROVE  Inv'
<1> USE DEF ChangeLimit
<1>1. TypeOK'
  <2>1. Request' = Request
    BY DEF Request, Lockable
  <2> QED BY <2>1 DEF Inv, TypeOK
<1>2. Live' = Live /\ \A x \in Slots : LiveIn(x)' = LiveIn(x)
  BY DEF Live, LiveIn, Ids
<1>3. ASSUME NEW c \in Clients PROVE Good(req[c])'
  <2> DEFINE o == req[c]
  <2>1. Good(o) /\ o' = o /\ Ids' = Ids
    BY DEF Inv, Ids
  <2>2. o.kind = "reserve" /\ o.at \in {"group", "commit"} => o.slot \in o.held /\ o.slot \in Slots
    BY <2>1 DEF Good, Reserves
  <2>3. o.kind = "reserve" => c # q
    BY DEF Idle
  <2>4. o.kind = "reserve" /\ o.at \in {"group", "commit"} => limit'[o.slot] = limit[o.slot]
    BY <2>2, <2>3 DEF Free, Inv, TypeOK
  <2>5. \A x : Children(o, x)' = Children(o, x) /\ Mine(o, x)' = Mine(o, x)
    BY <1>2 DEF Children, Mine, SeenBy
  <2>6. o.kind = "reserve" => Reserves(o)' /\ Checked(o)'
    BY <2>1, <2>4, <2>5 DEF Good, Reserves, Checked, Asked
  <2>7. KeepsOne(o)' /\ (o.kind = "cancel" => Cancels(o)') /\ (o.kind = "conclude" => Concludes(o)')
        /\ (o.kind \in {"delete", "drop"} => Deletes(o)')
    BY <2>1, <2>5 DEF Good, KeepsOne, Cancels, Concludes, Deletes, Asked
  <2> QED BY <2>1, <2>6, <2>7 DEF Good
<1>4. (RowsBound /\ Exclusive /\ NoneDeleted)'
  BY DEF Inv, RowsBound, Reservers, Exclusive, NoneDeleted, Asked
<1>5. (OncePerSlot /\ WithinMax /\ ReservedIsLocked /\ FreeIsUnlocked)'
  BY <1>2 DEF Inv, OncePerSlot, WithinMax, ReservedIsLocked, FreeIsUnlocked, Asked
<1> QED BY <1>1, <1>3, <1>4, <1>5 DEF Inv

-----------------------------------------------------------------------------
(* The commit.                                                             *)

New == Len(rows) + 1

\* The rows after a commit.
LEMMA CommitRows ==
  ASSUME Inv, NEW q \in Clients, Commit(q)
  PROVE  /\ rows' \in Seq([slot : Slots, who : Participants, live : BOOLEAN])
         /\ New \in Nat /\ New \notin Ids
         /\ \A i \in Ids : rows'[i].slot = rows[i].slot /\ rows'[i].who = rows[i].who
         /\ req[q].kind # "reserve" => /\ Len(rows)' = Len(rows)
                                       /\ Ids' = Ids
                                       /\ Live' = Live \ req[q].gone
         /\ req[q].kind = "reserve" => /\ Len(rows)' = New
                                       /\ Ids' = Ids \cup {New}
                                       /\ rows'[New].slot = req[q].slot
                                       /\ rows'[New].who = req[q].who
                                       /\ Live' = (Live \ req[q].gone) \cup {New}
<1> DEFINE R == [slot : Slots, who : Participants, live : BOOLEAN]
           o == req[q]
           K == Kept(q)
           n == Len(rows)
<1>1. n \in Nat /\ rows \in Seq(R) /\ Ids = 1..n /\ \A i \in Ids : rows[i] \in R
  BY RowsAre DEF Inv, TypeOK, Ids
<1>2. ASSUME NEW i \in Ids
      PROVE  /\ K[i] \in R /\ K[i].slot = rows[i].slot /\ K[i].who = rows[i].who
             /\ K[i].live <=> rows[i].live /\ i \notin o.gone
  <2>1. K[i] = [rows[i] EXCEPT !.live = rows[i].live /\ i \notin o.gone]
    BY DEF Kept
  <2>2. rows[i] \in R
    BY <1>1
  <2>3. (rows[i].live /\ i \notin o.gone) \in BOOLEAN
    OBVIOUS
  <2> QED BY <2>1, <2>2, <2>3
<1>3. K \in [1..n -> R]
  BY <1>1, <1>2 DEF Kept
<1>4. K \in Seq(R) /\ Len(K) = n
  <2> HIDE DEF K, R
  <2> QED BY <1>1, <1>3
<1>5. CASE o.kind # "reserve"
  <2>1. rows' = K
    BY <1>5 DEF Commit
  <2>2. Len(rows') = n /\ Ids' = Ids
    BY <1>1, <1>4, <2>1 DEF Ids
  <2>3. Live' = Live \ o.gone
    BY <1>2, <2>1, <2>2 DEF Live
  <2> QED BY <1>1, <1>2, <1>4, <1>5, <2>1, <2>2, <2>3 DEF New, Ids
<1>6. CASE o.kind = "reserve"
  <2> DEFINE new == [slot |-> o.slot, who |-> o.who, live |-> TRUE]
  <2>1. rows' = Append(K, new)
    BY <1>6 DEF Commit
  <2>2. new \in R
    BY <1>6, KindAt DEF Good, Reserves
  <2> HIDE DEF R, K, new
  <2>3. rows' \in Seq(R) /\ Len(rows') = n + 1 /\ rows'[n + 1] = new
        /\ \A i \in 1..n : rows'[i] = K[i]
    BY <1>1, <1>4, <2>1, <2>2
  <2>4. Ids' = Ids \cup {n + 1} /\ n + 1 \notin Ids
    BY <1>1, <2>3 DEF Ids
  <2>5. new.slot = o.slot /\ new.who = o.who /\ new.live = TRUE
    BY DEF new
  <2>6. Live' = (Live \ o.gone) \cup {n + 1}
    BY <1>1, <1>2, <2>3, <2>4, <2>5 DEF Live
  <2> QED BY <1>1, <1>2, <1>6, <2>3, <2>4, <2>5, <2>6 DEF New, R
<1> QED BY <1>5, <1>6

\* The request that commits, and the slots after it.
LEMMA CommitRequest ==
  ASSUME Inv, NEW q \in Clients, Commit(q)
  PROVE  /\ req[q] \in Request /\ Good(req[q]) /\ req[q].kind # "none"
         /\ req[q].kind = "reserve" => req[q].at = "commit" /\ Reserves(req[q]) /\ Checked(req[q])
         /\ slot' \in [Slots -> SlotStates]
         /\ \A s \in Slots : slot'[s] = SeenBy(req[q], s)
         /\ \A s \in Slots : slot'[s] # slot[s] => s \in req[q].held
         /\ ~(Asked({"cancel"}) /\ Asked({"delete", "drop"})) =>
              \A s \in Slots : slot'[s] # "deleted" => slot[s] # "deleted"
         /\ \A c \in Clients : req'[c] = IF c = q THEN Idle ELSE req[c]
<1> DEFINE o == req[q]
<1>1. o \in Request /\ Good(o) /\ o.kind # "none" /\ slot \in [Slots -> SlotStates]
      /\ o.kind \in {"reserve", "cancel", "delete", "drop", "conclude"}
      /\ o.kind \in mix.kinds
  BY KindAt DEF Commit, Ready, At, Good, Idle
<1>2. o.kind = "reserve" => o.at = "commit" /\ Reserves(o) /\ Checked(o)
  BY <1>1, KindAt DEF Commit, Ready, At, Good
<1>3. \A s \in Slots : slot'[s] = SeenBy(o, s) /\ SeenBy(o, s) \in SlotStates
  BY <1>1 DEF Commit, SlotAsSeenBy, SeenBy, Request
<1>4. slot' \in [Slots -> SlotStates]
  BY <1>3 DEF Commit
<1>5. \A s \in Slots : slot'[s] # slot[s] => s \in o.held
  BY <1>1, <1>3 DEF SeenBy, Good
<1>6. ASSUME ~(Asked({"cancel"}) /\ Asked({"delete", "drop"})),
             NEW s \in Slots, slot'[s] # "deleted", slot[s] = "deleted"
      PROVE  FALSE
  <2>1. o.put[s] # "same" /\ o.put[s] # "deleted"
    BY <1>3, <1>6 DEF SeenBy
  <2>2. Asked({"delete", "drop"}) /\ ~Asked({"cancel"})
    BY <1>6 DEF Inv, NoneDeleted
  <2>3. o.kind # "cancel"
    BY <1>1, <2>2 DEF Asked
  <2>4. o.kind = "reserve"
    BY <1>1, <2>1, <2>3 DEF Good, Deletes, Concludes
  <2>5. o.put[s] \in {"active", "locked"}
    BY <1>1, <2>1 DEF Request, SlotStates
  <2> QED BY <1>2, <1>6, <2>4, <2>5 DEF Reserves
<1>7. \A c \in Clients : req'[c] = IF c = q THEN Idle ELSE req[c]
  BY DEF Commit, Inv, TypeOK
<1> QED BY <1>1, <1>2, <1>3, <1>4, <1>5, <1>6, <1>7

\* The new reservation is not the participant's second in the slot.
LEMMA CommitOncePerSlot ==
  ASSUME Inv, NEW q \in Clients, Commit(q)
  PROVE  OncePerSlot'
<1> DEFINE o == req[q]
<1> SUFFICES ASSUME NEW i \in Live', NEW j \in Live', rows'[i].slot = rows'[j].slot,
                    rows'[i].who = rows'[j].who, i # j
             PROVE  FALSE
  BY DEF OncePerSlot
<1>1. \A k \in Live : k \in Ids
  BY DEF Live
<1>2. CASE i \in Live /\ j \in Live
  BY <1>1, <1>2, CommitRows DEF Inv, OncePerSlot
<1>3. ASSUME NEW k \in Live \ o.gone, o.kind = "reserve",
             rows'[k].slot = rows'[New].slot, rows'[k].who = rows'[New].who
      PROVE  FALSE
  <2>1. rows[k].slot = o.slot /\ rows[k].who = o.who
    BY <1>1, <1>3, CommitRows
  <2>2. \A x \in Children(o, o.slot) : rows[x].who # o.who
    BY <1>3, CommitRequest DEF Checked
  <2> QED BY <2>1, <2>2 DEF Children
<1> QED BY <1>2, <1>3, CommitRows

\* The slot's new reservation is within its limit.
LEMMA CommitWithinLimit ==
  ASSUME Inv, NEW q \in Clients, Commit(q), NEW s \in Slots
  PROVE  LiveIn(s)' \subseteq LiveIn(s) \/ Cardinality(LiveIn(s)') <= limit[s]
<1> DEFINE o == req[q]
<1>1. Live \subseteq Ids
  BY DEF Live
<1>2. CASE o.kind # "reserve" \/ s # o.slot
  BY <1>1, <1>2, CommitRows DEF LiveIn
<1>3. CASE o.kind = "reserve" /\ s = o.slot
  <2> DEFINE C == Children(o, s)
  <2>1. LiveIn(s)' \subseteq C \cup {New}
    BY <1>1, <1>3, CommitRows DEF LiveIn, Children
  <2>2. Cardinality(C) < limit[s]
    BY <1>3, CommitRequest DEF Checked
  <2>3. C \subseteq Ids
    BY <1>1 DEF Children
  <2> HIDE DEF C
  <2>4. IsFiniteSet(C) /\ Cardinality(C) \in Nat
    BY <2>3, RowsAreFinite DEF Inv
  <2>5. IsFiniteSet(C \cup {New}) /\ Cardinality(C \cup {New}) <= Cardinality(C) + 1
        /\ Cardinality(C \cup {New}) \in Nat
    BY <2>4, OneMore
  <2>6. Cardinality(LiveIn(s)') <= Cardinality(C \cup {New}) /\ Cardinality(LiveIn(s)') \in Nat
    BY <2>1, <2>5, FS_Subset, FS_CardinalityType
  <2>7. limit[s] \in Nat
    BY LimitsAssumption DEF Inv, TypeOK
  <2> QED BY <2>2, <2>4, <2>5, <2>6, <2>7
<1> QED BY <1>2, <1>3

\* Nor one more than the participant may have.
LEMMA CommitWithinMax ==
  ASSUME Inv, NEW q \in Clients, Commit(q)
  PROVE  WithinMax'
<1> DEFINE o == req[q]
           Places(p) == {i \in Live : rows[i].who = p /\ slot[rows[i].slot] # "deleted"}
<1> SUFFICES ASSUME ~(Asked({"cancel"}) /\ Asked({"delete", "drop"})), NEW p \in Participants
             PROVE  Cardinality(Places(p)') <= mix.most
  BY DEF WithinMax, Asked, Commit
<1>1. Live \subseteq Ids /\ \A i \in Ids : rows[i].slot \in Slots
  BY RowsAre DEF Inv
<1>2. mix.most \in Nat
  BY MixesAssumption DEF Inv, TypeOK
<1>3. \A s \in Slots : slot'[s] # "deleted" => slot[s] # "deleted"
  BY CommitRequest
<1>4. CASE o.kind # "reserve" \/ p # o.who
  <2>1. Places(p)' \subseteq Places(p)
    BY <1>1, <1>3, <1>4, CommitRows
  <2>2. Places(p) \subseteq Ids /\ Cardinality(Places(p)) <= mix.most
    BY <1>1 DEF Inv, WithinMax
  <2> DEFINE P == Places(p)
             PP == Places(p)'
  <2> HIDE DEF P, PP
  <2>3. PP \subseteq P /\ P \subseteq Ids /\ Cardinality(P) <= mix.most
    BY <2>1, <2>2 DEF P, PP
  <2>4. IsFiniteSet(P) /\ Cardinality(P) \in Nat
    BY <2>3, RowsAreFinite DEF Inv
  <2>5. Cardinality(PP) <= Cardinality(P) /\ Cardinality(PP) \in Nat
    BY <2>3, <2>4, FS_Subset, FS_CardinalityType
  <2>6. Cardinality(PP) <= mix.most
    BY <1>2, <2>3, <2>4, <2>5
  <2> QED BY <2>6 DEF PP
<1>5. CASE o.kind = "reserve" /\ p = o.who
  <2> DEFINE M == Mine(o, p)
             PP == Places(p)'
  <2>1. PP \subseteq M \cup {New}
    BY <1>1, <1>5, CommitRows, CommitRequest DEF Mine
  <2>2. Cardinality(M) < mix.most
    BY <1>5, CommitRequest DEF Checked
  <2>3. M \subseteq Ids
    BY <1>1 DEF Mine
  <2> HIDE DEF M, PP
  <2>4. IsFiniteSet(M) /\ Cardinality(M) \in Nat
    BY <2>3, RowsAreFinite DEF Inv
  <2>5. IsFiniteSet(M \cup {New}) /\ Cardinality(M \cup {New}) <= Cardinality(M) + 1
        /\ Cardinality(M \cup {New}) \in Nat
    BY <2>4, OneMore
  <2>6. Cardinality(PP) <= Cardinality(M \cup {New}) /\ Cardinality(PP) \in Nat
    BY <2>1, <2>5, FS_Subset, FS_CardinalityType
  <2>7. Cardinality(PP) <= mix.most
    BY <1>2, <2>2, <2>4, <2>5, <2>6
  <2> QED BY <2>7 DEF PP
<1> QED BY <1>4, <1>5

\* The slot of a new reservation was locked before or is now.
LEMMA CommitReservedIsLocked ==
  ASSUME Inv, NEW q \in Clients, Commit(q)
  PROVE  ReservedIsLocked'
<1> DEFINE o == req[q]
<1> SUFFICES ASSUME TRUE \notin mix.swaps, ~Asked({"cancel"}), NEW s \in Slots,
                    slot'[s] = "active"
             PROVE  LiveIn(s)' = {}
  BY DEF ReservedIsLocked, Asked, Commit
<1>1. Live \subseteq Ids
  BY DEF Live
<1>2. o.kind \in mix.kinds /\ o.kind # "cancel" /\ o.kind # "none"
  BY KindAt, CommitRequest DEF Asked
<1>3. o.put[s] # "active"
  <2>1. CASE o.kind = "reserve"
    <3>1. o.swap = FALSE
      BY <2>1, CommitRequest DEF Reserves, Request
    <3>2. Reserves(o)
      BY <2>1, CommitRequest
    <3> QED BY <3>1, <3>2 DEF Reserves
  <2>2. CASE o.kind # "reserve"
    BY <1>2, <2>2, CommitRequest, KindAt DEF Good, Deletes, Concludes
  <2> QED BY <2>1, <2>2
<1>4. o.put[s] = "same" /\ slot[s] = "active"
  BY <1>3, CommitRequest DEF SeenBy
<1>5. LiveIn(s) = {}
  BY <1>4 DEF Inv, ReservedIsLocked
<1>6. o.kind = "reserve" => o.slot # s
  <2> SUFFICES ASSUME o.kind = "reserve", o.slot = s PROVE FALSE
    OBVIOUS
  <2>1. o.seen = "active" /\ o.at = "commit"
    BY <1>4, CommitRequest DEF Reserves
  <2>2. o.put[s] = "locked"
    BY <2>1, CommitRequest DEF Reserves
  <2> QED BY <1>4, <2>2
<1> QED BY <1>1, <1>5, <1>6, CommitRows DEF LiveIn

\* A slot that stays locked keeps a reservation, as KeepsOne says of the request.
LEMMA CommitFreeIsUnlocked ==
  ASSUME Inv, NEW q \in Clients, Commit(q)
  PROVE  FreeIsUnlocked'
<1> DEFINE o == req[q]
<1> SUFFICES ASSUME ~Asked({"cancel", "conclude"}), NEW s \in Slots, slot'[s] = "locked"
             PROVE  \E i \in Live' : rows'[i].slot = s
  BY DEF FreeIsUnlocked, Asked, LiveIn, Commit
<1>1. Live \subseteq Ids
  BY DEF Live
<1>2. CASE o.put[s] = "same"
  <2>1. slot[s] = "locked"
    BY <1>2, CommitRequest DEF SeenBy
  <2>2. Children(o, s) # {}
    BY <1>2, <2>1, CommitRequest DEF Good, KeepsOne
  <2>3. PICK i \in Live \ o.gone : rows[i].slot = s
    BY <2>2 DEF Children
  <2> QED BY <1>1, <2>3, CommitRows
<1>3. CASE o.put[s] # "same"
  <2>1. o.put[s] = "locked"
    BY <1>3, CommitRequest DEF SeenBy
  <2>2. o.kind = "reserve"
    BY <2>1, CommitRequest, KindAt DEF Good, Cancels, Deletes, Concludes
  <2>3. o.slot = s
    BY <2>1, <2>2, CommitRequest DEF Reserves
  <2> QED BY <2>2, <2>3, CommitRows
<1> QED BY <1>2, <1>3

\* The other requests keep what they have checked: the rows that change with a
\* commit are in slots, or of participants, whose rows they do not hold.
LEMMA CommitOthers ==
  ASSUME Inv, NEW q \in Clients, Commit(q), NEW c \in Clients, c # q, FreeIsUnlocked'
  PROVE  Good(req[c])'
<1> DEFINE u == req[q]
           o == req[c]
<1>0. o \in Request /\ Good(o) /\ req'[c] = o /\ mix' = mix /\ limit' = limit
  BY KindAt, CommitRequest DEF Commit
<1>1. u.held \cap o.held = {}
  BY DEF Inv, Exclusive
<1>2. \A s \in Slots : s \in o.held => slot'[s] = slot[s]
  BY <1>1, CommitRequest
<1>3. /\ Live \subseteq Ids /\ \A i \in Ids : rows[i].slot \in Slots /\ rows[i].who \in Participants
      /\ Ids \subseteq Ids' /\ New \notin Ids /\ Ids' \subseteq Ids \cup {New}
      /\ \A i \in Ids : rows'[i].slot = rows[i].slot /\ rows'[i].who = rows[i].who
      /\ Live' \subseteq Live \cup {New}
  BY RowsAre, CommitRows DEF Inv
<1>4. New \in Live' => u.kind = "reserve" /\ rows'[New].slot = u.slot /\ rows'[New].who = u.who
                         /\ u.slot \in u.held /\ u.who \in u.held
  <2> SUFFICES ASSUME New \in Live'
               PROVE  u.kind = "reserve" /\ u.slot \in u.held /\ u.who \in u.held
    BY CommitRows
  <2>1. u.kind = "reserve"
    BY <1>3, CommitRows
  <2>2. Reserves(u) /\ u.at = "commit"
    BY <2>1, CommitRequest
  <2> QED BY <2>1, <2>2 DEF Reserves
<1>5. ASSUME o.kind = "reserve"
      PROVE  Reserves(o)'
  <2>1. Reserves(o)
    BY <1>0, <1>5 DEF Good
  <2>2. \A s \in Slots : o.put[s] # "same" => slot'[s] = slot[s]
    BY <1>0, <1>2 DEF Good
  <2>3. o.at # "slot" => slot'[o.slot] = slot[o.slot]
    BY <1>2, <2>1 DEF Reserves
  <2>4. o.at = "mine" => \A i \in (o.want \cup o.held) \cap Nat :
                           i \in Ids' /\ rows'[i].slot \in o.want \cup o.held
    BY <1>3, <2>1 DEF Reserves
  <2> QED BY <1>0, <2>1, <2>2, <2>3, <2>4 DEF Reserves
<1>6. ASSUME o.kind = "reserve", o.at \in {"group", "commit"}
      PROVE  Checked(o)'
  <2>1. Reserves(o) /\ Checked(o) /\ o.slot \in o.held /\ o.who \in o.held
        /\ o.slot \in Slots /\ o.who \in Participants
    BY <1>0, <1>6 DEF Good, Reserves
  <2> DEFINE C == Children(o, o.slot)
             CC == Children(o, o.slot)'
             M == Mine(o, o.who)
             MM == Mine(o, o.who)'
  <2>2. CC \subseteq C
    BY <1>1, <1>3, <1>4, <2>1, <1>0 DEF Children
  <2>3. ~(Asked({"cancel"}) /\ Asked({"delete", "drop"})) => MM \subseteq M
    <3> SUFFICES ASSUME ~(Asked({"cancel"}) /\ Asked({"delete", "drop"})), NEW i \in MM
                 PROVE  i \in M
      OBVIOUS
    <3>1. i \in Live' /\ i \notin o.gone /\ rows'[i].who = o.who /\ SeenBy(o, rows[i].slot)' # "deleted"
      BY <1>0 DEF Mine
    <3>2. i # New
      BY <1>1, <1>4, <2>1, <3>1
    <3>3. i \in Live /\ rows[i].who = o.who /\ rows'[i].slot = rows[i].slot /\ rows[i].slot \in Slots
      BY <1>3, <3>1, <3>2
    <3>4. SeenBy(o, rows[i].slot) # "deleted"
      BY <1>0, <3>1, <3>3, CommitRequest DEF SeenBy
    <3> QED BY <3>1, <3>3, <3>4 DEF Mine
  <2>4. C \subseteq Ids /\ M \subseteq Ids
    BY <1>3 DEF Children, Mine
  <2>5. /\ Cardinality(C) < limit[o.slot] /\ \A i \in C : rows[i].who # o.who
        /\ ~(Asked({"cancel"}) /\ Asked({"delete", "drop"})) => Cardinality(M) < mix.most
    BY <1>6, <2>1 DEF Checked
  <2>6. \A i \in CC : rows'[i].who # o.who
    BY <1>3, <2>2, <2>4, <2>5
  <2>7. limit[o.slot] \in Nat /\ mix.most \in Nat
    BY <2>1, LimitsAssumption, MixesAssumption DEF Inv, TypeOK
  <2>8. C \in SUBSET Ids /\ M \in SUBSET Ids
    BY <2>4
  <2> HIDE DEF C, CC, M, MM
  <2>9. Cardinality(CC) <= Cardinality(C) /\ Cardinality(CC) \in Nat /\ Cardinality(C) \in Nat
    BY <2>2, <2>8, RowsAreFinite, FS_Subset, FS_CardinalityType DEF Inv
  <2>10. ~(Asked({"cancel"}) /\ Asked({"delete", "drop"})) =>
           Cardinality(MM) <= Cardinality(M) /\ Cardinality(MM) \in Nat /\ Cardinality(M) \in Nat
    BY <2>3, <2>8, RowsAreFinite, FS_Subset, FS_CardinalityType DEF Inv
  <2>11. Cardinality(CC) < limit[o.slot]
    BY <2>5, <2>7, <2>9
  <2>12. ~(Asked({"cancel"}) /\ Asked({"delete", "drop"})) => Cardinality(MM) < mix.most
    BY <2>5, <2>7, <2>10
  <2> QED BY <1>0, <2>6, <2>11, <2>12 DEF Checked, Asked, CC, MM
<1>7. KeepsOne(o)'
  <2> SUFFICES ASSUME ~Asked({"cancel", "conclude"}), NEW s \in Slots, o.put[s] = "same",
                      slot'[s] = "locked"
               PROVE  \E i \in Live' \ o.gone : rows'[i].slot = s
    BY <1>0 DEF KeepsOne, Children, Asked
  <2>1. o.kind \notin {"cancel", "conclude"} /\ u.kind \notin {"cancel", "conclude"}
    BY KindAt DEF Asked
  <2>2. \A i \in o.gone : rows[i].slot \in o.held /\ i \in Ids
    BY <1>0, <2>1 DEF Good
  <2>3. CASE s \in o.held
    <3>1. slot[s] = "locked"
      BY <1>2, <2>3
    <3>2. PICK i \in Live \ o.gone : rows[i].slot = s
      BY <1>0, <3>1 DEF Good, KeepsOne, Children
    <3>3. i \notin u.gone
      BY <1>1, <2>1, <2>3, <3>2, CommitRequest DEF Good
    <3> QED BY <1>3, <3>2, <3>3, CommitRows
  <2>4. CASE s \notin o.held
    <3>1. PICK i \in Live' : rows'[i].slot = s
      BY DEF FreeIsUnlocked, LiveIn, Asked, Commit
    <3>2. i \notin o.gone
      BY <1>3, <2>2, <2>4, <3>1
    <3> QED BY <3>1, <3>2
  <2> QED BY <2>3, <2>4
<1>8. /\ o.kind = "cancel" => Cancels(o)'
      /\ o.kind = "conclude" => Concludes(o)'
  BY <1>0, <1>3 DEF Good, Cancels, Concludes
<1>9. ASSUME o.kind \in {"delete", "drop"} PROVE Deletes(o)'
  BY <1>0, <1>3, <1>9 DEF Good, Deletes
<1>10. /\ o.gone \subseteq Ids'
       /\ o.kind \notin {"cancel", "conclude"} => \A i \in o.gone : rows'[i].slot \in o.held
  BY <1>0, <1>3 DEF Good
<1>11. Checked(o)' \/ o.kind # "reserve"
  BY <1>0, <1>6 DEF Checked
<1> QED BY <1>0, <1>5, <1>7, <1>8, <1>9, <1>10, <1>11 DEF Good, Idle

\* The commit keeps the invariant.
LEMMA CommitStep ==
  ASSUME Inv, NEW q \in Clients, Commit(q)
  PROVE  Inv'
<1> DEFINE o == req[q]
<1>0. mix' = mix /\ limit' = limit /\ req' = [req EXCEPT ![q] = Idle]
  BY DEF Commit
<1>1. (OncePerSlot /\ WithinMax /\ ReservedIsLocked /\ FreeIsUnlocked)'
  BY CommitOncePerSlot, CommitWithinMax, CommitReservedIsLocked, CommitFreeIsUnlocked
<1>2. RowsBound'
  <2>1. IsFiniteSet(Reservers) /\ Cardinality(Reservers) \in Nat
    BY ClientsAssumption, FS_Subset, FS_CardinalityType DEF Reservers
  <2>2. Reservers' = Reservers \ {q}
    BY <1>0, CommitRequest DEF Reservers, Idle
  <2>3. Cardinality(Reservers') = IF q \in Reservers THEN Cardinality(Reservers) - 1
                                                     ELSE Cardinality(Reservers)
    BY <2>1, <2>2, FS_RemoveElement
  <2>4. q \in Reservers <=> o.kind = "reserve"
    BY DEF Reservers
  <2>5. Len(rows)' = IF o.kind = "reserve" THEN Len(rows) + 1 ELSE Len(rows)
    BY CommitRows DEF New
  <2>6. Len(rows) \in Nat /\ mix.rows \in Nat /\ Len(rows) + Cardinality(Reservers) <= mix.rows
    BY RowsAre DEF Inv, RowsBound
  <2>7. Len(rows)' + Cardinality(Reservers') <= mix.rows
    BY <2>1, <2>3, <2>4, <2>5, <2>6
  <2> QED BY <1>0, <2>7 DEF RowsBound
<1>3. TypeOK'
  <2>1. Request' = Request
    BY <1>0 DEF Request, Lockable
  <2>2. req' \in [Clients -> Request]
    BY <1>0, IdleIsGood DEF Inv, TypeOK
  <2>3. open' \in BOOLEAN
    BY DEF Commit, Inv, TypeOK
  <2>4. Cardinality(Reservers') \in Nat
    <3>1. IsFiniteSet(Reservers')
      BY ClientsAssumption, FS_Subset DEF Reservers
    <3> QED BY <3>1, FS_CardinalityType
  <2>5. Len(rows)' <= mix.rows
    <3>1. Len(rows)' \in Nat /\ mix.rows \in Nat
      BY CommitRows, RowsAre DEF Inv, New
    <3>2. Len(rows)' + Cardinality(Reservers') <= mix.rows
      BY <1>0, <1>2 DEF RowsBound
    <3> QED BY <2>4, <3>1, <3>2
  <2> QED BY <1>0, <2>1, <2>2, <2>3, <2>5, CommitRows, CommitRequest DEF Inv, TypeOK
<1>4. Exclusive'
  BY <1>0, IdleIsGood DEF Exclusive, Inv, TypeOK
<1>5. NoneDeleted'
  <2> SUFFICES ASSUME NEW s \in Slots, slot'[s] = "deleted" PROVE Asked({"delete", "drop"})
    BY <1>0 DEF NoneDeleted, Asked
  <2>1. CASE slot[s] = "deleted"
    BY <2>1 DEF Inv, NoneDeleted
  <2>2. CASE slot[s] # "deleted"
    <3>1. o.put[s] = "deleted"
      BY <2>2, CommitRequest DEF SeenBy
    <3>2. o.kind \in {"delete", "drop"}
      <4>1. Good(o) /\ o.kind \in {"reserve", "cancel", "delete", "drop", "conclude"}
        BY CommitRequest, KindAt
      <4>2. o.kind # "reserve"
        BY <3>1, <4>1 DEF Good, Reserves
      <4>3. o.kind # "cancel"
        BY <3>1, <4>1 DEF Good, Cancels
      <4>4. o.kind # "conclude"
        BY <3>1, <4>1 DEF Good, Concludes
      <4> QED BY <4>1, <4>2, <4>3, <4>4
    <3> QED BY <3>2, KindAt DEF Asked
  <2> QED BY <2>1, <2>2
<1>6. ASSUME NEW c \in Clients PROVE Good(req[c])'
  <2>1. CASE c # q
    BY <1>1, <2>1, CommitOthers
  <2>2. CASE c = q
    <3>1. KeepsOne(Idle)'
      BY <1>1 DEF FreeIsUnlocked, KeepsOne, LiveIn, Children, Idle
    <3>2. req'[c] = Idle
      BY <2>2, CommitRequest
    <3>3. Idle.kind = "none" /\ Idle.gone = {} /\ \A s \in Slots : Idle.put[s] = "same"
      BY DEF Idle
    <3>4. Good(Idle)'
      BY <3>1, <3>3 DEF Good, Idle
    <3> QED BY <3>2, <3>4
  <2> QED BY <2>1, <2>2
<1> QED BY <1>1, <1>2, <1>3, <1>4, <1>5, <1>6 DEF Inv

-----------------------------------------------------------------------------
(* The theorems.                                                           *)

\* The invariant holds at first ...
LEMMA InitInv == Init => Inv
<1> SUFFICES ASSUME Init PROVE Inv
  OBVIOUS
<1>0. mix \in Mixes /\ mix.rows \in Nat /\ mix.most \in Nat /\ rows = <<>> /\ Len(rows) = 0
      /\ slot = [s \in Slots |-> "active"] /\ req = [q \in Clients |-> Idle]
  BY MixesAssumption DEF Init
<1>1. Ids = {} /\ Live = {} /\ \A s \in Slots : LiveIn(s) = {}
  BY <1>0 DEF Ids, Live, LiveIn
<1>2. TypeOK
  <2>1. Idle \in Request
    BY <1>0 DEF Idle, Request, SlotStates
  <2> QED BY <1>0, <2>1 DEF Init, TypeOK, SlotStates
<1>3. Reservers = {}
  BY <1>0 DEF Reservers, Idle
<1>4. RowsBound
  BY <1>0, <1>3, FS_EmptySet DEF RowsBound
<1>5. Exclusive
  BY <1>0 DEF Exclusive, Idle
<1>6. KeepsOne(Idle)
  BY <1>0 DEF KeepsOne
<1>7. \A c \in Clients : Good(req[c])
  BY <1>0, <1>6 DEF Good, Idle
<1>8. NoneDeleted /\ OncePerSlot /\ ReservedIsLocked /\ FreeIsUnlocked
  BY <1>0, <1>1 DEF NoneDeleted, OncePerSlot, ReservedIsLocked, FreeIsUnlocked
<1>9. WithinMax
  <2> SUFFICES ASSUME NEW p \in Participants
               PROVE  Cardinality({i \in Live : rows[i].who = p /\ slot[rows[i].slot] # "deleted"})
                        <= mix.most
    BY DEF WithinMax
  <2> DEFINE places == {i \in Live : rows[i].who = p /\ slot[rows[i].slot] # "deleted"}
  <2>1. places = {}
    BY <1>1
  <2> HIDE DEF places
  <2>2. Cardinality(places) <= mix.most
    BY <1>0, <2>1, FS_EmptySet
  <2> QED BY <2>2 DEF places
<1> QED BY <1>2, <1>4, <1>5, <1>7, <1>8, <1>9 DEF Inv

\* Only commits change the slots and the rows.
LEMMA StepIs ==
  ASSUME [Next]_vars
  PROVE  UNCHANGED <<mix, slot, rows>> \/ \E q \in Clients : Commit(q)
<1>1. CASE UNCHANGED vars
  BY <1>1 DEF vars
<1>2. ASSUME NEW q \in Clients, Start(q)
      PROVE  UNCHANGED <<mix, slot, rows>>
  BY <1>2 DEF Start, StartReserve, StartCancel, StartDelete, StartDrop, StartConclude,
              ChangeLimit, Begin
<1>3. ASSUME NEW q \in Clients, Step(q), ~Commit(q)
      PROVE  UNCHANGED <<mix, slot, rows>>
  BY <1>3 DEF Step, LockSlot, LockParticipant, LockExisting, CancelExisting, Reserve, Refuse,
              Rollback, UpdateReservation, TouchOwner, Unlock, TouchGroup, DropGroup,
              DeleteSlot, DeleteChild, SweepRow, Take
<1>4. ASSUME NEW q \in Clients, Deadlock(q)
      PROVE  UNCHANGED <<mix, slot, rows>>
  BY <1>4 DEF Deadlock, Rollback
<1> QED BY <1>1, <1>2, <1>3, <1>4 DEF Next

\* ... and every step keeps it.
LEMMA NextInv == Inv /\ [Next]_vars => Inv'
<1> SUFFICES ASSUME Inv, [Next]_vars PROVE Inv'
  OBVIOUS
<1>1. CASE UNCHANGED vars
  <2>1. Good(Idle)' /\ \A r : Good(r) => Good(r)'
    BY <1>1, IdleIsGood, GoodStays DEF vars
  <2>2. \A c \in Clients : Good(req[c])'
    BY <1>1, <2>1 DEF vars, Inv
  <2>3. TypeOK' /\ RowsBound' /\ Exclusive' /\ NoneDeleted' /\ OncePerSlot'
    BY <1>1 DEF vars, Inv, TypeOK, Request, Lockable, RowsBound, Reservers, Exclusive,
                NoneDeleted, OncePerSlot, Asked, Live, Ids
  <2>4. Live' = Live /\ \A s : LiveIn(s)' = LiveIn(s)
    BY <1>1 DEF vars, Live, LiveIn, Ids
  <2>5. WithinMax' /\ ReservedIsLocked' /\ FreeIsUnlocked'
    BY <1>1, <2>4 DEF vars, Inv, WithinMax, ReservedIsLocked, FreeIsUnlocked, Asked
  <2> QED BY <2>2, <2>3, <2>5 DEF Inv
<1>2. ASSUME NEW q \in Clients, Start(q)
      PROVE  Inv'
  BY <1>2, StartStep, ChangeLimitStep DEF Start
<1>3. ASSUME NEW q \in Clients, Step(q)
      PROVE  Inv'
  BY <1>3, LockSlotStep, LockParticipantStep, LockExistingStep, CancelExistingStep, ReserveStep,
     RollbackStep, UpdateReservationStep, TouchOwnerStep, UnlockStep, TouchGroupStep,
     DropGroupStep, DeleteSlotStep, DeleteChildStep, SweepRowStep, CommitStep DEF Step, Refuse
<1>4. ASSUME NEW q \in Clients, Deadlock(q)
      PROVE  Inv'
  BY <1>4, RollbackStep DEF Deadlock
<1> QED BY <1>1, <1>2, <1>3, <1>4 DEF Next

\* So it always holds.
LEMMA Invariance == Spec => []Inv
BY InitInv, NextInv, PTL DEF Spec

\* The variables have their types; no more reservations are made than the bound
\* on them says, since those under way are counted.
THEOREM AppointmentsTypeOK == Spec => []TypeOK
<1>1. Inv => TypeOK
  BY DEF Inv
<1> QED BY <1>1, Invariance, PTL

\* Nobody ever has two places in one slot, whatever requests run at once
\* (CalendarEvent#reserve_for: the slot's row is locked before its children are read).
THEOREM NobodyTwice == Spec => []OncePerSlot
<1>1. Inv => OncePerSlot
  BY DEF Inv
<1> QED BY <1>1, Invariance, PTL

\* No participant ever has more places than the group allows (reserve_for: the
\* participant's row is locked before the reservations are counted), unless
\* cancellations meet deletions.
THEOREM ParticipantsWithinMax == Spec => []WithinMax
<1>1. Inv => WithinMax
  BY DEF Inv
<1> QED BY <1>1, Invariance, PTL

\* Without swaps and cancellations a slot with reservations is locked, whoever
\* read its state before (workflow_state in CalendarEvent#reserve_for).
THEOREM SlotsWithReservationsLocked == Spec => []ReservedIsLocked
<1>1. Inv => ReservedIsLocked
  BY DEF Inv
<1> QED BY <1>1, Invariance, PTL

\* Without cancellations and concluded enrollments a locked slot has reservations:
\* a swap or a deletion that takes the last one unlocks it (CalendarEvent#destroy).
THEOREM SlotsWithoutUnlocked == Spec => []FreeIsUnlocked
<1>1. Inv => FreeIsUnlocked
  BY DEF Inv
<1> QED BY <1>1, Invariance, PTL

\* No commit adds a reservation beyond the slot's own limit at that time, though
\* teachers change these limits at any time (reserve_for counts child_events under the lock).
THEOREM SlotsGrowWithinLimit == Spec => GrowsWithinLimit
<1>1. Inv /\ [Next]_vars =>
        [\A s \in Slots : ~(LiveIn(s)' \subseteq LiveIn(s))
                            => Cardinality(LiveIn(s)') <= limit'[s]]_vars
  <2> SUFFICES ASSUME Inv, [Next]_vars, NEW s \in Slots, ~(LiveIn(s)' \subseteq LiveIn(s))
               PROVE  Cardinality(LiveIn(s)') <= limit'[s]
    OBVIOUS
  <2>1. CASE UNCHANGED <<mix, slot, rows>>
    BY <2>1 DEF LiveIn, Live, Ids
  <2>2. ASSUME NEW q \in Clients, Commit(q)
        PROVE  Cardinality(LiveIn(s)') <= limit'[s]
    BY <2>2, CommitWithinLimit DEF Commit
  <2> QED BY <2>1, <2>2, StepIs
<1> QED BY <1>1, Invariance, PTL DEF Spec, GrowsWithinLimit

\* reserve_for with cancel_existing never leaves a participant who had a place
\* without one: all of it is one transaction.
THEOREM NoSwapLosesThePlace == Spec => SwapKeepsPlace
<1>1. Inv /\ [Next]_vars =>
        [\A q \in Clients :
           LET mine == {i \in Live : rows[i].who = req[q].who} IN
           req[q].kind = "reserve" /\ req'[q] = Idle /\ mine # {}
             => \E i \in Live' : rows'[i].who = req[q].who]_vars
  <2> SUFFICES ASSUME Inv, [Next]_vars, NEW q \in Clients, req[q].kind = "reserve",
                      req'[q] = Idle, NEW k \in Live, rows[k].who = req[q].who
               PROVE  \E i \in Live' : rows'[i].who = req[q].who
    OBVIOUS
  <2>1. CASE UNCHANGED <<mix, slot, rows>>
    BY <2>1 DEF Live, Ids
  <2>2. ASSUME NEW c \in Clients, Commit(c)
        PROVE  \E i \in Live' : rows'[i].who = req[q].who
    <3>1. c = q
      BY <2>2, CommitRequest DEF Idle
    <3> QED BY <2>2, <3>1, CommitRows
  <2> QED BY <2>1, <2>2, StepIs
<1> QED BY <1>1, Invariance, PTL DEF Spec, SwapKeepsPlace

\* Without cancellations no request brings a deleted slot back: the object is
\* reloaded as its row is locked (lock! in reserve_for), and only slots that it
\* holds are written.
THEOREM NoDeletedSlotIsBack == Spec => DeletedStays
<1>1. Inv /\ [Next]_vars =>
        [Asked({"cancel"}) \/ \A s \in Slots : slot[s] = "deleted" => slot'[s] = "deleted"]_vars
  <2> SUFFICES ASSUME Inv, [Next]_vars, ~Asked({"cancel"}), NEW s \in Slots, slot[s] = "deleted"
               PROVE  slot'[s] = "deleted"
    OBVIOUS
  <2>1. ASSUME NEW q \in Clients, Commit(q)
        PROVE  slot'[s] = "deleted"
    BY <2>1, CommitRequest
  <2> QED BY <2>1, StepIs
<1> QED BY <1>1, Invariance, PTL DEF Spec, DeletedStays
=============================================================================
