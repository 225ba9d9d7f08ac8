------------------------ MODULE DiscussionViewProofs ------------------------
(***************************************************************************)
(* Theorems about DiscussionView: its safety properties, for any number of *)
(* entries, writers, readers, workers and events.                          *)
(*                                                                         *)
(* What makes an answer complete is Covers: of a view, of the job that     *)
(* builds one and of the entries a reader needs, each entry is shown as it *)
(* is, or was updated after the view's job began, and whoever is about to  *)
(* commit it has read a later time too, except those that the job missed.  *)
(***************************************************************************)
EXTENDS DiscussionView, FiniteSetTheorems, TLAPS

\* One job of the strand runs; while it runs one waits at most, so that a
\* failure leaves two.
OneRuns ==
  /\ \A v, w \in Running : v = w
  /\ Running # {} => queued <= 1

\* The writers that have saved entry e and not committed it.
Pending(e) == {c \in Writers : writer[c].at = "saved" /\ e \in writer[c].entry}

VersionsBound == \A e \in Entries : entries[e].version + Cardinality(Pending(e)) <= used

\* Entry e was, and will be, updated at start or later.
Since(e, start) ==
  /\ entries[e].updated >= start
  /\ \A c \in Pending(e) : writer[c].time >= start

Covers(shown, missed, start) ==
  \A e \in Entries \ missed :
    /\ \A c \in Pending(e) : writer[c].time >= start
    /\ shown[e] < entries[e].version => entries[e].updated >= start

ViewIsCovered == Covers(view.shown, view.missed, view.started)

\* Nothing is shown that was not committed, and what a job has read is no older
\* than the view that it replaces.
ViewIsBehind ==
  /\ \A e \in Entries : view.shown[e] <= entries[e].version
  /\ \A w \in Workers : worker[w].at = "built" =>
       /\ Covers(worker[w].shown, worker[w].missed, worker[w].started)
       /\ \A e \in Entries : /\ view.shown[e] <= worker[w].shown[e]
                             /\ worker[w].shown[e] <= entries[e].version

ReadersAreCovered ==
  \A r \in Readers : reader[r].at = "read" =>
    \A e \in reader[r].short : entries[e].version > 0 /\ Since(e, reader[r].started)

\* The inductive invariant.
Inv == /\ TypeOK /\ OneRuns /\ VersionsBound
       /\ ViewIsCovered /\ ViewIsBehind /\ ReadersAreCovered

-----------------------------------------------------------------------------
(* Types.                                                                  *)

\* What is typed by the time read last stays so when it goes on.
LEMMA TypesGrow ==
  ASSUME now \in Nat, now' \in Nat, now <= now'
  PROVE  /\ 0..now \subseteq 0..now' /\ now' \in 0..now' /\ Records \subseteq Records'
         /\ Views \subseteq Views' /\ Jobs \subseteq Jobs' /\ Saves \subseteq Saves'
         /\ Reads \subseteq Reads'
<1>1. 0..now \subseteq 0..now' /\ now' \in 0..now'
  OBVIOUS
<1> QED BY <1>1 DEF Views, Shown, Records, Jobs, Saves, Reads

\* What the types say of each record, in the form the provers need.
LEMMA TypeParts ==
  ASSUME TypeOK
  PROVE  /\ now \in Nat /\ MaxEvents \in Nat /\ used \in Nat /\ used <= MaxEvents /\ queued \in 0..2
         /\ \A e \in Entries : /\ entries[e].version \in Nat /\ entries[e].version <= MaxEvents
                               /\ entries[e].updated \in Nat /\ entries[e].updated <= now
         /\ \A e \in Entries : view.shown[e] \in Nat
         /\ view.started \in Nat /\ view.started <= now
         /\ \A w \in Workers : /\ worker[w].started \in Nat /\ worker[w].started <= now
                               /\ worker[w].at \in {"idle", "started", "built"}
                               /\ \A e \in Entries : worker[w].shown[e] \in Nat
         /\ \A c \in Writers : /\ writer[c].time \in Nat /\ writer[c].time <= now
                               /\ writer[c].at \in {"idle", "saved", "committed"}
         /\ \A r \in Readers : /\ reader[r].started \in Nat /\ reader[r].started <= now
                               /\ reader[r].short \subseteq Entries
<1>1. now \in Nat /\ MaxEvents \in Nat /\ used \in Nat /\ used <= MaxEvents /\ queued \in 0..2
  BY MaxEventsAssumption DEF TypeOK
<1>2. ASSUME NEW e \in Entries
      PROVE  /\ entries[e].version \in Nat /\ entries[e].version <= MaxEvents
             /\ entries[e].updated \in Nat /\ entries[e].updated <= now
  BY <1>1 DEF TypeOK, Records
<1>3. /\ \A e \in Entries : view.shown[e] \in Nat
      /\ view.started \in Nat /\ view.started <= now
  BY <1>1 DEF TypeOK, Views, Shown
<1>4. ASSUME NEW w \in Workers
      PROVE  /\ worker[w].started \in Nat /\ worker[w].started <= now
             /\ worker[w].at \in {"idle", "started", "built"}
             /\ \A e \in Entries : worker[w].shown[e] \in Nat
  BY <1>1 DEF TypeOK, Shown, Jobs
<1>5. ASSUME NEW c \in Writers
      PROVE  /\ writer[c].time \in Nat /\ writer[c].time <= now
             /\ writer[c].at \in {"idle", "saved", "committed"}
  BY <1>1 DEF TypeOK, Saves
<1>6. ASSUME NEW r \in Readers
      PROVE  /\ reader[r].started \in Nat /\ reader[r].started <= now
             /\ reader[r].short \subseteq Entries
  BY <1>1 DEF TypeOK, Reads
<1> QED BY <1>1, <1>2, <1>3, <1>4, <1>5, <1>6

\* The writers are finitely many, so those of an entry can be counted.
LEMMA FinitelyPending ==
  ASSUME NEW e
  PROVE  IsFiniteSet(Pending(e)) /\ Cardinality(Pending(e)) \in Nat
BY WritersAssumption, FS_Subset, FS_CardinalityType DEF Pending

\* A step that neither saves nor commits an entry and in which no time goes back
\* keeps what is said of entries and readers.
LEMMA EntriesKept ==
  ASSUME Inv, UNCHANGED <<entries, writer>>, used' \in Nat, used <= used'
  PROVE  /\ VersionsBound'
         /\ \A shown, missed, start : Covers(shown, missed, start) => Covers(shown, missed, start)'
         /\ \A e, start : Since(e, start) => Since(e, start)'
<1>1. \A e : Pending(e)' = Pending(e)
  BY DEF Pending
<1>2. VersionsBound'
  BY <1>1, FinitelyPending, TypeParts DEF Inv, VersionsBound
<1> QED BY <1>1, <1>2 DEF Covers, Since

-----------------------------------------------------------------------------
(* The job.                                                                *)

\* A job starts only while none runs, with a time later than all others.
LEMMA StartStep ==
  ASSUME Inv, NEW w \in Workers, Start(w)
  PROVE  Inv'
<1>0. /\ now' = now + 1 /\ now \in Nat /\ queued \in 1..2 /\ queued' = queued - 1 /\ Running = {}
      /\ worker' = [worker EXCEPT ![w] = [@ EXCEPT !.at = "started", !.started = now + 1]]
      /\ UNCHANGED <<entries, topic, view, writer, reader, used, died>>
  BY TypeParts DEF Start, StrandIsFree, Inv
<1>1. \A v \in Workers : worker[v].at = "idle"
  BY <1>0, TypeParts DEF Running, Inv
<1>2. \A v \in Workers : worker'[v].at = IF v = w THEN "started" ELSE "idle"
  BY <1>0, <1>1 DEF Inv, TypeOK
<1>3. TypeOK'
  <2>0. worker[w] \in Jobs' /\ now + 1 \in 0..now'
    BY <1>0, TypesGrow DEF Inv, TypeOK
  <2>1. [worker[w] EXCEPT !.at = "started", !.started = now + 1] \in Jobs'
    BY <2>0 DEF Jobs
  <2> QED BY <1>0, <2>1, TypesGrow DEF Inv, TypeOK
<1>4. OneRuns'
  BY <1>0, <1>2 DEF OneRuns, Running
<1>5. VersionsBound' /\ ViewIsCovered' /\ ReadersAreCovered'
  BY <1>0, EntriesKept, TypeParts DEF Inv, ViewIsCovered, ReadersAreCovered
<1>6. ViewIsBehind'
  BY <1>0, <1>2 DEF Inv, ViewIsBehind
<1> QED BY <1>3, <1>4, <1>5, <1>6 DEF Inv

\* What a job reads is what was committed; the entries that it reads too early
\* are those it misses.
LEMMA BuildStep ==
  ASSUME Inv, NEW w \in Workers, Build(w)
  PROVE  Inv'
<1> DEFINE open == {c \in Writers : writer[c].at = "saved" /\ writer[c].time < worker[w].started}
           missed == UNION {writer[c].entry : c \in open}
<1>0. /\ worker[w].at = "started"
      /\ worker' = [worker EXCEPT ![w] = [@ EXCEPT !.at = "built", !.shown = Versions,
                                                   !.missed = missed]]
      /\ UNCHANGED <<now, entries, topic, view, queued, writer, reader, used, died>>
      /\ now \in Nat /\ used \in Nat
  BY TypeParts DEF Build, Inv
<1>1. missed \subseteq Entries
  BY DEF Inv, TypeOK, Saves
<1>2. Versions \in Shown /\ \A e \in Entries : Versions[e] = entries[e].version
  BY DEF Versions, Shown, Inv, TypeOK, Records
<1>3. \A e \in Entries \ missed : \A c \in Pending(e) : writer[c].time >= worker[w].started
  BY TypeParts DEF Pending, Inv
<1>4. worker[w] \in Jobs
  BY DEF Inv, TypeOK
<1> HIDE DEF missed
<1>5. /\ \A v \in Workers : v # w => worker'[v] = worker[v]
      /\ worker'[w].at = "built" /\ worker'[w].shown = Versions /\ worker'[w].missed = missed
      /\ worker'[w].started = worker[w].started
  BY <1>0, <1>4 DEF Inv, TypeOK, Jobs
<1>6. TypeOK'
  <2>1. [worker[w] EXCEPT !.at = "built", !.shown = Versions, !.missed = missed] \in Jobs
    BY <1>1, <1>2, <1>4 DEF Jobs
  <2>2. Jobs' = Jobs /\ Records' = Records /\ Views' = Views /\ Saves' = Saves /\ Reads' = Reads
    BY <1>0 DEF Jobs, Records, Views, Saves, Reads
  <2> QED BY <1>0, <2>1, <2>2 DEF Inv, TypeOK
<1>7. OneRuns'
  BY <1>0, <1>5 DEF Inv, OneRuns, Running
<1>8. VersionsBound' /\ ViewIsCovered' /\ ReadersAreCovered'
  BY <1>0, EntriesKept, TypeParts DEF Inv, ViewIsCovered, ReadersAreCovered
<1>9. \A e : Pending(e)' = Pending(e)
  BY <1>0 DEF Pending
<1>10. Covers(worker[w].shown, worker[w].missed, worker[w].started)'
  BY <1>0, <1>2, <1>3, <1>5, <1>9, TypeParts DEF Inv, Covers
<1>11. ASSUME NEW v \in Workers, worker'[v].at = "built"
       PROVE  v = w
  BY <1>0, <1>5, <1>11 DEF Inv, OneRuns, Running
<1>12. ViewIsBehind'
  <2>1. \A e \in Entries : view.shown[e] <= entries[e].version
    BY DEF Inv, ViewIsBehind
  <2>2. \A e \in Entries : /\ view'.shown[e] <= worker'[w].shown[e]
                          /\ worker'[w].shown[e] <= entries'[e].version
    BY <1>0, <1>2, <1>5, <2>1, TypeParts DEF Inv
  <2> QED BY <1>0, <1>10, <1>11, <2>1, <2>2 DEF ViewIsBehind
<1> QED BY <1>6, <1>7, <1>8, <1>12 DEF Inv

\* The job that saves is the only one: the view is the one it read behind.
LEMMA SaveStep ==
  ASSUME Inv, NEW w \in Workers, Save(w)
  PROVE  Inv'
<1>0. /\ worker[w].at = "built" /\ worker[w] \in Jobs
      /\ now' = now + 1 /\ now \in Nat /\ used \in Nat
      /\ view' = [there |-> TRUE, shown |-> worker[w].shown, missed |-> worker[w].missed,
                  started |-> worker[w].started, updated |-> now + 1]
      /\ worker' = [worker EXCEPT ![w] = NoJob]
      /\ UNCHANGED <<entries, topic, queued, writer, reader, used, died>>
  BY TypeParts DEF Save, Inv, TypeOK
<1>1. /\ view'.shown = worker[w].shown /\ view'.missed = worker[w].missed
      /\ view'.started = worker[w].started
  BY <1>0
<1>2. \A v \in Workers : worker'[v].at = "idle"
  BY <1>0, TypeParts DEF Inv, TypeOK, OneRuns, Running, NoJob
<1>3. TypeOK'
  <2>0. worker[w] \in Jobs' /\ now' \in Nat /\ now + 1 \in 0..now'
    BY <1>0, TypesGrow
  <2>1. view' \in Views'
    BY <1>0, <2>0 DEF Views, Jobs
  <2>2. NoJob \in Jobs'
    BY <2>0, MaxEventsAssumption DEF NoJob, Jobs, Shown
  <2> QED BY <1>0, <2>0, <2>1, <2>2, TypesGrow DEF Inv, TypeOK
<1>4. OneRuns'
  BY <1>2 DEF OneRuns, Running
<1>5. VersionsBound' /\ ReadersAreCovered'
  BY <1>0, EntriesKept, TypeParts DEF Inv, ReadersAreCovered
<1>6. Covers(worker[w].shown, worker[w].missed, worker[w].started)
      /\ \A e \in Entries : worker[w].shown[e] <= entries[e].version
  BY <1>0 DEF Inv, ViewIsBehind
<1>7. ViewIsCovered'
  <2>1. \A e : Pending(e)' = Pending(e)
    BY <1>0 DEF Pending
  <2> QED BY <1>0, <1>1, <1>6, <2>1 DEF ViewIsCovered, Covers
<1>8. ViewIsBehind'
  BY <1>0, <1>1, <1>2, <1>6 DEF ViewIsBehind
<1> QED BY <1>3, <1>4, <1>5, <1>7, <1>8 DEF Inv

\* A job that fails was the only one: it is queued again behind one at most.
LEMMA FailStep ==
  ASSUME Inv, NEW w \in Workers, Fail(w)
  PROVE  Inv'
<1>0. /\ worker[w].at # "idle" /\ used < MaxEvents /\ used' = used + 1 /\ queued' = queued + 1
      /\ now \in Nat /\ used \in Nat /\ MaxEvents \in Nat
      /\ worker' = [worker EXCEPT ![w] = NoJob]
      /\ UNCHANGED <<now, entries, topic, view, writer, reader, died>>
  BY TypeParts DEF Fail, Inv
<1>1. queued \in 0..1
  BY <1>0, TypeParts DEF Inv, OneRuns, Running
<1>2. \A v \in Workers : worker'[v].at = "idle"
  BY <1>0, TypeParts DEF Inv, TypeOK, OneRuns, Running, NoJob
<1>3. TypeOK'
  <2>1. NoJob \in Jobs
    BY <1>0 DEF NoJob, Jobs, Shown
  <2>2. Jobs' = Jobs /\ Records' = Records /\ Views' = Views /\ Saves' = Saves /\ Reads' = Reads
    BY <1>0 DEF Jobs, Records, Views, Saves, Reads
  <2> QED BY <1>0, <1>1, <2>1, <2>2 DEF Inv, TypeOK
<1>4. OneRuns'
  BY <1>2 DEF OneRuns, Running
<1>5. VersionsBound' /\ ViewIsCovered' /\ ReadersAreCovered'
  BY <1>0, EntriesKept, TypeParts DEF Inv, ViewIsCovered, ReadersAreCovered
<1>6. ViewIsBehind'
  BY <1>0, <1>2 DEF Inv, ViewIsBehind
<1> QED BY <1>3, <1>4, <1>5, <1>6 DEF Inv

-----------------------------------------------------------------------------
(* The writers and the topic.                                              *)

\* The time that is read as an entry is saved is later than all others.
LEMMA SaveEntryStep ==
  ASSUME Inv, NEW c \in Writers, NEW e \in Entries, SaveEntry(c, e)
  PROVE  Inv'
<1> DEFINE new == [at |-> "saved", entry |-> {e}, time |-> now + 1]
<1>0. /\ writer[c].at = "idle" /\ used < MaxEvents /\ used' = used + 1 /\ now' = now + 1
      /\ now \in Nat /\ used \in Nat /\ MaxEvents \in Nat
      /\ writer' = [writer EXCEPT ![c] = new]
      /\ UNCHANGED <<entries, topic, view, queued, worker, reader, died>>
  BY TypeParts DEF SaveEntry, Inv
<1>1. \A b \in Writers : writer'[b] = IF b = c THEN new ELSE writer[b]
  BY <1>0 DEF Inv, TypeOK
<1>2. /\ Pending(e)' = Pending(e) \cup {c}
      /\ \A f \in Entries : f # e => Pending(f)' = Pending(f)
  BY <1>0, <1>1 DEF Pending
<1>3. \A f \in Entries : \A b \in Pending(f)' :
        writer'[b].time = now + 1 \/ (b \in Pending(f) /\ writer'[b].time = writer[b].time)
  BY <1>1, <1>2 DEF Pending
<1>4. TypeOK'
  <2>0. now' \in Nat /\ now + 1 \in 0..now'
    BY <1>0, TypesGrow
  <2>1. new \in Saves'
    BY <2>0 DEF Saves
  <2>2. writer' \in [Writers -> Saves']
    BY <1>0, <2>0, <2>1, TypesGrow DEF Inv, TypeOK
  <2> QED BY <1>0, <2>0, <2>2, TypesGrow DEF Inv, TypeOK
<1>5. VersionsBound'
  <2>1. ASSUME NEW f \in Entries
        PROVE  Cardinality(Pending(f)') \in Nat /\ Cardinality(Pending(f)') <= Cardinality(Pending(f)) + 1
    <3> DEFINE P == Pending(f)
    <3>1. IsFiniteSet(P) /\ Cardinality(P) \in Nat
      BY FinitelyPending
    <3>2. Pending(f)' = P \/ Pending(f)' = P \cup {c}
      BY <1>2
    <3> HIDE DEF P
    <3>3. IsFiniteSet(P \cup {c}) /\ Cardinality(P \cup {c}) = IF c \in P THEN Cardinality(P)
                                                               ELSE Cardinality(P) + 1
      BY <3>1, FS_AddElement
    <3> QED BY <3>1, <3>2, <3>3 DEF P
  <2>2. ASSUME NEW f \in Entries
        PROVE  (entries[f].version + Cardinality(Pending(f)) <= used)'
    BY <1>0, <2>1, FinitelyPending, TypeParts DEF Inv, VersionsBound
  <2> QED BY <2>2 DEF VersionsBound
<1>6. ASSUME NEW shown, NEW missed, NEW start \in Nat, start <= now, Covers(shown, missed, start)
      PROVE  Covers(shown, missed, start)'
  BY <1>0, <1>3, <1>6 DEF Covers
<1>7. ViewIsCovered'
  BY <1>0, <1>6, TypeParts DEF Inv, ViewIsCovered
<1>8. ViewIsBehind'
  BY <1>0, <1>6, TypeParts DEF Inv, ViewIsBehind
<1>9. ReadersAreCovered'
  BY <1>0, <1>3, TypeParts DEF Inv, ReadersAreCovered, Since
<1>10. OneRuns'
  BY <1>0 DEF Inv, OneRuns, Running
<1> QED BY <1>4, <1>5, <1>7, <1>8, <1>9, <1>10 DEF Inv

\* The time that others see is the one that was read as the entry was saved.
LEMMA CommitStep ==
  ASSUME Inv, NEW c \in Writers, Commit(c)
  PROVE  Inv'
<1> DEFINE done == [NoSave EXCEPT !.at = "committed"]
           time == writer[c].time
<1>0. /\ writer[c].at = "saved" /\ now \in Nat /\ used \in Nat /\ time \in 0..now
      /\ writer' = [writer EXCEPT ![c] = done]
      /\ entries' = [e \in Entries |-> IF e \in writer[c].entry
                        THEN [version |-> entries[e].version + 1, updated |-> time]
                        ELSE entries[e]]
      /\ topic' = time
      /\ UNCHANGED <<now, view, queued, worker, reader, used, died>>
  BY TypeParts DEF Commit, Inv
<1>1. \A b \in Writers : writer'[b] = IF b = c THEN done ELSE writer[b]
  BY <1>0 DEF Inv, TypeOK
<1>2. \A e : Pending(e)' = Pending(e) \ {c}
  BY <1>0, <1>1 DEF Pending, NoSave
<1>3. ASSUME NEW e \in Entries
      PROVE  \/ entries'[e] = entries[e]
             \/ /\ c \in Pending(e)
                /\ entries'[e].version = entries[e].version + 1 /\ entries'[e].updated = time
  BY <1>0 DEF Pending
<1>4. VersionsBound'
  <2> SUFFICES ASSUME NEW e \in Entries
               PROVE  entries'[e].version + Cardinality(Pending(e)') <= used
    BY <1>0 DEF VersionsBound
  <2>1. Cardinality(Pending(e)') = IF c \in Pending(e) THEN Cardinality(Pending(e)) - 1
                                                        ELSE Cardinality(Pending(e))
    BY <1>2, FinitelyPending, FS_RemoveElement
  <2>2. entries[e].version + Cardinality(Pending(e)) <= used
    BY DEF Inv, VersionsBound
  <2> QED BY <1>0, <1>3, <2>1, <2>2, FinitelyPending, TypeParts DEF Inv
<1>5. TypeOK'
  <2>1. ASSUME NEW e \in Entries PROVE entries'[e] \in Records
    <3>1. entries[e] \in Records
      BY DEF Inv, TypeOK
    <3>2. CASE entries'[e] = entries[e]
      BY <3>1, <3>2
    <3>3. CASE entries'[e] # entries[e]
      <4>1. c \in Pending(e) /\ e \in writer[c].entry
        BY <1>0, <1>3, <3>3 DEF Pending
      <4>2. entries[e].version + 1 <= used
        <5>1. Cardinality(Pending(e)) # 0
          BY <4>1, FinitelyPending, FS_EmptySet
        <5>2. entries[e].version + Cardinality(Pending(e)) <= used
          BY DEF Inv, VersionsBound
        <5> QED BY <1>0, <5>1, <5>2, FinitelyPending, TypeParts DEF Inv
      <4>3. entries[e].version + 1 \in 0..MaxEvents
        BY <4>2, TypeParts DEF Inv
      <4> QED BY <1>0, <4>1, <4>3 DEF Records
    <3> QED BY <3>2, <3>3
  <2>2. entries' \in [Entries -> Records]
    BY <1>0, <2>1
  <2>3. done \in Saves
    BY <1>0 DEF Saves, NoSave
  <2>4. Jobs' = Jobs /\ Records' = Records /\ Views' = Views /\ Saves' = Saves /\ Reads' = Reads
    BY <1>0 DEF Jobs, Records, Views, Saves, Reads
  <2> QED BY <1>0, <2>2, <2>3, <2>4 DEF Inv, TypeOK
<1>6. ASSUME NEW shown, NEW missed, NEW start, Covers(shown, missed, start)
      PROVE  Covers(shown, missed, start)'
  <2> SUFFICES ASSUME NEW e \in Entries \ missed
               PROVE  /\ \A b \in Pending(e)' : writer'[b].time >= start
                      /\ shown[e] < entries'[e].version => entries'[e].updated >= start
    BY DEF Covers
  <2>1. \A b \in Pending(e)' : writer'[b].time >= start
    BY <1>1, <1>2, <1>6 DEF Covers, Pending
  <2>2. c \in Pending(e) => time >= start
    BY <1>6 DEF Covers
  <2> QED BY <1>3, <1>6, <2>1, <2>2 DEF Covers
<1>7. \A e \in Entries : entries'[e].version >= entries[e].version
  BY <1>3, TypeParts DEF Inv
<1>8. ViewIsCovered'
  BY <1>0, <1>6 DEF Inv, ViewIsCovered
<1>9. ViewIsBehind'
  <2>1. \A e \in Entries : entries'[e].version \in Nat
    BY <1>3, TypeParts DEF Inv
  <2>2. \A e \in Entries : view'.shown[e] <= entries'[e].version
    BY <1>0, <1>7, <2>1, TypeParts DEF Inv, ViewIsBehind
  <2>3. ASSUME NEW w \in Workers, worker[w].at = "built"
        PROVE  /\ Covers(worker[w].shown, worker[w].missed, worker[w].started)'
               /\ \A e \in Entries : /\ view.shown[e] <= worker[w].shown[e]
                                     /\ worker[w].shown[e] <= entries'[e].version
    BY <1>0, <1>6, <1>7, <2>1, <2>3, TypeParts DEF Inv, ViewIsBehind
  <2> QED BY <1>0, <2>2, <2>3 DEF ViewIsBehind
<1>10. ReadersAreCovered'
  <2> SUFFICES ASSUME NEW r \in Readers, reader[r].at = "read", NEW e \in reader[r].short
               PROVE  entries'[e].version > 0 /\ Since(e, reader[r].started)'
    BY <1>0 DEF ReadersAreCovered
  <2>1. e \in Entries /\ entries[e].version > 0 /\ Since(e, reader[r].started)
    BY TypeParts DEF Inv, ReadersAreCovered
  <2>2. entries'[e].version > 0
    BY <1>3, <2>1, TypeParts DEF Inv
  <2>3. entries'[e].updated >= reader[r].started
    BY <1>3, <2>1 DEF Since
  <2>4. \A b \in Pending(e)' : writer'[b].time >= reader[r].started
    BY <1>1, <1>2, <2>1 DEF Since, Pending
  <2> QED BY <1>0, <2>2, <2>3, <2>4 DEF Since
<1>11. OneRuns'
  BY <1>0 DEF Inv, OneRuns, Running
<1> QED BY <1>4, <1>5, <1>8, <1>9, <1>10, <1>11 DEF Inv

\* An enqueue leaves a job that waits, and no more of them than a failure would.
LEMMA EnqueueKept ==
  ASSUME Inv, queued' \in {queued, Enqueued}, UNCHANGED worker
  PROVE  queued' \in 0..2 /\ OneRuns'
<1>1. queued' \in {queued, 1} /\ queued \in 0..2
  BY TypeParts DEF Enqueued, Inv
<1> QED BY <1>1 DEF OneRuns, Running, Inv

\* A writer that has committed ends, with or without its enqueue.
LEMMA WriterEnds ==
  ASSUME Inv, NEW c \in Writers, writer[c].at = "committed",
         writer' = [writer EXCEPT ![c] = NoSave], queued' \in {queued, Enqueued},
         died' \in BOOLEAN, UNCHANGED <<now, entries, topic, view, worker, reader, used>>
  PROVE  Inv'
<1>0. now \in Nat /\ used \in Nat
  BY TypeParts DEF Inv
<1>1. \A b \in Writers : writer'[b] = IF b = c THEN NoSave ELSE writer[b]
  BY DEF Inv, TypeOK
<1>2. \A e : Pending(e)' = Pending(e)
  BY <1>1 DEF Pending, NoSave
<1>3. \A e : \A b \in Pending(e) : writer'[b] = writer[b]
  BY <1>1 DEF Pending
<1>4. TypeOK'
  <2>1. NoSave \in Saves
    BY <1>0 DEF NoSave, Saves
  <2>2. Jobs' = Jobs /\ Records' = Records /\ Views' = Views /\ Saves' = Saves /\ Reads' = Reads
    BY DEF Jobs, Records, Views, Saves, Reads
  <2> QED BY <2>1, <2>2, EnqueueKept DEF Inv, TypeOK
<1>5. OneRuns'
  BY EnqueueKept
<1>6. VersionsBound'
  BY <1>2 DEF Inv, VersionsBound
<1>7. /\ \A shown, missed, start : Covers(shown, missed, start) => Covers(shown, missed, start)'
      /\ \A e, start : Since(e, start) => Since(e, start)'
  BY <1>2, <1>3 DEF Covers, Since
<1>8. ViewIsCovered' /\ ViewIsBehind' /\ ReadersAreCovered'
  BY <1>7 DEF Inv, ViewIsCovered, ViewIsBehind, ReadersAreCovered
<1> QED BY <1>4, <1>5, <1>6, <1>8 DEF Inv

\* A save of the topic alone touches no entry.
LEMMA TouchTopicStep ==
  ASSUME Inv, TouchTopic
  PROVE  Inv'
<1>0. /\ used < MaxEvents /\ used' = used + 1 /\ now' = now + 1 /\ topic' = now + 1
      /\ now \in Nat /\ used \in Nat /\ MaxEvents \in Nat
      /\ UNCHANGED <<entries, view, queued, worker, writer, reader, died>>
  BY TypeParts DEF TouchTopic, Inv
<1>1. TypeOK'
  <2>1. now' \in Nat /\ now + 1 \in 0..now'
    BY <1>0
  <2> QED BY <1>0, <2>1, TypesGrow DEF Inv, TypeOK
<1>2. OneRuns'
  BY <1>0 DEF Inv, OneRuns, Running
<1>3. VersionsBound' /\ ViewIsCovered' /\ ViewIsBehind' /\ ReadersAreCovered'
  BY <1>0, EntriesKept, TypeParts DEF Inv, ViewIsCovered, ViewIsBehind, ReadersAreCovered
<1> QED BY <1>1, <1>2, <1>3 DEF Inv

-----------------------------------------------------------------------------
(* The readers.                                                            *)

\* What the view does not show a reader was updated since the view's job began.
LEMMA ReadStep ==
  ASSUME Inv, NEW r \in Readers, Read(r)
  PROVE  Inv'
<1> DEFINE short == {e \in Entries \ view.missed : view.shown[e] < entries[e].version}
           new == [at |-> "read", there |-> view.there, started |-> view.started,
                   updated |-> view.updated, short |-> short]
<1>0. /\ reader' = [reader EXCEPT ![r] = new] /\ now \in Nat /\ used \in Nat
      /\ UNCHANGED <<now, entries, topic, view, queued, worker, writer, used, died>>
  BY TypeParts DEF Read, Inv
<1>1. \A q \in Readers : reader'[q] = IF q = r THEN new ELSE reader[q]
  BY <1>0 DEF Inv, TypeOK
<1>2. TypeOK'
  <2>1. new \in Reads
    BY DEF Inv, TypeOK, Views, Reads
  <2>2. Jobs' = Jobs /\ Records' = Records /\ Views' = Views /\ Saves' = Saves /\ Reads' = Reads
    BY <1>0 DEF Jobs, Records, Views, Saves, Reads
  <2> QED BY <1>0, <2>1, <2>2 DEF Inv, TypeOK
<1>3. OneRuns'
  BY <1>0 DEF Inv, OneRuns, Running
<1>4. VersionsBound' /\ ViewIsCovered' /\ ViewIsBehind'
  BY <1>0, EntriesKept, TypeParts DEF Inv, ViewIsCovered, ViewIsBehind
<1>5. \A e \in short : entries[e].version > 0 /\ Since(e, view.started)
  BY TypeParts DEF Inv, ViewIsCovered, Covers, Since
<1> HIDE DEF short
<1>6. ReadersAreCovered'
  <2>2. ASSUME NEW q \in Readers, reader'[q].at = "read", NEW e \in reader'[q].short
        PROVE  entries[e].version > 0 /\ Since(e, reader'[q].started)
    <3>1. CASE q = r
      BY <1>1, <1>5, <2>2, <3>1
    <3>2. CASE q # r
      BY <1>1, <2>2, <3>2 DEF Inv, ReadersAreCovered
    <3> QED BY <3>1, <3>2
  <2>3. \A e, start : Since(e, start)' = Since(e, start)
    BY <1>0 DEF Since, Pending
  <2> QED BY <1>0, <2>2, <2>3 DEF ReadersAreCovered
<1> QED BY <1>2, <1>3, <1>4, <1>6 DEF Inv

\* An answer asks for the view at most.
LEMMA AnswerStep ==
  ASSUME Inv, NEW r \in Readers, Answer(r)
  PROVE  Inv'
<1>0. /\ queued' \in {queued, Enqueued} /\ reader' = [reader EXCEPT ![r] = NoRead]
      /\ now \in Nat /\ used \in Nat
      /\ UNCHANGED <<now, entries, topic, view, worker, writer, used, died>>
  BY TypeParts DEF Answer, Inv
<1>1. \A q \in Readers : reader'[q] = IF q = r THEN NoRead ELSE reader[q]
  BY <1>0 DEF Inv, TypeOK
<1>2. TypeOK'
  <2>1. NoRead \in Reads
    BY <1>0 DEF NoRead, Reads
  <2>2. Jobs' = Jobs /\ Records' = Records /\ Views' = Views /\ Saves' = Saves /\ Reads' = Reads
    BY <1>0 DEF Jobs, Records, Views, Saves, Reads
  <2> QED BY <1>0, <2>1, <2>2, EnqueueKept DEF Inv, TypeOK
<1>3. OneRuns'
  BY <1>0, EnqueueKept
<1>4. VersionsBound' /\ ViewIsCovered' /\ ViewIsBehind'
  BY <1>0, EntriesKept, TypeParts DEF Inv, ViewIsCovered, ViewIsBehind
<1>5. ReadersAreCovered'
  <2>1. \A e : Pending(e)' = Pending(e)
    BY <1>0 DEF Pending
  <2>2. \A q \in Readers : reader'[q].at = "read" => reader'[q] = reader[q]
    BY <1>1 DEF NoRead
  <2> QED BY <1>0, <2>1, <2>2 DEF Inv, ReadersAreCovered, Since
<1> QED BY <1>2, <1>3, <1>4, <1>5 DEF Inv

-----------------------------------------------------------------------------
(* The theorems.                                                           *)

\* At first nothing is shown, saved or read.
LEMMA InitInv == Init => Inv
<1> SUFFICES ASSUME Init PROVE Inv
  OBVIOUS
<1>0. /\ now = 2 /\ topic = 0 /\ queued = 0 /\ used = 0 /\ died = FALSE
      /\ entries = [e \in Entries |-> [version |-> 0, updated |-> 0]]
      /\ worker = [w \in Workers |-> NoJob] /\ writer = [c \in Writers |-> NoSave]
      /\ reader = [r \in Readers |-> NoRead] /\ MaxEvents \in Nat
  BY MaxEventsAssumption DEF Init
<1>1. /\ view.shown = [e \in Entries |-> 0] /\ view.missed = {} /\ view.started \in 0..2
      /\ view.updated \in 0..2 /\ view.there \in BOOLEAN
  <2>1. CASE view = NoView
    BY <2>1 DEF NoView
  <2>2. CASE view = [NoView EXCEPT !.there = TRUE, !.started = 1, !.updated = 2]
    BY <2>2 DEF NoView
  <2> QED BY <2>1, <2>2 DEF Init
<1>2. TypeOK
  <2>1. NoView \in Views
    BY <1>0 DEF NoView, Views, Shown
  <2>2. 0 \in 0..now /\ 1 \in 0..now /\ 2 \in 0..now
    BY <1>0
  <2>3. [there |-> TRUE, shown |-> NoView.shown, missed |-> {}, started |-> 1, updated |-> 2] \in Views
    <3>1. NoView.shown \in Shown
      BY <1>0 DEF NoView, Shown
    <3> QED BY <2>2, <3>1 DEF Views
  <2>4. ASSUME view = [NoView EXCEPT !.there = TRUE, !.started = 1, !.updated = 2]
        PROVE  view = [there |-> TRUE, shown |-> NoView.shown, missed |-> {}, started |-> 1,
                       updated |-> 2]
    BY <2>4, Zenon DEF NoView
  <2>5. view \in Views
    BY <2>1, <2>3, <2>4 DEF Init
  <2>6. NoJob \in Jobs /\ NoSave \in Saves /\ NoRead \in Reads
    BY <1>0 DEF NoJob, NoSave, NoRead, Jobs, Saves, Reads, Shown
  <2>7. entries \in [Entries -> Records]
    BY <1>0, <2>2 DEF Records
  <2>8. worker \in [Workers -> Jobs] /\ writer \in [Writers -> Saves] /\ reader \in [Readers -> Reads]
    BY <1>0, <2>6
  <2>9. now \in Nat /\ topic \in 0..now /\ queued \in 0..2 /\ used \in 0..MaxEvents
    BY <1>0
  <2>10. died \in BOOLEAN
    BY <1>0
  <2> QED BY <2>5, <2>7, <2>8, <2>9, <2>10, Zenon DEF TypeOK
<1>3. \A e : Pending(e) = {}
  BY <1>0 DEF Pending, NoSave
<1>4. VersionsBound
  <2>1. Cardinality({}) = 0
    BY FS_EmptySet
  <2>2. \A e \in Entries : entries[e].version = 0
    BY <1>0
  <2> QED BY <1>0, <1>3, <2>1, <2>2 DEF VersionsBound
<1>5. OneRuns /\ ReadersAreCovered
  BY <1>0 DEF OneRuns, Running, NoJob, ReadersAreCovered, NoRead
<1>6. ViewIsCovered /\ ViewIsBehind
  BY <1>0, <1>1, <1>3 DEF ViewIsCovered, ViewIsBehind, Covers, NoJob
<1> QED BY <1>2, <1>4, <1>5, <1>6 DEF Inv

\* Each action keeps the invariant.
LEMMA NextInv == Inv /\ [Next]_vars => Inv'
<1> SUFFICES ASSUME Inv, [Next]_vars PROVE Inv'
  OBVIOUS
<1>1. ASSUME NEW w \in Workers, Start(w) \/ Build(w) \/ Save(w) \/ Fail(w)
      PROVE  Inv'
  BY <1>1, StartStep, BuildStep, SaveStep, FailStep
<1>2. ASSUME NEW c \in Writers, NEW e \in Entries, SaveEntry(c, e)
      PROVE  Inv'
  BY <1>2, SaveEntryStep
<1>3. ASSUME NEW c \in Writers, Commit(c) \/ AfterCommit(c) \/ DieAfterCommit(c)
      PROVE  Inv'
  <2>1. CASE AfterCommit(c)
    <3>1. died' \in BOOLEAN
      BY <2>1 DEF AfterCommit, Inv, TypeOK
    <3> QED BY <2>1, <3>1, WriterEnds DEF AfterCommit
  <2>2. CASE DieAfterCommit(c)
    BY <2>2, WriterEnds DEF DieAfterCommit
  <2> QED BY <1>3, <2>1, <2>2, CommitStep
<1>4. ASSUME NEW r \in Readers, Read(r) \/ Answer(r)
      PROVE  Inv'
  BY <1>4, ReadStep, AnswerStep
<1>5. CASE UNCHANGED vars
  <2>1. /\ Jobs' = Jobs /\ Records' = Records /\ Views' = Views /\ Saves' = Saves
        /\ Reads' = Reads /\ Running' = Running /\ \A e : Pending(e)' = Pending(e)
    BY <1>5 DEF vars, Jobs, Records, Views, Saves, Reads, Running, Pending
  <2>2. TypeOK' /\ OneRuns' /\ VersionsBound'
    BY <1>5, <2>1 DEF vars, Inv, TypeOK, OneRuns, VersionsBound
  <2>3. ViewIsCovered' /\ ViewIsBehind' /\ ReadersAreCovered'
    BY <1>5, <2>1 DEF vars, Inv, ViewIsCovered, ViewIsBehind, ReadersAreCovered, Covers, Since
  <2> QED BY <2>2, <2>3 DEF Inv
<1> QED BY <1>1, <1>2, <1>3, <1>4, <1>5, TouchTopicStep DEF Next

\* The invariant is inductive.
THEOREM Invariance == Spec => []Inv
<1> QED BY InitInv, NextInv, PTL DEF Spec

\* Types: no entry has more versions than it was saved, no job of the singleton
\* waits behind more than one other, and no time is later than the last read.
THEOREM DiscussionTypeOK == Spec => []TypeOK
<1>1. Inv => TypeOK
  BY DEF Inv
<1> QED BY <1>1, Invariance, PTL

\* One job of the strand runs, so that no job saves over the work of one that
\* began later, a retried one included (materialized_view.rb:94-95).
THEOREM ViewNeverLoses == Spec => ViewGoesForward
<1>1. ASSUME Inv, [Next]_vars, NEW e \in Entries
      PROVE  view'.shown[e] >= view.shown[e]
  <2>1. view.shown[e] \in Nat
    BY <1>1, TypeParts DEF Inv
  <2>2. ASSUME NEW w \in Workers, Save(w)
        PROVE  view'.shown[e] >= view.shown[e]
    <3>1. worker[w].at = "built" /\ view'.shown = worker[w].shown
      BY <2>2 DEF Save
    <3>2. view.shown[e] <= worker[w].shown[e] /\ worker[w].shown[e] \in Nat
      BY <1>1, <3>1, TypeParts DEF Inv, ViewIsBehind
    <3> QED BY <2>1, <3>1, <3>2
  <2>3. view' = view \/ \E w \in Workers : Save(w)
    BY <1>1 DEF Next, vars, Start, Build, Fail, SaveEntry, Commit, AfterCommit, DieAfterCommit,
       TouchTopic, Read, Answer
  <2> QED BY <2>1, <2>2, <2>3
<1>2. Inv /\ [Next]_vars => [\A e \in Entries : view'.shown[e] >= view.shown[e]]_vars
  BY <1>1
<1> QED BY <1>2, Invariance, PTL DEF Spec, ViewGoesForward

\* Who asks for the view with the new entries gets each entry committed before
\* the request, in the view or beside it, except those that the view's job
\* missed (materialized_view.rb:59-60).
THEOREM AnswersAreComplete == Spec => AnswerIsComplete
<1>1. ASSUME Inv, NEW r \in Readers, reader[r].at = "read"
      PROVE  reader[r].short \subseteq NewEntries(r)
  BY <1>1, TypeParts DEF Inv, ReadersAreCovered, Since, NewEntries
<1>2. Inv /\ [Next]_vars =>
        [\A r \in Readers : reader[r].at = "read" /\ reader'[r] = NoRead /\ reader[r].there
           => reader[r].short \subseteq NewEntries(r)]_vars
  BY <1>1
<1> QED BY <1>2, Invariance, PTL DEF Spec, AnswerIsComplete
=============================================================================
