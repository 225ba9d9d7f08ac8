---------------------------- MODULE DiscussionView ----------------------------
(***************************************************************************)
(* The materialized view of a discussion: entries are saved and deleted,   *)
(* a singleton job builds the view again, and readers are served the view  *)
(* together with the entries updated since (materialized_view.rb,          *)
(* discussion_entry.rb, discussion_topic.rb).  A time is read when a       *)
(* record is saved; others see the record when its transaction commits.    *)
(* The queue of jobs is the singleton of DelayedJobs: one job of the       *)
(* strand runs, and an enqueue adds none to one that waits.                *)
(***************************************************************************)
EXTENDS Naturals, FiniteSets

CONSTANTS
  Entries, Writers, Readers, Workers,
  MaxEvents   \* bound on saves of entries and of the topic and failures of jobs

ASSUME MaxEventsAssumption == MaxEvents \in Nat
ASSUME WritersAssumption == IsFiniteSet(Writers)

VARIABLES
  now,      \* the last time that was read; no two times are equal
  entries,  \* version and updated_at of each entry, as committed
  topic,    \* updated_at of the topic
  view,     \* the row of the view: what its JSON shows, and its times
  queued,   \* jobs of the singleton that wait
  worker, writer, reader,   \* what each process is doing
  used,     \* how many of the bounded events there were
  died      \* history: a writer died between its commit and its enqueue

vars == <<now, entries, topic, view, queued, worker, writer, reader, used, died>>

Shown == [Entries -> 0..MaxEvents]

NoView == [there |-> FALSE, shown |-> [e \in Entries |-> 0], missed |-> {},
           started |-> 0, updated |-> 0]
NoJob  == [at |-> "idle", started |-> 0, shown |-> [e \in Entries |-> 0], missed |-> {}]
NoSave == [at |-> "idle", entry |-> {}, time |-> 0]
NoRead == [at |-> "idle", there |-> FALSE, started |-> 0, updated |-> 0, short |-> {}]

Records == [version : 0..MaxEvents, updated : 0..now]
Views == [there : BOOLEAN, shown : Shown, missed : SUBSET Entries,
          started : 0..now, updated : 0..now]
Jobs  == [at : {"idle", "started", "built"}, started : 0..now, shown : Shown,
          missed : SUBSET Entries]
Saves == [at : {"idle", "saved", "committed"}, entry : {{}} \cup {{e} : e \in Entries},
          time : 0..now]
Reads == [at : {"idle", "read"}, there : BOOLEAN, started : 0..now, updated : 0..now,
          short : SUBSET Entries]

TypeOK ==
  /\ now \in Nat
  /\ entries \in [Entries -> Records]
  /\ topic \in 0..now
  /\ view \in Views
  /\ queued \in 0..2
  /\ worker \in [Workers -> Jobs]
  /\ writer \in [Writers -> Saves]
  /\ reader \in [Readers -> Reads]
  /\ used \in 0..MaxEvents
  /\ died \in BOOLEAN

\* The view of a topic made before there were views is not there; a new topic's
\* is built with it.
Init ==
  /\ now = 2
  /\ entries = [e \in Entries |-> [version |-> 0, updated |-> 0]]
  /\ topic = 0
  /\ view \in {NoView, [NoView EXCEPT !.there = TRUE, !.started = 1, !.updated = 2]}
  /\ queued = 0
  /\ worker = [w \in Workers |-> NoJob]
  /\ writer = [c \in Writers |-> NoSave]
  /\ reader = [r \in Readers |-> NoRead]
  /\ used = 0
  /\ died = FALSE

Running == {w \in Workers : worker[w].at # "idle"}

Versions == [e \in Entries |-> entries[e].version]

-----------------------------------------------------------------------------
(* The singleton job.                                                      *)

\* Mutant: a job that runs is enough.
EnqueuedOnce == IF queued > 0 \/ Running # {} THEN queued ELSE 1

\* A job that runs has read the entries already, perhaps: only one that waits
\* makes another unnecessary.
Enqueued == IF queued > 0 THEN queued ELSE 1

\* Mutant: the strand's next job does not wait.
StrandFreely == TRUE

StrandIsFree == Running = {}

Start(w) ==
  /\ queued > 0
  /\ worker[w].at = "idle"
  /\ StrandIsFree
  /\ queued' = queued - 1
  /\ now' = now + 1
  /\ worker' = [worker EXCEPT ![w] = [@ EXCEPT !.at = "started", !.started = now + 1]]
  /\ UNCHANGED <<entries, topic, view, writer, reader, used, died>>

\* missed, a history: the entries saved before the job began and not committed yet.
Build(w) ==
  LET open == {c \in Writers : writer[c].at = "saved" /\ writer[c].time < worker[w].started} IN
  /\ worker[w].at = "started"
  /\ worker' = [worker EXCEPT ![w] = [@ EXCEPT !.at = "built", !.shown = Versions,
                                        !.missed = UNION {writer[c].entry : c \in open}]]
  /\ UNCHANGED <<now, entries, topic, view, queued, writer, reader, used, died>>

\* Mutant: the time is read once the view was built.
SaveLate(w) ==
  /\ worker[w].at = "built"
  /\ now' = now + 1
  /\ view' = [there |-> TRUE, shown |-> worker[w].shown, missed |-> worker[w].missed,
              started |-> now + 1, updated |-> now + 1]
  /\ worker' = [worker EXCEPT ![w] = NoJob]
  /\ UNCHANGED <<entries, topic, queued, writer, reader, used, died>>

Save(w) ==
  /\ worker[w].at = "built"
  /\ now' = now + 1
  /\ view' = [there |-> TRUE, shown |-> worker[w].shown, missed |-> worker[w].missed,
              started |-> worker[w].started, updated |-> now + 1]
  /\ worker' = [worker EXCEPT ![w] = NoJob]
  /\ UNCHANGED <<entries, topic, queued, writer, reader, used, died>>

\* The job raises, or its worker dies: it is queued again.
Fail(w) ==
  /\ worker[w].at # "idle"
  /\ used < MaxEvents
  /\ used' = used + 1
  /\ worker' = [worker EXCEPT ![w] = NoJob]
  /\ queued' = queued + 1
  /\ UNCHANGED <<now, entries, topic, view, writer, reader, died>>

-----------------------------------------------------------------------------
(* Entries are created, edited and deleted.                                *)

SaveEntry(c, e) ==
  /\ writer[c].at = "idle"
  /\ used < MaxEvents
  /\ used' = used + 1
  /\ now' = now + 1
  /\ writer' = [writer EXCEPT ![c] = [at |-> "saved", entry |-> {e}, time |-> now + 1]]
  /\ UNCHANGED <<entries, topic, view, queued, worker, reader, died>>

\* Others see the entry and the topic, with the times that were read before.
Commit(c) ==
  /\ writer[c].at = "saved"
  /\ entries' = [e \in Entries |-> IF e \in writer[c].entry
                    THEN [version |-> entries[e].version + 1, updated |-> writer[c].time]
                    ELSE entries[e]]
  /\ topic' = writer[c].time
  /\ writer' = [writer EXCEPT ![c] = [NoSave EXCEPT !.at = "committed"]]
  /\ UNCHANGED <<now, view, queued, worker, reader, used, died>>

AfterCommit(c) ==
  /\ writer[c].at = "committed"
  /\ writer' = [writer EXCEPT ![c] = NoSave]
  /\ queued' = Enqueued
  /\ UNCHANGED <<now, entries, topic, view, worker, reader, used, died>>

\* The process dies, or a callback before this one raises.
DieAfterCommit(c) ==
  /\ writer[c].at = "committed"
  /\ writer' = [writer EXCEPT ![c] = NoSave]
  /\ died' = TRUE
  /\ UNCHANGED <<now, entries, topic, view, queued, worker, reader, used>>

\* The topic is saved for a reason of its own.
TouchTopic ==
  /\ used < MaxEvents
  /\ used' = used + 1
  /\ now' = now + 1
  /\ topic' = now + 1
  /\ UNCHANGED <<entries, view, queued, worker, writer, reader, died>>

-----------------------------------------------------------------------------
(* Readers.                                                                *)

\* short, a history: the entries that are there and that the view does not show
\* as they are.
Read(r) ==
  /\ reader[r].at = "idle"
  /\ reader' = [reader EXCEPT ![r] =
       [at |-> "read", there |-> view.there, started |-> view.started,
        updated |-> view.updated,
        short |-> {e \in Entries \ view.missed : view.shown[e] < entries[e].version}]]
  /\ UNCHANGED <<now, entries, topic, view, queued, worker, writer, used, died>>

UpToDate(r) == reader[r].there /\ reader[r].updated >= topic

NewEntries(r) == {e \in Entries : /\ entries[e].version > 0
                                  /\ entries[e].updated >= reader[r].started}

Answer(r) ==
  /\ reader[r].at = "read"
  /\ queued' = IF UpToDate(r) THEN queued ELSE Enqueued
  /\ reader' = [reader EXCEPT ![r] = NoRead]
  /\ UNCHANGED <<now, entries, topic, view, worker, writer, used, died>>

-----------------------------------------------------------------------------
Next ==
  \/ \E w \in Workers : Start(w) \/ Build(w) \/ Save(w) \/ Fail(w)
  \/ \E c \in Writers : \/ \E e \in Entries : SaveEntry(c, e)
                        \/ Commit(c) \/ AfterCommit(c) \/ DieAfterCommit(c)
  \/ TouchTopic
  \/ \E r \in Readers : Read(r) \/ Answer(r)

Spec == Init /\ [][Next]_vars

\* Jobs are run and requests that were begun are finished.
LiveSpec ==
  /\ Spec
  /\ WF_vars(\E w \in Workers : Start(w))
  /\ \A w \in Workers : WF_vars(Build(w) \/ Save(w))
  /\ \A c \in Writers : WF_vars(Commit(c) \/ AfterCommit(c) \/ DieAfterCommit(c))
  /\ \A r \in Readers : WF_vars(Answer(r))

-----------------------------------------------------------------------------
(* Properties.                                                             *)

\* Who asks for the view with the new entries gets each entry committed before
\* the request, in the view or beside it, however old the view is and whatever
\* job replaces it meanwhile; except one that was saved before that view's job
\* began and committed after it had read the entries (materialized_view.rb:59-60).
AnswerIsComplete ==
  [][\A r \in Readers : reader[r].at = "read" /\ reader'[r] = NoRead /\ reader[r].there
       => reader[r].short \subseteq NewEntries(r)]_vars

\* The view does not lose what it showed: no job saves over the work of one
\* that began later, a retried one included (materialized_view.rb:94-95).
ViewGoesForward == [][\A e \in Entries : view'.shown[e] >= view.shown[e]]_vars

\* What was committed is in the view some time, although enqueues are merged
\* with jobs that wait and jobs fail, unless a writer died before its enqueue
\* (discussion_topic.rb:892-893).
EventuallyShown ==
  \A e \in Entries, v \in 1..MaxEvents :
    entries[e].version >= v ~> view.shown[e] >= v \/ died
=============================================================================
