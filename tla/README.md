# Verification of Tarrax

Tarrax is a fork of Canvas LMS (Ruby on Rails 2.3) with parts of its own for
case studies, learning plans and page themes. This directory holds TLA+
modules translated from its source, TLC configurations that check them on small
instances, and theorems about them that TLAPS proves for every value of the
constants. Paths below are relative to the repository's root; `delayed_job`
stands for `vendor/plugins/delayed_job/lib/delayed`.

## The system

| part | state it keeps | operations | who calls it |
|---|---|---|---|
| job queue, ActiveRecord backend (`delayed_job/backend/active_record.rb`, `base.rb`, migrations `20110831210257`, `20120607164022`) | table `delayed_jobs` (`strand`, `next_in_strand`, `locked_by`, `locked_at`, `attempts`, `run_at`), table `failed_jobs`, two triggers | enqueue, create_singleton, find, lock, destroy, reschedule, fail!, clear_locks!, unlock_expired_jobs, bulk_update | every model that defers work; workers; the pool; the jobs page |
| worker (`delayed_job/worker.rb`) | its process, a copy of the row it works on | run, perform, handle_failed_job, exit | forked by the pool |
| pool (`delayed_job/pool.rb`) | its children | start, sweep of orphaned jobs, spawn, wait, audit | the operator |
| periodic jobs (`delayed_job/periodic.rb`, `config/periodic_jobs.rb`) | one singleton row per periodic job | enqueue, perform, audit | workers, the pool's auditor |
| batches (`delayed_job/batch.rb`, `worker.rb:149`) | a row whose payload is a list of jobs | serial_batch, perform_batch | notifications |
| job queue, Redis backend (`delayed_job/backend/redis`) | sorted sets per queue, a list per strand, a hash per job | Lua scripts with the same names | non-production alternative |
| quizzes on the server (`app/models/quiz_submission.rb`, `quiz.rb`, `quiz_submissions_controller.rb`, `quizzes_controller.rb`) | a row per student with attempt, answers, score, kept score, `workflow_state`; a version per graded attempt | start, autosave, submit, grade, extend, change scores | students, teachers, and whoever looks at a quiz that needs grading |
| quizzes on the page (`public/javascripts/take_quiz.js`) | flags, timers and the countdown of the page, saves under way, the end it knows | save after a change, every half minute and on leaving; submit by hand and when time is up | the student; the clock |
| uploads of the files page (`public/javascripts/full_files.js`, `public/flash/uploadify`) | two queues, calls under way, the status bar | preflight, upload by AJAX, upload by the plug-in, cancel | the student; the plug-in's events |
| discussions (`app/models/discussion_entry.rb`, `discussion_topic.rb`, `discussion_topic/materialized_view.rb`) | entries, the time of the last change, the rendered view with the times its build began and was saved | save an entry, rebuild, read | requests; a singleton job |
| context modules (`context_module.rb`, `context_module_progression.rb`) | a progression per student and module, cached | evaluate, update on actions | submissions, page views |
| appointments (`app/models/appointment_group.rb`, `calendar_event.rb`, `enrollment.rb`) | slots and their states, reservations, limits, cached availability | reserve, swap, cancel, delete a slot or a group, conclude an enrollment, change a limit | students, teachers |
| grades (`lib/grade_calculator.rb`) | computed scores on enrollments | recompute | jobs after grading |
| assignment dates (`lib/assignment_override_applicator.rb`) | overrides, cached results | collapse overrides | every reader of due dates |
| submissions, assignments, enrollments, courses, groups | `workflow_state` and counters | workflow events | users |
| case study (`case_issue.rb`, `case_solution.rb`, `case_tpl.rb`, `knowledge.rb`) | `workflow_state` of issues and solutions, the knowledge base | submit, review, accept, recommend | students, teachers |
| learning plans (`learning_plan.rb`) | plan, its courses and users | publish, enroll, revert | account administrators |
| messages (`message.rb`, `lib/message_dispatcher.rb`) | message states | stage, dispatch in batches, retry | broadcast policies, periodic jobs |
| SIS import, content migration, conversations, files on the server, settings, permissions, controllers, page builder | see `PROJECT.json`, `components` | | |

The parts share the database and call one another through ActiveRecord
callbacks. What is concurrent meets in the job queue: Rails processes enqueue in
the middle of their transactions, a pool of worker processes per host performs
the jobs, each process with its own stale copies of rows, and any of them may be
killed. Most of the parts rely on it for order (strands), for doing something
once although it is asked for often (singletons) and for doing it at all.

What is hard there: the gap between finding and locking a job; copies of rows
written back later; a worker that dies while it holds a job; a sweep that runs
while workers come and go; triggers that must hand a strand on exactly once;
periodic jobs that re-enqueue themselves; the administrator's bulk operations on
jobs that are being performed. Most web requests take no locks: each reads a row,
works on its copy and writes back, so the requests of a student in two tabs and of a
teacher meet in the row, and any may be killed half way. Reservations do lock rows,
so they wait for one another, in circles at times, and objects read before a wait are
stale after it. Times are read when a record is saved and seen when it commits. In the pages it is the
callbacks: handlers run one at a time, but the answers of calls, timers,
animations, dialogs and the user's clicks come in any order. `PROJECT.json` lists
each hazard at its line.

What makes each part correct:

- job queue: one worker per job, one job per strand at a time, oldest first; a
  request on a singleton is followed by a performance; no lock is forgotten;
  retries end; every job leaves. Checked here.
- Redis backend: the same promise (`StrandQueue`) from different data.
- batches: every item is performed or retried as a job of its own, none is lost
  when the batch fails half way, and while nothing but the jobs fails none is
  performed again after it returned. Checked here.
- quizzes: every attempt is graded and recorded, what the row shows is what the
  newest version records, the kept score is that of the policy; the page saves in
  the order of the changes, sets the timer of the next save after each one, and
  submits itself when time is up. Checked here, where it does not hold too.
- uploads: one dropped file at a time and each gets its turn, a cancelled file is
  not uploaded, the bar shows what is under way. Checked here.
- discussions: a view served with its new entries has every entry; a change is
  always followed by a rebuild that shows it. Checked here, where it does not hold
  too.
- modules: a progression is completed exactly when its requirements are met, and
  unlocking is monotone along prerequisites.
- appointments: no slot and no participant over its limit, none twice in one slot;
  a slot is locked while it is reserved and gone once it is deleted. Checked here,
  where it does not hold too.
- grades, dates: the drop rules and the override rules agree with their
  declarative definitions.
- case study, learning plans: an accepted solution reaches the knowledge base
  once; publishing and reverting a plan leave the enrollments it should.

## Modules

| module | what it is |
|---|---|
| `StrandQueue` | the promise of the queue to those who enqueue: jobs in order of creation, a job is started from the head of its strand only, keeps its place when interrupted, and is removed when completed or given up |
| `DelayedJobs` | the ActiveRecord backend on PostgreSQL with its workers, pool, periodic jobs and administrator; the properties; the refinement mapping to `StrandQueue` |
| `MCDelayedJobs` | TLC instance: symmetry, view, and the specification with holds |
| `JobRetries` | the queue in operation with history variables: the failures of each job, and the jobs that were locked from an old copy; `MCJobRetries` is its TLC instance |
| `JobBatches` | batches of jobs: the block that collects them, the worker that performs them item by item, and what becomes of items when either fails; `MCJobBatches` is its TLC instance |
| `TakeQuiz` | the page of a timed quiz and the requests it makes, with the server's handlers as single steps |
| `QuizAttempts` | one student's row of `quiz_submissions` and its versions, under concurrent requests, statement by statement |
| `FileUploads` | the uploads of the files page and their status bar |
| `Appointments` | the slots and reservations of one appointment group under concurrent requests, row lock by row lock; `MCAppointments` is its TLC instance |
| `DiscussionView` | the materialized view of a discussion between writers, the singleton job and readers |
| `StrandQueueProofs` | theorem about the promise alone |
| `DelayedJobsProofs` | theorems about the queue: types and the order of strands in the whole specification; the bound on singletons without holds; who owns a locked row, the refinement of `StrandQueue`, and the count of failures in operation |
| `JobBatchesProofs` | theorems about batches: types, no item is lost; once per item and in order while only jobs fail |
| `AppointmentsProofs` | theorems about the reservations of a group: all safety and action properties of `Appointments` |
| `DiscussionViewProofs` | theorems about the view of a discussion: it never loses an entry, and an answer is complete |
| `FileUploadsProofs` | theorems about the uploads and their bar |
| `QuizAttemptsProofs` | theorems about the grading of attempts, whichever requests overlap and are killed |
| `TakeQuizProofs` | theorems about the saves and the submission of the quiz page |

### State and steps of `DelayedJobs`

`table` and `row` are the `delayed_jobs` table: `row[i].next` is
`next_in_strand`, `row[i].by` is `locked_by` (`Nobody` when `locked_at` is null,
`OnHold` for `'on hold'`), `row[i].due` says that `run_at` has passed and
`row[i].old` that `locked_at` is older than `max_run_time`. Real time is
abstracted to those two flags becoming true. `nextId` is the id sequence,
`failed` the `failed_jobs` table. `proc[p]` is a worker process: where it is in
`Worker#run`, the job it has in hand, and the `attempts` of its copy of the row,
which is what `reschedule` increments and writes. `pool` is the pool process and
the copies its sweep is going through. `asked` is a history variable for
`RequestKept`.

One step is one SQL statement with its triggers, or one transaction that holds
the strand's advisory lock: insert, `create_singleton` and the hand-over in the
delete trigger take `pg_advisory_xact_lock` on the same key, so they exclude each
other per strand, and the trigger's own statement reads what was committed
before it got the lock. Between statements every process keeps what it read.
`Find` (the query) and `Lock` (the UPDATE) are separate steps, with everything
else possible in between; a worker that takes one of the five rows its query
returned after failing on others is a worker that found that row early. Priority,
queue, `run_at` order and random selection decide which ready row is tried:
a free choice here.

`Crash(p)` kills a worker anywhere. A child of the running pool becomes a
`zombie` until `Reap` (`Process.wait`) reads the rows locked by its pid into a
sweep, whose rounds (`SweepOne`) reschedule each row from the copy. `PoolStart`
is the sweep at startup, which asks the operating system whether the owner of
each lock is alive; a zombie answers that it is. A worker whose pool is gone
leaves at its next `exit?` test. `Abort` is the `rescue` of `Worker#start`.
`Perform` is `invoke_job` with its outcome; on the strand of a periodic job it
also re-enqueues, or fails to and swallows the error.

Groups of actions: `CoreNext` is the queue in operation, failures of jobs and
workers included. `NoHoldNext` adds the death of the pool, expiry of locks, and
bulk destroy. `Next` adds bulk hold and unhold.

### State and steps of `JobBatches`

`caller` is the process inside `serial_batch`: whether it is in the block or in
the `ensure` clause, and the jobs it has collected per set of enqueue arguments
(`Groups`). A row carries the list of its jobs; a row with more than one is a
batch, and a batch of one job is enqueued as that job (`batch.rb:42-52`).
`proc[p]` holds two objects, as the nested calls of `Worker#perform` do: the
batch with the position reached in it, and the job being invoked, which is an
item of the batch or a job of its own. `done`, `tried`, `dropped` and `refused`
are history: how often an item has returned, whether it was ever invoked, whether
it was given up, whether the enqueue of its batch raised before the caller.

`Flush` enqueues one batch, so an enqueue can raise between two of them
(`FlushRaises`). `CreateAndLock` inserts the row of the next item, locked by its
worker. `Invoke` has the two outcomes of a job; `Complete`, `DestroyRaises`,
`HandleFailedJob` and `HandlingRaises` are the ways `perform` goes on from them.
The last one leaves `perform_batch` with an error, so that the batch is retried
(`HandleFailedBatch`) while the item's row stays locked or, when it was `fail!`
that raised, is gone. A batch counts its own attempts, and a retry starts it from
its first item.

Only jobs without a strand are batched (`backend/base.rb:58`), so strands and
singletons are left out. To find a job and to lock it is one step, since what
happens in between is the subject of `DelayedJobs`; restarts of the pool are left
to it too. `CoreNext` is the batch in operation, where jobs raise and nothing
else goes wrong; `Next` adds dying workers, errors of the database and expiry of
locks.

### State and steps of `TakeQuiz`

`page` is the object `quizSubmission` with what the closures around it hold:
`submitting`, `currentlyBackingUp`, whether the last save is under a second ago,
the next `updateSubmission(true)`, the dialog and its countdown, the form's action.
One handler is one step, as JavaScript runs them. A save under way is in `calls`
until its callback runs; one that timed out, or whose page has gone, is in `lost`
and may still reach the server, or not. `posts` are submissions the server has not
processed. `row` is the row with the newest answers; the handlers of
`quiz_submissions_controller.rb` are single steps here, since how they interleave
is the subject of `QuizAttempts`. Answers are the number of changes, which is what
it takes to tell newer from older.

`Change`, `ClickButton` and `BeforeUnload` are the student; the last two save,
as the code does, with `Skips` deciding whether. `TimesUp`, `CountdownSubmits` and
`CloseDialog` are `updateTime` and the dialog. `Extend` is a teacher who moves the
end, which the page learns from the answer of its next save.

### State and steps of `QuizAttempts`

`row` is the row; `versions` the versions that grading appends; `req` the set of
requests that have read the row and not finished, each with its copy. An UPDATE
writes the columns that differ from the copy, and `submission_data` always, because
it is serialized (`Written`). `Save` includes the callback that grades a
completed attempt which still has its answers and sets `kept_score`. Answers are
the points they are worth. `row.late` says how far the end has passed: each of
`overdue?`, `overdue?(true)` and `extendable?` has its own margin.

`create` commits twice (`MarkCompleted`, `GradeSubmission`), `start_quiz!` three
times (`FindOrCreate`, `Retake`, `Generate`), `extensions` twice, `update` twice
with a reload between; `Kill` ends a request before any of them. A version and the
row it belongs to are committed in one transaction (`Grade`). Taken as one read
are the row a controller decides on and the copy `find_or_create_submission` reads
right after; time is judged on the copy as it was read. The model begins after
the first start of the quiz.

`Together` says which kinds may be under way at once, `Killed` which may be killed:
bounds of the instance, of which the theorems need nothing. The code takes no lock and
tests no version of the row, so what overlaps may do harm, and the history variables say
when it did. `fresh` holds the requests whose copy nobody has written over. `harm` gets
`"lost"` when a request writes from another copy, and `"torn"` when a request that is
`Midway`, between two writes that belong together, is killed or written over. The
autosave's UPDATE by SQL works from no copy and does neither to others. The properties
except these histories where they must; below it says what goes wrong in them.

### State and steps of `FileUploads`

`ajax` is the queue of dropped files, `currentlyUploading`, the calls and the
half-second timers under way (numbers, so that a second chain could show);
`swf` is `swfPreQueued`, `swfFiles` and the timer of `swfFileQueueOnce`;
`swfQueuedAndPendingFiles` is empty between handlers. `flash` is the plug-in seen
from the page: the files it holds, those it was told to start, and the events of
cancelled files to come, which reach both `swfCancel` and `swfFileError`. `calls`
are requests to `/files/pending` and `success_url`, `rows` the rows of the list,
`bar` is `status_status` and `status_request`. There is one dialog of duplicates,
and its buttons belong to whoever bound them last. Whether an errored row is
visible, which depends on the list being open, is free in `UpdateUploadCount`.

### State and steps of `Appointments`

`slot` and `limit` are the columns `workflow_state` and `participants_per_appointment`
of the group's slots, `rows` the reservations, their child events, and `open` says
that the group is published and not deleted. `req[q]` is the transaction of a server
process: its next step, the rows it has taken (`held`), what it has written and not
committed (`gone`, `put`), and the state of the slot as its object has it (`seen`).

The database is PostgreSQL at READ COMMITTED. A statement sees what was committed and
what its transaction wrote. `lock!`, `:lock => true` and every UPDATE take a row until
the transaction ends (`Take`), and others wait for it. One step takes one row; what
waits for nothing goes with the step before. `lock!` reloads the object (`LockSlot`).
`touch_context` updates the row of the event's owner: the student's for a reservation
(`TouchOwner`), the group's for a slot (`TouchGroup`). A circle of transactions that
wait is ended by rolling one back (`Deadlock`).

`reserve_for` is `StartReserve`, `LockSlot`, `LockParticipant`, with
`cancel_existing` `LockExisting` and `CancelExisting`, then `Reserve` or `Refuse`.
`destroy` of a reservation is `StartCancel`, `UpdateReservation`, `TouchOwner`,
`Unlock`; its slot was read by the test of the permission, before the transaction.
`destroy` of a slot is `StartDelete`, `DeleteSlot`, `TouchGroup`, `DeleteChild`. A
group's reads its slots and their reservations in `update_cached_values` before it
is saved (`StartDrop`), and then deletes these, in any order here (`DropGroup`,
`DeleteSlot`, `DeleteChild`). `StartConclude` and `SweepRow` are the one UPDATE of
`cancel_future_appointments`, which unlocks no slot. `ChangeLimit` is one step. The
permission to reserve does not ask for the slot's state, so any slot may be asked for.

### State and steps of `DiscussionView`

`entries` and `topic` are what is committed: a version and `updated_at` per entry, the
topic's `updated_at`. `view` is the row of the view, what its JSON shows, and its times
`generation_started_at` and `updated_at`. `now` counts the times that were read, on
one clock. `queued` and `Running` are the singleton as `DelayedJobs` has it: a job runs
alone on its strand, and an enqueue finds one that waits or adds one. A failed job is
queued again, so that two may wait; the model stops failing it before it would be given
up.

`SaveEntry` reads the times, `Commit` makes them seen, `AfterCommit` enqueues, unless
the writer dies (`DieAfterCommit`). `Start`, `Build` and `Save` are
`update_materialized_view`, with any other step between. `Read` and `Answer` are a
request for the view with its new entries: the row first, the topic and the entries
later. `missed`, `short` and `died` are history. `TouchTopic` is any other save of the topic. Views that were built before
`generation_started_at` existed are left out.

## Runs

| run | specification | instance | shows |
|---|---|---|---|
| `core` | `CoreSpec`, failures counted | 2 workers, one strand, one periodic singleton, 3 rows, 2 attempts | `OneAtATime`, `RequestKept`, `LocksAccountedFor`, `SingletonBound`, `FailuresBounded`: every failure and every sweep counts once; and that it implements `StrandQueue` |
| `strand_order` | `Spec` | 1 worker, one strand, 3 rows, 1 attempt | `TypeOK`, `NextIsOldest`, `LockedIsOldest` with every action enabled |
| `live_retry` | `LiveSpec` | 1 worker, 2 jobs, a strand and a periodic singleton, 2 attempts | `EveryJobLeaves` with retries |
| `held_while_running` | core and holds | 2 workers, 2 rows | violation of `OneAtATime` (finding) |
| `batch_core` | `JobBatches!CoreSpec` | 2 workers, 3 jobs, 4 rows, 2 attempts | `OncePerItem`, `InOrder`: a failing item is retried beside its batch, which goes on |
| `batch_kept` | `JobBatches!Spec` | 1 worker, 2 jobs, one with a single attempt, 4 rows, 2 attempts | `TypeOK`, `ItemsKept` with every action enabled |
| `batch_live` | `JobBatches!LiveSpec` | 1 worker, 2 jobs, 3 rows, 2 attempts | `EveryItemSettles` with workers killed and batches that raise |
| `take_quiz` | `TakeQuiz!LiveSpec` | 1 change, 1 post, a clock of 2 | `SubmittingMeansPosted`, `SavedForward`, `TimeUpEndsPage`, `AutosaveGoesOn` |
| `quiz_attempts` | `QuizAttempts!LiveSpec` | 2 requests, 2 attempts, 2 scores, 2 versions | `EveryAttemptGraded`, `ShownIsRecorded`, `KeptIsPolicy`, `GradedOnce`, `EndedIsGraded` |
| `file_uploads` | `FileUploads!LiveSpec` | 2 files in the plug-in, 2 dropped | `OneAjaxUpload`, `BarWhileUploading`, `DoneIsNotStarted`, `DropsAreUploaded`, `BarSettles` |
| `appointments` | `Appointments!Spec` | 2 processes, 2 slots, 2 students, limits 1 and 2, four mixes of requests | `TypeOK`, `OncePerSlot`, `GrowsWithinLimit`, `SwapKeepsPlace`; in the mixes where they hold `WithinMax`, `ReservedIsLocked`, `FreeIsUnlocked`, `DeletedStays` |
| `discussion_view` | `DiscussionView!LiveSpec` | 1 entry, 2 writers, 2 workers, a reader, 2 events | `AnswerIsComplete`, `ViewGoesForward`, `EventuallyShown` |

Bounds. Two workers are the least that compete, and every hazard of the list is
between two processes and perhaps the pool. Three rows are a strand with a
running job, its successor and one that could overtake, or a singleton with one
row more than it may have. Two attempts separate a retry from giving up.
`MaxId` bounds the sequence, so a behaviour ends with the table empty and no
more enqueues possible; the pool and its workers still run, so deadlock is
checked in every run of the queue. `SYMMETRY` over process ids and the `VIEW` (which drops
`failed`, never read, and the dead rows' columns except the strand; of the counts of
failures those that `FailuresBounded` does not read) are used for safety only. In
`live_retry` one worker at a time leaves out that workers compete for a job: with two
the graph is too large for a check of liveness. What competition can do to a job's state
is in `core`; that it could keep a job waiting for ever is excluded by the fairness
below, not shown.

A batch needs two items to be one; the third job of `batch_core` is enqueued
beside it or makes it longer. `Often` ends the counting of an item's returns at
two, where `OncePerItem` has already failed. `batch_kept` has a single worker,
which reaches every action; two workers on one batch after its lock has expired
are out of that run's size, and the theorem `NoItemLost` covers them. One of
its jobs has a single attempt (`Once`), so that giving up an item meets a batch
that still has attempts. Its view (`KeptView`) drops what no later step and no
property of the run reads: of rows that are gone all but the items, of the history
how often an item returned and what was tried. Four rows let a batch be retried
with a new row for an item; with three, in `batch_live`, a retried batch meets the
end of the sequence and is given up.

One change of an answer makes an older and a newer save; the clock's two steps let
an end pass, and let it be moved before and after. A page that went does not come
back, and a quiz that was submitted stays so, so `TakeQuiz` may stop and deadlock is
not checked; nor is it in `QuizAttempts` and `FileUploads`, where the bounds end the
attempts and the files. Two requests are one that reads and one that comes in
between: an autosave beside a request of any other kind, and a submission beside a view,
the pair that meets when an attempt ends (`Together`). Two attempts are one and the one
that begins on top of it, two scores a better and a worse one. A second dropped file waits
for the first or comes in the half second after it; two files in the plug-in let one
be cancelled while the other is in any other step.

Two processes make every race of appointments, one before and one after a row is
taken; two slots are needed for a swap and for a student's limit, two students for a
slot's; three reservations are a full slot and one that swaps or comes back. What is
asked for is a constant, `Mixes`, and the variable `mix` is one of them for good:
`Mixed` has everything but deleted groups and lets a student hold two places,
`Swapping` has a third reservation, `Deleting` and `Reserving` leave out
cancellations. Reservations are bounded and slots are not made again, so the instance
stops. In `discussion_view` an event is a save of an entry or of the topic or a failure
of the job (`MaxEvents`); readers, and the rebuilds they ask for, are not bounded, so
the two writes fall before, into and after builds. The view's columns say nothing
about more than one entry at once.

`TypeOK` is an invariant of the runs of the modules there are proofs about and of
`appointments`; in `TakeQuiz`, `QuizAttempts`, `FileUploads` and `DiscussionView` it says
what the variables are.

Where the properties stop. `OneAtATime`, `RequestKept` and `LocksAccountedFor`
are checked for the queue in operation. With a restart of the pool they fail in
the model, because the startup sweep of the new pool works from a copy of the
locked rows while workers of the old pool still finish and start jobs, and a
worker of the old pool that dies after that sweep has nobody to reap it; the
code relies on `unlock_expired_jobs` for the latter. With the expiry of a live
worker's lock a second worker takes the job by design.

`SingletonBound` is proved for `NoHoldSpec`, with restarts and expired locks, and
checked in `core`, which has neither. With holds it fails: a job on hold has
`locked_at` set, so `create_singleton` takes it for a running one and adds a row,
where its comment promises none beside a non-running job (`active_record.rb:275`).

The properties of `QuizAttempts` except what the code, which takes no lock, does not
prevent. With `"lost"` in `harm`: two submissions of one attempt, or a submission and a
view of an attempt that has just ended, both read it ungraded and both grade it
(`EveryAttemptGraded`, `GradedOnce`, `KeptIsPolicy`); a teacher's points saved from a copy
older than the student's next attempt overwrite it (`EveryAttemptGraded`,
`ShownIsRecorded`); an extension saves the whole copy, answers included. With `"torn"`: a start
that dies after the retake (below); an update of scores that dies, or is written over,
between the version and the row leaves the kept score as it was. `EveryAttemptGraded`
excepts lost updates only, `EndedIsGraded` torn requests only; it also lets go of an
attempt whose end a teacher has moved. Where a request finds the row as it read it
nothing is excepted, whatever else is under way: an autosave and the clock may come in
anywhere, of two requests that have read the row either may write, and any request may
be killed before its first write, or between marking and grading.

Four properties of appointments hold for some kinds of requests only, and name them:

- `ReservedIsLocked` fails with swaps. Who reserves the slot they hold once more, with
  `cancel_existing`, gives up the old place, which unlocks the slot in the database, while
  the object that `reserve_for` works on still says locked (`calendar_event.rb:393-415`).
  So it is not locked again, with a single process, against "should lock the appointment
  once it is reserved" (`spec/models/calendar_event_spec.rb:488`).
- `FreeIsUnlocked` fails with cancellations. Each of two at once still counts the other's
  reservation (`calendar_event.rb:287`), and the slot stays locked with every place free,
  against "should unlock the appointment when the last reservation is canceled"
  (`calendar_event_spec.rb:494`). A concluded enrollment never unlocks
  (`enrollment.rb:376-380`).
- `DeletedStays` fails with cancellations: one that waits while its slot is deleted writes
  `active` into it through `parent_event`, which it read before (`calendar_event.rb:288`).
- `WithinMax` counts the reservations in slots that are there, as the code does. With
  deletions and cancellations together a slot comes back, with a reservation the count
  had left out.

That no reservation is left in a deleted slot is no property: one that waits for the rows
of a group that is being deleted goes on in a deleted slot, since `reserve_for` does not
test the state it reloads, and the deletion knew nothing of it (`calendar_event.rb:393`,
`appointment_group.rb:360-362`). `GrowsWithinLimit` is about reservations that are added:
a teacher may set a limit below what is reserved.

`AnswerIsComplete` excepts the entries that were saved before a build began and committed
after it had read the entries: they are in neither list until the next build, although
"all the entries that have been created or updated since the view was generated" are
promised (`materialized_view.rb:59-60`). `EventuallyShown` excepts writers that die, or
whose earlier callback raises, between commit and enqueue: `up_to_date?` compares the
topic with the time the build was saved, not begun (`materialized_view.rb:50, 85-91`), so
when the entry was committed during a build no reader asks for another one, and it stays
out of the view until the topic changes again.

`FailuresBounded` excepts the jobs that were locked from an old copy (`stale`): a worker
that found a job before another one failed it, and locks it after its back-off, writes
back the `attempts` of its copy (`base.rb:132`, `active_record.rb:293-303`), and the job
fails one more time. A sweep never does, since its copies are true.

What `"torn"` excepts of a start: `retake` saves `untaken` at once, and the new attempt's
end and empty answers are saved after its questions are drawn (`quiz.rb:557, 603-622`). If
the process dies in between, the row is untaken with the end and the graded answers of
the last attempt, and the next view comes to grade them, which raises ("Can't grade an
already-submitted submission", `quiz_submission.rb:455`), as does every view after it. No
attempt is lost by it: `EveryAttemptGraded` holds with such starts.

`AutosaveGoesOn` says that the timer is set again after each save of the series. When it
fires it may find a reason to return, a save after a change under way or one less than a
second ago (`take_quiz.js:71-74`), and then it is not set again: the series ends, and the
next save is the one after the next change.

`GrowsWithinLimit` is about a slot's own limit. A slot without one has that of its group
(`calendar_event.rb:425-430`), whose row `reserve_for` does not hold when it counts; limits
of groups are left out.

### Fairness

`LiveSpec` assumes: a worker that can take its next step does, a pool that can
sweep or spawn does, a dead child is reaped again and again (strong, since the
pool is in and out of sweeps), time passes for each row; and for each job, if it
is ready again and again some worker finds it (no starvation by priorities, which
the code does not guarantee for low priority jobs under load), if it is found and
lockable again and again it is locked, if it is locked again and again it is
invoked, and if it is invoked again and again it is completed or marked failed
at some point: killed workers and database errors are not assumed absent, only
not to happen every time.

`LiveSpec` of `JobBatches` assumes: a block ends and its batches are enqueued; a
worker that is up takes its next step; dead workers are reaped and replaced; a
sweep goes on; time passes; and a job that is ready again and again is taken
in the end. Workers may be killed and batches may raise without limit in
between. `MaxId` would end the sequence in the middle of a batch: there
`create_and_lock!` and an enqueue can only raise.

In `TakeQuiz` timers fire, time passes, the browser ends a call after its five
seconds (`take_quiz.js:144`) and a post at some time; in `FileUploads` it ends every
AJAX upload and runs timers and animations. Nothing is assumed of students, teachers,
the plug-in or what the server receives. In `QuizAttempts` a request that is not
killed goes on, and `EndedIsGraded` further needs that somebody looks at the quiz
again and again (strong, as the request may find another one in its way) and is not
killed every time: no job grades attempts, so without a view nothing does.

In `DiscussionView` a job that waits is run, and a process that is not killed goes on.
Nobody has to save or to read.

### Findings

- `held_while_running`: `bulk_update` holds any job, also one being performed,
  by overwriting `locked_by`; `unhold` then clears it, and the job is given to a
  second worker while the first still performs it. The strand's other jobs stay
  where they are (`NextIsOldest` and `LockedIsOldest` hold even so): it is the
  same job twice.

## Proofs

`StrandQueueProofs` proves that the promise implies mutual exclusion on a
strand. The invariant: whatever runs is the head of its strand. Ids only grow, so
an enqueue never displaces a head.

`DelayedJobsProofs` begins with `Spec`, with every action, for any strands,
processes, limits and bound on the ids.

- `TypeCorrect`. `TypeOK` alone is not inductive: what a worker reschedules must
  be an id the sequence issued. `TypeInv` adds `JobInHand`.
- `StrandOrder` and `LockedOrder`. The inductive invariant `StrandInv` has four
  parts: `NextIsOldest`; `IdsIssued`, every id in the table or in a worker's hand
  is below the sequence, so an insert is the newest of its strand; `LockedIsNext`;
  and `CandidateIsNext`, the row a worker is about to lock, if it is still there,
  is next. The last one is the reason that `lock_exclusively!` need not test the
  strand again: nothing ever resets `next_in_strand`, so a row that was next when
  it was found stays next until it is deleted. The proof goes by the kinds of
  change to the table (insert, delete, update of other columns), each a lemma
  (`InsertKeeps`, `DeleteKeeps`, `UpdateKeeps`) that yields `TableKept`; the steps
  of processes then cite these. `DeleteKeeps` needs that a non-empty set of ids
  has a least element (`SmallestNat`).

For `CoreSpec`, the queue in operation, the invariant `CoreInv` adds to the above:

- `Owns`: a worker that performs a job has locked its row. With `LockedIsNext` and
  `NextIsOldest` this is `OneAtATime` (`MutualExclusion`): two such workers would
  own two rows that are both the oldest of one strand.
- `OrphansDead`: what a sweep has read is still so (the row is there, with that
  holder and that count of attempts) and the holder is gone. So when the sweep
  writes its copy back it overwrites nobody's work. This needs `PoolFirst`: during
  the sweep at the start there are no workers, and no sweep's process comes back
  before the sweep is over.
- `LocksAccountedFor` and `RequestKept`, which are inductive given these
  (`NoLockForgotten`, `NoRequestLost`).

The lemmas are again about kinds of change: `Frees(T)` says that a step frees or
removes the rows of `T`, adds only unlocked rows and leaves other holders alone;
`FreesKeeps` gets the invariant from it once the workers and the sweep's copies
that remain are not those of `T`. Inserts, deletes, unlocks and retries are such
changes; `Lock`, the only step that takes a row, has a lemma of its own.

`QueueImplemented` shows `CoreSpec => Queue!Spec` from `CoreInv`. An insert is
`Enqueue`, `Lock` is `Start` (the row is next, hence the head, and nobody performs
it since it has no holder), completing or giving up is `Remove`, a retry, an abort
or the death of a working process is `Stop`, and a sweep is `Remove` or nothing,
since what it gives up is not running. All other steps are stutters.

`SingletonsBounded` is about `NoHoldSpec`: if no row is on hold, every locked row is
locked by a worker, so it is next, so there is one per strand; `create_singleton`
adds a row only if all are locked, so it can add the second only. The restart of
the pool and the expiry of locks only ever free rows. With holds the theorem does
not apply.

`FailuresWithinLimit` is about `RetrySpec`, with any workers. Its invariant `Counted` says
that the attempts of a row are the failures of its job, and that the copy of the worker
that performs it has the same count, unless the job is in `stale`. A step either is a
`Failure` of one job, counted from such a copy, or leaves counts and copies alone
(`SameCounts`, `SameCopies`). That nobody else performs the job that fails is `Owns`, that
the sweep's copies are true is `OrphansDead`. What a worker has found and not locked may be
old; `LocksOldCopy` records it when the lock succeeds.

`JobBatchesProofs` is about `JobBatches!Spec`, with every action, for any jobs,
workers, groups, limits and number of ids: `TypeCorrect` and `NoItemLost`, that an
item handed over is always with the caller, in the row of its batch or in a row
of its own until it has returned or was given up. `ItemsKept` alone is not
inductive: it says nothing of what the workers hold. `BatchInv` adds

- `RowsIssued` and `CopyOf`: the objects in hand are copies of rows the sequence
  issued, whose lists never change, so to destroy the row of a copy is to destroy
  these items and no others;
- `Passed`: the items a batch has passed `Settles`, that is, have returned, were
  given up or have a row that no batch has at hand. The row of the item at hand
  does not count, since `HandlingRaises` may destroy it without a trace; so the
  item counts on its batch until the worker is back at it;
- `BatchThere`: the row of a batch in hand is there, or all its items settle. Two
  workers that perform one batch after its lock expired both satisfy it: the
  first to finish destroys the row only when all items settle, and then the
  second may fail, and find nothing to retry, at no loss;
- `ItemsApart`: no two batches have the same row at hand.

A step `Carries` when it only adds rows, lets nothing done be undone, takes no
row in hand but a new one, and removes a row for one of three reasons: its items
have gone, it is a batch whose items settle, or it is at hand in a batch that
fails now. `SettlesKept`, `BatchStays`, `OthersKept` and `ItemsStay` show that such
a step keeps each part for everybody who does not move; each action then has a
lemma that it is such a step and leaves its own process right.

`NoItemTwice` and `ItemsInOrder` are about `CoreSpec` of batches, in which jobs raise
but no worker dies, no lock expires and the database does not refuse. The invariant
`CoreInv` of that module:

- `NothingFails`, no batch fails as a whole and no sweep finds a row; `LockedAtHand`, the
  rows a worker has in hand are exactly those it has locked, so nobody else takes them;
- `CollectedOnce` and `EnqueuedOnce`: a job is collected into one place of one batch, and
  has one row as an item of a batch and one of its own at most;
- `ReachedBegun` and `TriedBegun`: an item of a batch gets its own row only when the batch
  reaches it, and only then is it tried; `ReturnedGoes`: the row of an item that has returned
  is in the hand of the worker that destroys it next;
- `OncePerItem` and `TriedInOrder`, which then are inductive.

`AppointmentsProofs` proves the four invariants, `TypeOK` and the three action
properties from one `Inv`, for any slots, participants and finitely many clients. A
request is a list of row locks, and what it has read under a lock holds until it
gives the lock up: `Good` says so for each kind of request, at each of its steps.
`Reserves` and `Checked`: a reservation holds the rows of its slot and of its
participant when it counts, and at the commit the slot still has a place, the
participant is not in it, and has a place left. `Deletes`: what a deletion has
gone through lies in slots it will write as deleted. `KeepsOne`: under each request a
locked slot that it leaves so has a reservation that it leaves. `Exclusive` makes a
commit harmless for the others: what it writes, nobody else has read. Where a property
holds only for a mix of requests its hypothesis is in the property, and was found
necessary by TLC.

`DiscussionViewProofs`: `Inv` says that the job runs once (`OneRuns`), that what is
missing in the view was, or will be, updated when the view's build began or later, but for
the entries the build missed (`ViewIsCovered`), that a build in progress covers as
much and shows no less than the view it replaces (`ViewIsBehind`), and that the list
beside the view holds what it lacks (`ReadersAreCovered`). `VersionsBound` bounds the versions
that are to be committed.

`FileUploadsProofs`: `Inv` is the two safety properties with `QueuedWereDropped`, the queue
is no longer than what was dropped, which bounds the type.

`QuizAttemptsProofs` has three invariants on top of each other, for any `Together` and
`Killed`: the requests may overlap and be killed in every way.

- `Base`: a copy that nobody has written over agrees with the row in everything but what
  autosaves, the clock and its own request's first UPDATE have changed (`CopyFits`). Columns
  that an UPDATE leaves out because the copy did not change are then the right ones. It
  holds until an update is lost (`BaseHolds`). A request that writes makes all the others'
  copies stale, so `CopyFits` need only be kept for the writer itself.
- `GradedInv`: graded answers, in the row or in a fresh copy, have their version. It gives
  `AttemptsAreGraded` wherever requests are killed.
- `RecordedInv`: when no request is midway the row is `Steady` and the kept score is the
  policy's; when one is, nobody else is, and the row is as that request's next step expects
  it (`AtStep`: `Opening` in the middle of a start, `Rescored` in the middle of an update);
  versions are in the order of attempts. It holds until an update is lost or a request torn
  (`RecordedHolds`), and gives `ShownGradeIsRecorded`, `KeptScoreIsCurrent` and
  `AttemptsGradedOnce`.

The exceptions are histories, not hypotheses: in each behaviour the theorems speak of
every state until the first such write, and `harm` never forgets one. They cannot be
dropped, since with either the statements are false (above).

`TakeQuizProofs`: while the page is open, nothing was posted, one save is under way
at most (`OneSave`), and what the server may still receive of saves given up is no
newer than that save, which is no newer than the page (`AnswersInOrder`).

Assumptions on constants: `NoStrand` is not a strand, periodic jobs are singletons and
these are strands, `Nobody` and `OnHold` are no process ids, `max_attempts`,
`allowed_attempts` and the limits of appointments are positive; clients, writers and files are finite sets, since
a server has finitely many processes and a page finitely many files.

## Model-checked only

Liveness, which is out of the prover's reach under fairness: `EveryJobLeaves`,
`EveryItemSettles`, `TimeUpEndsPage`, `AutosaveGoesOn`, `EndedIsGraded`, `DropsAreUploaded`,
`BarSettles`, `EventuallyShown`. Every safety invariant and every action property of the
runs has a theorem.

## Not modelled

Payloads and their serialization, priorities, queue names, the exponential
back-off (only that a retry is later), statistics, the MySQL and SQLite triggers,
several hosts (their rows are never touched by this host's sweep), named workers
(for which the sweep is disabled). Of quizzes: questions and how they are scored,
extra attempts, manually set scores, previews, snapshots, the merge of an autosave
with the answers before it, the grade passed on to the assignment, the notices of
the time left. Of uploads: folders, the server, the display of a file's progress,
zip imports. Of appointments: the making and moving of slots, the group's own limits,
the cache of available slots, notifications. Of discussions: threading, topics of
groups, read state, several clocks. Vendored JavaScript (TinyMCE, DataTables, jQuery and their copies in
the themes), which is most of the repository's, is no part of the system's own
logic. Every other component: see `PROJECT.json`.

## Plan

1. Done: `StrandQueue`, `DelayedJobs`, `JobBatches`, the theorems on the safety of
   the queue and of batches, and the refinement; `TakeQuiz`, `QuizAttempts`,
   `FileUploads`, `Appointments`, `DiscussionView` with their runs, and theorems for the
   safety and action properties of all of them.
2. `RedisJobs`: the Lua scripts over queue, strand and hash keys, one script one
   step; the same `StrandQueue` as abstract specification; runs for waiting jobs
   with and without a `max_priority`, for hold and unhold, for singletons.
3. `DiscussionView` composed with `StrandQueue` in place of its own singleton.
4. `ModuleProgress`, `CaseReview`, `LearningPlans`,
   `Enrollments`, `MessageDelivery`.
5. Pure algorithms: `DropRules` (grade calculator) and `DueDates` (overrides)
   against reference definitions.
6. Proofs: the refinement for the modules above, then what a row guarantees again
   after a lost update.
