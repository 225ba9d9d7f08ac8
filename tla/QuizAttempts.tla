---------------------------- MODULE QuizAttempts ----------------------------
(***************************************************************************)
(* One student's row of quiz_submissions and its versions, under requests  *)
(* that each read a copy of the row, work on it and write back             *)
(* (quiz_submissions_controller.rb, quizzes_controller.rb, quiz.rb and     *)
(* quiz_submission.rb).  Every statement that reads or commits is a step,  *)
(* and a request may be killed between two of them.                        *)
(*                                                                         *)
(* Answers are the points they are worth.  "complete" stands for           *)
(* pending_review too, which completed? does not tell from it.             *)
(***************************************************************************)
EXTENDS Integers, Sequences, FiniteSetsExt

CONSTANTS
  MaxRequests,  \* bound on the requests under way at once
  Together,     \* the pairs of kinds that may be under way at once
  Killed,       \* kinds whose requests may be killed
  MaxAttempts,  \* allowed_attempts
  MaxPoints,    \* bound on the points of an attempt
  MaxVersions   \* bound on the versions

Kinds == {"backup", "create", "view", "start", "extend", "update"}

ASSUME KindsAssumption == Together \subseteq SUBSET Kinds /\ Killed \subseteq Kinds
ASSUME BoundsAssumption == /\ MaxRequests \in Nat
                           /\ MaxAttempts \in Nat \ {0}
                           /\ MaxPoints \in Nat
                           /\ MaxVersions \in Nat

VARIABLES
  policy,    \* the quiz's scoring_policy
  row,       \* the row of quiz_submissions
  versions,  \* its versions, oldest first
  req,       \* the requests under way
  fresh,     \* history: those that nobody has written over since they loaded
  harm       \* history: "lost" updates and "torn" requests, see Writes

vars == <<policy, row, versions, req, fresh, harm>>

None == -1
Points == 0..MaxPoints
Scores == Points \cup {None}
Attempts == 1..MaxAttempts

\* submission_data: a Hash of answers, or the Array that grading leaves.
Answers == [graded : {FALSE}, points : Points]
Array == [graded |-> TRUE, points |-> 0]

\* late: 0 before end_at, then 1 (overdue for who takes the quiz), 2 (overdue,
\* after five minutes), 3 (not extendable, after an hour).
Rows == [state : {"untaken", "complete"}, attempt : Attempts,
         data : Answers \cup {Array}, score : Scores, kept : Scores, late : 0..3]

Steps == {"save", "mark", "grade", "retake", "attempt", "settings",
          "version", "scores", "reload", "kept"}

\* A request: the step it is at, its copy of the row, its parameters.
BackupRequests == [kind : {"backup"}, step : {"save"}, points : Points, id : 1..MaxRequests]
LoadedRequests == [kind : Kinds, step : Steps, copy : Rows, points : Points,
                   version : 0..MaxVersions, id : 1..MaxRequests]

TypeOK ==
  /\ policy \in {"keep_highest", "keep_latest"}
  /\ row \in Rows
  /\ versions \in Seq([attempt : Attempts, score : Points])
  /\ Len(versions) <= MaxVersions
  /\ req \subseteq BackupRequests \cup LoadedRequests
  /\ fresh \subseteq LoadedRequests
  /\ harm \subseteq {"lost", "torn"}

\* An attempt as it starts.
Fresh(attempt, kept) ==
  [state |-> "untaken", attempt |-> attempt, data |-> [graded |-> FALSE, points |-> 0],
   score |-> None, kept |-> kept, late |-> 0]

Init ==
  /\ policy \in {"keep_highest", "keep_latest"}
  /\ row = Fresh(1, None)
  /\ versions = <<>>
  /\ req = {}
  /\ fresh = {}
  /\ harm = {}

-----------------------------------------------------------------------------
(* The model: quiz_submission.rb. *)

\* score_to_keep, of a copy with the given score.
ScoreToKeep(score) ==
  LET recorded == {versions[v].score : v \in DOMAIN versions}
      scores == recorded \cup ({score} \ {None})
  IN IF scores = {} THEN None
     ELSE IF policy = "keep_highest" THEN Max(scores)
     ELSE IF score # None THEN score ELSE versions[Len(versions)].score

\* update_kept_score for a copy whose answers are graded.
WithKept(copy) ==
  IF copy.state = "complete" THEN [copy EXCEPT !.kept = ScoreToKeep(copy.score)] ELSE copy

\* An UPDATE writes the columns that changed in memory, and serialized ones always.
Written(copy, new) ==
  [c \in DOMAIN row |-> IF c = "data" \/ new[c] # copy[c] THEN new[c] ELSE row[c]]

Graded(copy) ==
  [copy EXCEPT !.state = "complete", !.score = copy.data.points, !.data = Array]

GradeWithoutVersion(copy, new) ==
  row' = Written(copy, WithKept(Graded(new))) /\ UNCHANGED versions

\* grade_submission of the object new that was loaded as copy.
Grade(copy, new) ==
  /\ Len(versions) < MaxVersions
  /\ row' = Written(copy, WithKept(Graded(new)))
  /\ versions' = Append(versions, [attempt |-> new.attempt, score |-> new.data.points])

\* save: a completed copy that still has its answers is graded by the callback.
Save(copy, new) ==
  IF new.state = "complete" /\ ~new.data.graded
  THEN Grade(copy, new)
  ELSE row' = Written(copy, WithKept(new)) /\ UNCHANGED versions

\* The object after it was saved.
Saved(new) ==
  IF new.state = "complete" /\ ~new.data.graded THEN WithKept(Graded(new)) ELSE WithKept(new)

\* For a save with another end_at than the one that was loaded.
EndMoved(copy) == [copy EXCEPT !.late = None]

Overdue(copy) == copy.late >= 2
Extendable(copy) == copy.state = "untaken" /\ copy.late < 3

NeedsGradingUntaken(copy, strict) ==
  copy.state = "untaken" /\ copy.late >= IF strict THEN 1 ELSE 3

NeedsGrading(copy, strict) ==
  \/ copy.state = "untaken" /\ copy.late >= IF strict THEN 1 ELSE 3
  \/ copy.state = "complete" /\ ~copy.data.graded

-----------------------------------------------------------------------------
(* Requests. *)

\* Room for a request of this kind, and q enters: with the least id that is free.
Enters(q) ==
  /\ \A id \in 1..q.id : (\E other \in req : other.id = id) <=> id < q.id
  /\ \A other \in req : {q.kind, other.kind} \in Together
  /\ req' = req \cup {q}
  /\ UNCHANGED <<policy, row, versions, harm>>

\* A request that reads the row and works on the copy.
Loads(kind, step, points, version) ==
  \E id \in 1..MaxRequests :
    LET q == [kind |-> kind, step |-> step, copy |-> row, points |-> points,
              version |-> version, id |-> id]
    IN Enters(q) /\ fresh' = fresh \cup {q}

\* q has written a part of what belongs together.
Midway(q) == q.step \in {"attempt", "scores", "reload", "kept"}

\* q writes, and goes on as next or not at all.  History: the copies of the others
\* are stale now, an update is lost if q's copy was, and another request is torn
\* if it was midway.
Writes(q, next) ==
  /\ req' = (req \ {q}) \cup next
  /\ fresh' = next
  /\ harm' = harm \cup {h \in {"lost"} : q \notin fresh}
                  \cup {h \in {"torn"} : \E other \in req \ {q} : Midway(other)}

Goes(q, step, copy) == Writes(q, {[q EXCEPT !.step = step, !.copy = copy]})

Ends(q) == Writes(q, {})

\* q is over and has not written from a copy.
Quits(q) ==
  /\ req' = req \ {q}
  /\ fresh' = fresh \ {q}
  /\ harm' = harm \cup {h \in {"torn"} : Midway(q)}

Kill(q) ==
  /\ q.kind \in Killed
  /\ Quits(q)
  /\ UNCHANGED <<policy, row, versions>>

(* backup and record_answer: tests on the row, then an UPDATE by SQL. *)

Backup(points) ==
  /\ row.state = "untaken"
  /\ ~Overdue(row)
  /\ \E id \in 1..MaxRequests :
       Enters([kind |-> "backup", step |-> "save", points |-> points, id |-> id])
  /\ UNCHANGED fresh

BackupAnyRow(q) ==
  /\ q.kind = "backup"
  /\ row' = [row EXCEPT !.data = [graded |-> FALSE, points |-> q.points]]
  /\ Quits(q)
  /\ UNCHANGED <<policy, versions>>

\* backup_submission_data: WHERE the attempt is not completed.
BackupSubmissionData(q) ==
  /\ q.kind = "backup"
  /\ row' = IF row.state = "complete" THEN row
            ELSE [row EXCEPT !.data = [graded |-> FALSE, points |-> q.points]]
  /\ Quits(q)
  /\ UNCHANGED <<policy, versions>>

(* create: the student submits. *)

\* Mutant: create does not look at the state of the attempt.
CreateAgain(points) == Loads("create", "mark", points, 0)

Create(points) ==
  /\ row.state = "untaken"
  /\ Loads("create", "mark", points, 0)

MarkCompleted(q) ==
  /\ q.kind = "create" /\ q.step = "mark"
  /\ row' = [row EXCEPT !.state = "complete"]
  /\ Goes(q, "grade", q.copy)
  /\ UNCHANGED <<policy, versions>>

\* The object that create or a view grades: create takes the posted answers
\* over, unless they are late.
Object(q) ==
  IF q.kind = "create" /\ ~Overdue(q.copy)
  THEN [q.copy EXCEPT !.data = [graded |-> FALSE, points |-> q.points]]
  ELSE q.copy

\* grade_submission, which raises when the answers have been graded.
GradeSubmission(q) ==
  /\ q.step = "grade"
  /\ \/ Object(q).data.graded /\ Quits(q) /\ UNCHANGED <<row, versions>>
     \/ ~Object(q).data.graded /\ Grade(q.copy, Object(q)) /\ Ends(q)
  /\ UNCHANGED policy

(* show, index and history: an attempt that needs it is graded. *)

View(strict) ==
  /\ NeedsGrading(row, strict)
  /\ Loads("view", "grade", 0, 0)

(* show with params[:take], posted: start_quiz! when nothing needed grading. *)

StartQuiz ==
  /\ row.state = "complete"
  /\ ~NeedsGrading(row, TRUE)
  /\ row.attempt < MaxAttempts
  /\ Loads("start", "save", 0, 0)

\* find_or_create_submission saves what it found ...
FindOrCreate(q) ==
  /\ q.kind \in {"start", "extend"} /\ q.step = "save"
  /\ Save(q.copy, q.copy)
  /\ Goes(q, IF q.kind = "start" THEN "retake" ELSE "settings", Saved(q.copy))
  /\ UNCHANGED policy

\* ... generate_submission's retake is saved at once ...
Retake(q) ==
  /\ q.step = "retake"
  /\ LET new == [q.copy EXCEPT !.state = "untaken"]
     IN Save(q.copy, new) /\ Goes(q, "attempt", new)
  /\ UNCHANGED policy

\* ... and then the rest of the new attempt.
Generate(q) ==
  /\ q.step = "attempt"
  /\ Save(EndMoved(q.copy), Fresh(q.copy.attempt + 1, q.copy.kept))
  /\ Ends(q)
  /\ UNCHANGED policy

(* extensions: a teacher moves the end, or changes other settings. *)

Extensions == Loads("extend", "save", 0, 0)

SaveSettings(q) ==
  /\ q.step = "settings"
  /\ \/ Save(q.copy, q.copy)
     \/ Extendable(q.copy) /\ Save(EndMoved(q.copy), [q.copy EXCEPT !.late = 0])
  /\ Ends(q)
  /\ UNCHANGED policy

(* update: a teacher gives points to a version. *)

Update(points, version) ==
  /\ version \in DOMAIN versions
  /\ Loads("update", "version", points, version)

\* update_submission_version.
UpdateVersion(q) ==
  /\ q.step = "version"
  /\ versions' = [versions EXCEPT ![q.version].score = q.points]
  /\ Goes(q, IF versions[q.version].attempt = q.copy.attempt /\ q.copy.state = "complete"
             THEN "scores" ELSE "reload", q.copy)
  /\ UNCHANGED <<policy, row>>

\* The version is of the attempt at hand: save it with the new points.
SaveScores(q) ==
  /\ q.step = "scores"
  /\ Save(q.copy, [q.copy EXCEPT !.score = q.points, !.data = Array])
  /\ Ends(q)
  /\ UNCHANGED policy

\* It is of an older attempt: reload, and save the score to keep.
Reload(q) ==
  /\ q.step = "reload"
  /\ LET next == [q EXCEPT !.step = "kept", !.copy = row]
     IN req' = (req \ {q}) \cup {next} /\ fresh' = (fresh \ {q}) \cup {next}
  /\ UNCHANGED <<policy, row, versions, harm>>

SaveUnchanged(q) ==
  /\ q.step = "kept"
  /\ Save(q.copy, q.copy)
  /\ Ends(q)
  /\ UNCHANGED policy

SaveKept(q) ==
  /\ q.step = "kept"
  /\ Save(q.copy, [q.copy EXCEPT !.kept = ScoreToKeep(q.copy.score)])
  /\ Ends(q)
  /\ UNCHANGED policy

\* Time goes on.
TimePasses ==
  /\ row.state = "untaken"
  /\ row.late < 3
  /\ row' = [row EXCEPT !.late = @ + 1]
  /\ UNCHANGED <<policy, versions, req, fresh, harm>>

-----------------------------------------------------------------------------
Student == StartQuiz \/ \E points \in Points : Backup(points) \/ Create(points)

Viewer == \E strict \in BOOLEAN : View(strict)

Teacher ==
  \/ Extensions
  \/ \E points \in Points, version \in DOMAIN versions : Update(points, version)

Proceed(q) ==
  \/ BackupSubmissionData(q) \/ MarkCompleted(q) \/ GradeSubmission(q)
  \/ FindOrCreate(q) \/ Retake(q) \/ Generate(q) \/ SaveSettings(q)
  \/ UpdateVersion(q) \/ SaveScores(q) \/ Reload(q) \/ SaveKept(q)

Next ==
  \/ Student \/ Viewer \/ Teacher
  \/ \E q \in req : Proceed(q) \/ Kill(q)
  \/ TimePasses

Spec == Init /\ [][Next]_vars

(***************************************************************************)
(* A request that is not killed ends, and one that is repeated is not      *)
(* killed every time; somebody looks at the quiz again and again.          *)
(***************************************************************************)
Fairness ==
  /\ \A kind \in Kinds : WF_vars(\E q \in req : q.kind = kind /\ Proceed(q))
  /\ SF_vars(\E q \in req : GradeSubmission(q))
  /\ SF_vars(Viewer)
  /\ WF_vars(TimePasses)

LiveSpec == Spec /\ Fairness

-----------------------------------------------------------------------------
(* Properties. *)

\* Every attempt that was followed by another one has been graded and recorded,
\* whatever was killed half way: start_quiz! does not begin an attempt on top of
\* one that was marked completed and never graded (quizzes_controller.rb:172, 539).
\* Excepted: histories in which a request wrote from a copy that another one had
\* written over, for the code takes no lock.
EveryAttemptGraded ==
  "lost" \notin harm =>
    \A a \in 1..(row.attempt - 1) : \E v \in DOMAIN versions : versions[v].attempt = a

\* A row that shows a grade shows the one its newest version records: a late
\* autosave, a killed request or a change of settings never puts answers, or an
\* older score, back under a completed attempt (quiz_submission.rb:271, 480).
\* Excepted here and below: lost updates, and requests that were killed or written
\* over half way through a start or an update.
ShownIsRecorded ==
  harm = {} /\ row.state = "complete" /\ (\A q \in req : q.kind # "update")
    => LET v == Len(versions)
       IN \/ ~row.data.graded /\ \A u \in DOMAIN versions : versions[u].attempt # row.attempt
          \/ v > 0 /\ versions[v] = [attempt |-> row.attempt, score |-> row.score]

\* "kept_score is basically a cached version of this computed property. it is not
\* cleared when a new quiz_submission version is created and it should always be
\* current" (quiz_submission.rb:308-310): between the requests of teachers it is
\* the score the policy picks from the versions.
KeptIsPolicy ==
  harm = {} /\ (\A q \in req : q.kind # "update") =>
    row.kept = IF versions = <<>> THEN None
               ELSE IF policy = "keep_highest"
               THEN Max({versions[v].score : v \in DOMAIN versions})
               ELSE versions[Len(versions)].score

\* "Can't grade an already-submitted submission" (quiz_submission.rb:454-456): no
\* attempt is graded twice, whichever requests saw it ungraded.
GradedOnce ==
  harm = {} =>
    \A u, v \in DOMAIN versions : versions[u].attempt = versions[v].attempt => u = v

\* An attempt that was submitted and not graded, or that ended an hour ago, is
\* graded in the end, whatever overlaps it and is killed half way, unless a teacher
\* opens it again, a start or an update is torn, or the bound on versions is reached
\* (quizzes_controller.rb:172, quiz_submission.rb:232).
EndedIsGraded ==
  ~row.data.graded /\ (row.state = "complete" \/ row.late = 3)
    ~> \/ row.state = "complete" /\ row.data.graded
       \/ row.state = "untaken" /\ row.late < 3
       \/ "torn" \in harm
       \/ Len(versions) = MaxVersions
=============================================================================
