------------------------------ MODULE TakeQuiz ------------------------------
(***************************************************************************)
(* The page on which a student takes a timed quiz (take_quiz.js): saves by *)
(* AJAX after a change and every half minute, the clock that submits the   *)
(* form when time is up, the buttons, and leaving the page; with the       *)
(* handlers of quiz_submissions_controller.rb at the other end of its      *)
(* requests, each taken as one step, and a teacher who moves the end.      *)
(*                                                                         *)
(* The answers are the number of changes made so far.  JavaScript runs one *)
(* handler at a time, so each handler is one step.                         *)
(***************************************************************************)
EXTENDS Naturals, FiniteSets

CONSTANTS
  MaxEdits,  \* bound on the changes of answers
  MaxPosts,  \* bound on the posts under way
  MaxTime,   \* bound on the end of the attempt; the clock stops short of it
  Grace,     \* how long after its end an attempt is not overdue yet
  Extension  \* how long after its end an attempt can still be extended

ASSUME BoundsAreNumbers ==
  /\ MaxEdits \in Nat /\ MaxPosts \in Nat \ {0} /\ MaxTime \in Nat \ {0}
  /\ Grace \in Nat /\ Extension \in Nat

VARIABLES
  clock,  \* time, on the server and, corrected by clientServerDiff, on the page
  page,   \* the state of the page's JavaScript
  calls,  \* AJAX saves whose callbacks have not run
  lost,   \* answers in saves nobody waits for, which the server may still get
  posts,  \* posts of the form that the server has not processed
  row     \* the row of quiz_submissions

vars == <<clock, page, calls, lost, posts, row>>

Times == 0..MaxTime
Answers == 0..MaxEdits
Actions == {"submit", "record"}  \* POST create, POST record_answer

Pages ==
  [status : {"open", "posting", "gone"},  \* shown, form posted, left or replaced
   typed : Answers,
   end_at : Times,                        \* the end the page knows
   submitting : BOOLEAN,
   currentlyBackingUp : BOOLEAN,
   recent : BOOLEAN,                      \* lastSubmissionUpdate is under a second ago
   timer : {"none", "waiting", "due"},    \* the next updateSubmission(true)
   dialogged : BOOLEAN,
   countDown : {"none", "running", "over"},
   action : Actions]                      \* the form's

Calls == [data : Answers, repeat : BOOLEAN, stage : {"sent", "answered"}, end_at : Times]
Posts == [data : Answers, to : Actions]
Rows == [state : {"untaken", "complete"}, saved : Answers, end_at : Times]

TypeOK ==
  /\ clock \in Times
  /\ page \in Pages
  /\ calls \subseteq Calls
  /\ lost \subseteq Answers
  /\ posts \subseteq Posts
  /\ row \in Rows

\* A page as it is loaded during an attempt that ends at the given time.
NewPage(end) ==
  [status |-> "open", typed |-> 0, end_at |-> end, submitting |-> FALSE,
   currentlyBackingUp |-> FALSE, recent |-> TRUE, timer |-> "waiting",
   dialogged |-> FALSE, countDown |-> "none", action |-> "submit"]

NoPage == [NewPage(0) EXCEPT !.status = "gone"]

Init ==
  /\ clock = 0
  /\ \E end \in Times :
       /\ page = NewPage(end)
       /\ row = [state |-> "untaken", saved |-> 0, end_at |-> end]
  /\ calls = {}
  /\ lost = {}
  /\ posts = {}

-----------------------------------------------------------------------------
(* The server. *)

Overdue == clock > row.end_at + Grace

\* The row after a save of the given answers.
Stored(answers) ==
  IF row.state = "untaken" /\ ~Overdue THEN [row EXCEPT !.saved = answers] ELSE row

Completed(answers) == [row EXCEPT !.state = "complete", !.saved = answers]

\* backup, for a save the page waits for; the answer carries the end.
Backup(c) ==
  /\ c.stage = "sent"
  /\ row' = Stored(c.data)
  /\ calls' = (calls \ {c}) \cup {[c EXCEPT !.stage = "answered", !.end_at = row.end_at]}
  /\ UNCHANGED <<clock, page, lost, posts>>

\* backup, for a save that timed out, or whose page is gone.
BackupLate(answers) ==
  /\ answers \in lost
  /\ lost' = lost \ {answers}
  /\ row' = Stored(answers)
  /\ UNCHANGED <<clock, page, calls, posts>>

RecordAnswer(post) ==
  /\ post.to = "record"
  /\ posts' = posts \ {post}
  /\ row' = Stored(post.data)
  /\ UNCHANGED <<clock, page, calls, lost>>

\* create: answers that come too late are not taken.
Create(post) ==
  /\ post.to = "submit"
  /\ posts' = posts \ {post}
  /\ row' = IF row.state # "untaken" THEN row
            ELSE Completed(IF Overdue THEN row.saved ELSE post.data)
  /\ UNCHANGED <<clock, page, calls, lost>>

\* The student looks at the quiz in another tab when the attempt has ended.
GradeOverdue ==
  /\ row.state = "untaken"
  /\ clock > row.end_at
  /\ row' = Completed(row.saved)
  /\ UNCHANGED <<clock, page, calls, lost, posts>>

\* A teacher sets the end from now, or later than it was.
Extend(end) ==
  /\ row.state = "untaken"
  /\ clock < row.end_at + Extension
  /\ end > clock \/ end > row.end_at
  /\ row' = [row EXCEPT !.end_at = end]
  /\ UNCHANGED <<clock, page, calls, lost, posts>>

-----------------------------------------------------------------------------
(* The page. *)

SkipsButSaving(p, repeat) == (p.submitting /\ ~repeat) \/ p.recent

\* The early returns of updateSubmission.
Skips(p, repeat) ==
  (p.submitting /\ ~repeat) \/ p.recent \/ p.currentlyBackingUp

\* updateSubmission: the page after it, and the calls.
Saving(p, repeat) ==
  IF Skips(p, repeat) THEN p
  ELSE [p EXCEPT !.currentlyBackingUp = TRUE, !.recent = TRUE]

CallsAfter(p, repeat) ==
  IF Skips(p, repeat) THEN calls
  ELSE calls \cup {[data |-> p.typed, repeat |-> repeat, stage |-> "sent", end_at |-> 0]}

\* The student changes an answer or flags a question; the times-up dialog is modal.
Change ==
  /\ page.status # "gone"
  /\ ~page.dialogged
  /\ page.typed < MaxEdits
  /\ LET changed == [page EXCEPT !.typed = @ + 1]
     IN page' = Saving(changed, FALSE) /\ calls' = CallsAfter(changed, FALSE)
  /\ UNCHANGED <<clock, lost, posts, row>>

\* setTimeout(updateSubmission(true)): a timer that finds a reason to return is not set again.
Autosave ==
  /\ page.status # "gone"
  /\ page.timer = "due"
  /\ LET fired == [page EXCEPT !.timer = "none"]
     IN page' = Saving(fired, TRUE) /\ calls' = CallsAfter(fired, TRUE)
  /\ UNCHANGED <<clock, lost, posts, row>>

FinishedOnce(c) == [page EXCEPT !.currentlyBackingUp = FALSE]

\* What both callbacks of a save do.
Finished(c) ==
  [page EXCEPT !.currentlyBackingUp = FALSE, !.timer = IF c.repeat THEN "waiting" ELSE @]

SaveSucceeds(c) ==
  /\ c.stage = "answered"
  /\ page' = [Finished(c) EXCEPT !.end_at = c.end_at]
  /\ calls' = calls \ {c}
  /\ UNCHANGED <<clock, lost, posts, row>>

\* An error, or no answer in five seconds.
SaveFails(c) ==
  /\ page' = Finished(c)
  /\ calls' = calls \ {c}
  /\ lost' = IF c.stage = "sent" THEN lost \cup {c.data} ELSE lost
  /\ UNCHANGED <<clock, posts, row>>

AsksAnyway(p, warns, agrees) ==
  IF warns /\ ~agrees
  THEN page' = p /\ UNCHANGED posts
  ELSE /\ page' = [p EXCEPT !.submitting = TRUE, !.status = "posting"]
       /\ posts' = posts \cup {[data |-> p.typed, to |-> p.action]}

\* The form's submit handler on page p: it asks about unanswered questions,
\* unless the page is submitting.
SubmitForm(p, warns, agrees) ==
  IF warns /\ ~p.submitting /\ ~agrees
  THEN page' = p /\ UNCHANGED posts
  ELSE /\ page' = [p EXCEPT !.submitting = TRUE, !.status = "posting"]
       /\ posts' = posts \cup {[data |-> p.typed, to |-> p.action]}

\* A button of the form.  Next and Previous set the form's action, Submit has none to set.
ClickButton(button, warns, agrees) ==
  /\ page.status # "gone"
  /\ Cardinality(posts) < MaxPosts
  /\ ~page.dialogged
  /\ SubmitForm([Saving(page, FALSE) EXCEPT
                   !.action = IF button = "submit" THEN @ ELSE button], warns, agrees)
  /\ calls' = CallsAfter(page, FALSE)
  /\ UNCHANGED <<clock, lost, row>>

TimesUpWithoutCountdown ==
  /\ page.status # "gone"
  /\ clock >= page.end_at
  /\ ~page.dialogged
  /\ page' = [page EXCEPT !.dialogged = TRUE]
  /\ UNCHANGED <<clock, calls, lost, posts, row>>

\* updateTime: the dialog and its countdown of ten seconds.
TimesUp ==
  /\ page.status # "gone"
  /\ clock >= page.end_at
  /\ ~page.dialogged
  /\ page' = [page EXCEPT !.dialogged = TRUE, !.countDown = "running"]
  /\ UNCHANGED <<clock, calls, lost, posts, row>>

\* What the clock and the dialog share: unless it was done, submit the form.
SubmitsItself(warns, agrees) ==
  /\ page.status # "gone"
  /\ ~page.submitting
  /\ SubmitForm([page EXCEPT !.submitting = TRUE], warns, agrees)
  /\ UNCHANGED <<clock, calls, lost, row>>

CloseDialog(warns, agrees) == page.dialogged /\ SubmitsItself(warns, agrees)

\* updateTime when the countdown is over.
CountdownSubmits(warns, agrees) == page.countDown = "over" /\ SubmitsItself(warns, agrees)

\* The page goes, with all its state; its calls may still arrive.
Goes ==
  /\ page' = NoPage
  /\ calls' = {}
  /\ lost' = lost \cup {c.data : c \in {d \in calls : d.stage = "sent"}}

\* The answer to a post, or the browser's own error.
Navigate ==
  /\ page.status = "posting"
  /\ Goes
  /\ UNCHANGED <<clock, posts, row>>

\* window.onbeforeunload: a save without callbacks, which may reach the server
\* or not; the student may stay.
BeforeUnload(stays, arrives) ==
  /\ page.status = "open"
  /\ row' = IF arrives /\ ~Skips(page, FALSE) THEN Stored(page.typed) ELSE row
  /\ IF stays THEN page' = Saving(page, FALSE) /\ UNCHANGED <<calls, lost>> ELSE Goes
  /\ UNCHANGED <<clock, posts>>

-----------------------------------------------------------------------------
(* Time. *)

Tick ==
  /\ clock + 1 < MaxTime
  /\ clock' = clock + 1
  /\ UNCHANGED <<page, calls, lost, posts, row>>

SecondPasses ==
  /\ page.status # "gone"
  /\ page.recent
  /\ page' = [page EXCEPT !.recent = FALSE]
  /\ UNCHANGED <<clock, calls, lost, posts, row>>

\* The timer runs for longer than a second, so there is a time without a recent save.
TimerDue ==
  /\ page.status # "gone"
  /\ page.timer = "waiting"
  /\ ~page.recent
  /\ page' = [page EXCEPT !.timer = "due"]
  /\ UNCHANGED <<clock, calls, lost, posts, row>>

CountdownEnds ==
  /\ page.status # "gone"
  /\ page.countDown = "running"
  /\ page' = [page EXCEPT !.countDown = "over"]
  /\ UNCHANGED <<clock, calls, lost, posts, row>>

-----------------------------------------------------------------------------
ServerNext ==
  \/ \E c \in calls : Backup(c)
  \/ \E answers \in lost : BackupLate(answers)
  \/ \E post \in posts : RecordAnswer(post) \/ Create(post)
  \/ GradeOverdue
  \/ \E end \in Times : Extend(end)

PageNext ==
  \/ Change
  \/ Autosave
  \/ \E c \in calls : SaveSucceeds(c) \/ SaveFails(c)
  \/ \E button \in Actions, warns, agrees \in BOOLEAN : ClickButton(button, warns, agrees)
  \/ TimesUp
  \/ \E warns, agrees \in BOOLEAN :
       CloseDialog(warns, agrees) \/ CountdownSubmits(warns, agrees)
  \/ Navigate
  \/ \E stays, arrives \in BOOLEAN : BeforeUnload(stays, arrives)

TimeNext == Tick \/ SecondPasses \/ TimerDue \/ CountdownEnds

Next == ServerNext \/ PageNext \/ TimeNext

Spec == Init /\ [][Next]_vars

(***************************************************************************)
(* Timers fire, the browser gives up a call after five seconds and a post  *)
(* at some time, and time passes.  Nothing is assumed of the student, the  *)
(* teacher, or of what the server receives.                                *)
(***************************************************************************)
Fairness ==
  /\ WF_vars(Autosave)
  /\ WF_vars(TimesUp)
  /\ WF_vars(\E warns, agrees \in BOOLEAN : CountdownSubmits(warns, agrees))
  /\ WF_vars(Navigate)
  /\ WF_vars(\E c \in calls : SaveSucceeds(c) \/ SaveFails(c))
  /\ WF_vars(Tick)
  /\ WF_vars(SecondPasses)
  /\ WF_vars(TimerDue)
  /\ WF_vars(CountdownEnds)

LiveSpec == Spec /\ Fairness

-----------------------------------------------------------------------------
(* Properties. *)

\* A page that takes itself for submitting has posted its form: the flag stops
\* saves after changes and the submission when time is up (take_quiz.js:71, 169, 488),
\* so a question the student answers with No must come before it.
SubmittingMeansPosted == page.submitting => page.status # "open"

\* While the student works on the page the server takes its saves in the order of
\* the changes, except one the page had given up on (take_quiz.js:74, 144).
SavedForward ==
  [][page.status = "open" /\ row'.saved < row.saved => lost' # lost]_vars

\* A student who does nothing is not kept on the page after the end: once the
\* dialog is there the form is posted and the page goes, whatever the teacher and
\* the network do meanwhile (take_quiz.js:162-197).
TimeUpEndsPage == page.dialogged ~> page.status = "gone"

\* A save of the half-minute series that fails, is lost or times out does not end
\* the series: its callbacks set the timer again (take_quiz.js:104, 141).
AutosaveGoesOn ==
  (\E c \in calls : c.repeat) ~> (page.timer = "waiting" \/ page.status = "gone")
=============================================================================
