--------------------------- MODULE TakeQuizProofs ---------------------------
(***************************************************************************)
(* Theorems about TakeQuiz: its safety properties, for any bounds.         *)
(*                                                                         *)
(* While the page is open nothing has been posted, at most one save is     *)
(* under way, and what the server may still get of the saves the page gave *)
(* up is no newer than that save, which is no newer than the page.         *)
(***************************************************************************)
EXTENDS TakeQuiz, TLAPS

\* The page's flag allows one save at a time.
OneSave ==
  /\ calls # {} => page.currentlyBackingUp
  /\ \A c, d \in calls : c = d

\* The answers on their way, and those the server has, in the order of the changes.
AnswersInOrder ==
  /\ row.saved <= page.typed
  /\ \A a \in lost : a <= page.typed
  /\ \A c \in calls : c.data <= page.typed
  /\ \A c \in calls : c.stage = "sent" => row.saved <= c.data /\ \A a \in lost : a <= c.data

Inv ==
  /\ TypeOK
  /\ SubmittingMeansPosted
  /\ page.status = "open" => posts = {} /\ OneSave /\ AnswersInOrder

-----------------------------------------------------------------------------
(* The pieces of the handlers. *)

\* The fields of a page.
LEMMA PageParts ==
  ASSUME NEW p \in Pages
  PROVE  /\ p.status \in {"open", "posting", "gone"}
         /\ p.typed \in Answers /\ p.end_at \in Times
         /\ p.submitting \in BOOLEAN /\ p.currentlyBackingUp \in BOOLEAN
         /\ p.recent \in BOOLEAN /\ p.timer \in {"none", "waiting", "due"}
         /\ p.dialogged \in BOOLEAN /\ p.countDown \in {"none", "running", "over"}
         /\ p.action \in Actions
BY DEF Pages

\* updateSubmission: the page is as it was but for the flags of a save.
LEMMA SavingPage ==
  ASSUME NEW p \in Pages, NEW repeat \in BOOLEAN
  PROVE  /\ Saving(p, repeat) \in Pages
         /\ Saving(p, repeat).status = p.status
         /\ Saving(p, repeat).typed = p.typed
         /\ Saving(p, repeat).submitting = p.submitting
         /\ Saving(p, repeat).action = p.action
         /\ Skips(p, repeat) => Saving(p, repeat).currentlyBackingUp = p.currentlyBackingUp
         /\ ~Skips(p, repeat) => Saving(p, repeat).currentlyBackingUp
<1>1. PICK q : q = [p EXCEPT !.currentlyBackingUp = TRUE, !.recent = TRUE]
      OBVIOUS
<1>2. /\ q \in Pages /\ q.status = p.status /\ q.typed = p.typed
      /\ q.submitting = p.submitting /\ q.action = p.action /\ q.currentlyBackingUp
      BY <1>1 DEF Pages
<1> QED BY <1>1, <1>2 DEF Saving

\* ... and there is a call when nothing keeps it.
LEMMA SavingCalls ==
  ASSUME calls \subseteq Calls, NEW p \in Pages, NEW repeat \in BOOLEAN
  PROVE  /\ CallsAfter(p, repeat) \subseteq Calls
         /\ Skips(p, repeat) => CallsAfter(p, repeat) = calls
         /\ ~Skips(p, repeat) => \E c \in Calls : /\ CallsAfter(p, repeat) = calls \cup {c}
                                                  /\ c.data = p.typed /\ c.stage = "sent"
<1>1. PICK c : c = [data |-> p.typed, repeat |-> repeat, stage |-> "sent", end_at |-> 0]
      OBVIOUS
<1>2. c \in Calls /\ c.data = p.typed /\ c.stage = "sent"
  <2>1. p.typed \in Answers /\ 0 \in Times
        BY PageParts, BoundsAreNumbers DEF Times
  <2> QED BY <1>1, <2>1 DEF Calls
<1>3. CallsAfter(p, repeat) = IF Skips(p, repeat) THEN calls ELSE calls \cup {c}
      BY <1>1 DEF CallsAfter
<1> QED BY <1>2, <1>3

\* A page that saves while it is open has one save under way, of what it shows.
LEMMA SavingKeeps ==
  ASSUME Inv, NEW p \in Pages, NEW repeat \in BOOLEAN, page.status = "open",
         p.currentlyBackingUp = page.currentlyBackingUp, page.typed <= p.typed,
         page'.currentlyBackingUp = Saving(p, repeat).currentlyBackingUp,
         page'.typed = p.typed, calls' = CallsAfter(p, repeat), UNCHANGED <<lost, row>>
  PROVE  OneSave' /\ AnswersInOrder'
<1>1. /\ OneSave /\ AnswersInOrder /\ calls \subseteq Calls /\ lost \subseteq Answers
      /\ row \in Rows /\ page \in Pages
      BY DEF Inv, TypeOK
<1>2. /\ page.typed \in Nat /\ p.typed \in Nat /\ row.saved \in Nat
      /\ \A a \in lost : a \in Nat
      /\ \A c \in calls : c.data \in Nat
      BY <1>1, PageParts DEF Answers, Rows, Calls
<1>3. CASE Skips(p, repeat)
  <2>1. calls' = calls /\ page'.currentlyBackingUp = page.currentlyBackingUp
        BY <1>1, <1>3, SavingCalls, SavingPage
  <2> QED BY <1>1, <1>2, <2>1 DEF OneSave, AnswersInOrder
<1>4. CASE ~Skips(p, repeat)
  <2>1. PICK c \in Calls : calls' = calls \cup {c} /\ c.data = p.typed /\ c.stage = "sent"
        BY <1>1, <1>4, SavingCalls
  <2>2. calls = {}
        BY <1>1, <1>4 DEF Skips, OneSave
  <2>3. page'.currentlyBackingUp
        BY <1>4, SavingPage
  <2> QED BY <1>1, <1>2, <2>1, <2>2, <2>3 DEF OneSave, AnswersInOrder
<1> QED BY <1>3, <1>4

\* The row after a save.
LEMMA StoredRow ==
  ASSUME row \in Rows, NEW a \in Answers
  PROVE  /\ Stored(a) \in Rows
         /\ Stored(a).saved = row.saved \/ Stored(a).saved = a
BY DEF Stored, Rows

\* The row after a completion.
LEMMA CompletedRow ==
  ASSUME row \in Rows, NEW a \in Answers
  PROVE  Completed(a) \in Rows /\ Completed(a).saved = a
BY DEF Completed, Rows

\* The form is posted with a page that is submitting, or the student says No.
LEMMA SubmitFormDoes ==
  ASSUME posts \subseteq Posts, NEW p \in Pages, NEW warns \in BOOLEAN, NEW agrees \in BOOLEAN,
         SubmitForm(p, warns, agrees)
  PROVE  /\ page' \in Pages /\ posts' \subseteq Posts
         /\ \/ page' = p /\ ~p.submitting /\ posts' = posts
            \/ page'.status = "posting"
<1>1. PICK q : q = [p EXCEPT !.submitting = TRUE, !.status = "posting"]
      OBVIOUS
<1>2. q \in Pages /\ q.status = "posting"
      BY <1>1 DEF Pages
<1>3. PICK post : post = [data |-> p.typed, to |-> p.action]
      OBVIOUS
<1>4. post \in Posts
      BY <1>3, PageParts DEF Posts
<1> QED BY <1>1, <1>2, <1>3, <1>4 DEF SubmitForm

-----------------------------------------------------------------------------
(* The steps. *)

\* What the types say.
LEMMA Types ==
  ASSUME Inv
  PROVE  /\ TypeOK /\ page \in Pages /\ row \in Rows /\ calls \subseteq Calls
         /\ lost \subseteq Answers /\ posts \subseteq Posts /\ clock \in Times
         /\ row.saved \in Answers /\ row.end_at \in Times /\ page.typed \in Answers
         /\ row.saved \in Nat /\ page.typed \in Nat
         /\ \A c \in calls : c.data \in Answers /\ c.data \in Nat /\ c.end_at \in Times
         /\ \A a \in lost : a \in Nat
<1>1. /\ TypeOK /\ page \in Pages /\ row \in Rows /\ calls \subseteq Calls
      /\ lost \subseteq Answers /\ posts \subseteq Posts /\ clock \in Times
      BY DEF Inv, TypeOK
<1>2. /\ row.saved \in Answers /\ row.end_at \in Times /\ page.typed \in Answers
      /\ \A c \in calls : c.data \in Answers /\ c.end_at \in Times
      BY <1>1, PageParts DEF Rows, Calls
<1> QED BY <1>1, <1>2 DEF Answers

\* The call that backup has answered.
LEMMA BackupKeeps ==
  ASSUME Inv, NEW c \in calls, Backup(c)
  PROVE  Inv' /\ (page.status = "open" => row'.saved >= row.saved)
<1>1. PICK d : d = [c EXCEPT !.stage = "answered", !.end_at = row.end_at]
      OBVIOUS
<1>2. /\ c.stage = "sent" /\ row' = Stored(c.data) /\ calls' = (calls \ {c}) \cup {d}
      /\ UNCHANGED <<clock, page, lost, posts>>
      BY <1>1 DEF Backup
<1>3. d \in Calls /\ d.data = c.data /\ d.stage = "answered"
      BY <1>1, Types DEF Calls
<1>4. row' \in Rows /\ (row'.saved = row.saved \/ row'.saved = c.data)
      BY <1>2, Types, StoredRow
<1>5. TypeOK' /\ SubmittingMeansPosted'
      BY <1>2, <1>3, <1>4, Types DEF TypeOK, Inv, SubmittingMeansPosted
<1>6. ASSUME page.status = "open" PROVE posts = {} /\ OneSave' /\ AnswersInOrder'
  <2>1. posts = {} /\ OneSave /\ AnswersInOrder
        BY <1>6 DEF Inv
  <2>2. calls' = {d} /\ OneSave'
        BY <1>2, <2>1 DEF OneSave
  <2> QED BY <1>2, <1>3, <1>4, <2>1, <2>2 DEF AnswersInOrder
<1>7. page.status = "open" => row'.saved >= row.saved
      BY <1>2, <1>4, Types DEF Inv, AnswersInOrder
<1> QED BY <1>2, <1>5, <1>6, <1>7 DEF Inv

\* The other steps of the server.
LEMMA ServerKeeps ==
  ASSUME Inv, ServerNext
  PROVE  Inv' /\ (page.status = "open" /\ lost' = lost => row'.saved >= row.saved)
<1> DEFINE Q == Inv' /\ (page.status = "open" /\ lost' = lost => row'.saved >= row.saved)
<1>1. ASSUME NEW answers \in lost, BackupLate(answers) PROVE Q
  <2>1. /\ lost' = lost \ {answers} /\ row' = Stored(answers)
        /\ UNCHANGED <<clock, page, calls, posts>>
        BY <1>1 DEF BackupLate
  <2>2. row' \in Rows /\ (row'.saved = row.saved \/ row'.saved = answers)
        BY <2>1, Types, StoredRow
  <2>3. TypeOK' /\ SubmittingMeansPosted'
        BY <2>1, <2>2, Types DEF TypeOK, Inv, SubmittingMeansPosted
  <2>4. page.status = "open" => posts = {} /\ OneSave' /\ AnswersInOrder'
        BY <2>1, <2>2 DEF Inv, OneSave, AnswersInOrder
  <2> QED BY <2>1, <2>3, <2>4 DEF Inv
  \* A step that keeps all but the row, whose answers only change when there is a post.
<1>2. ASSUME row' \in Rows, UNCHANGED <<clock, page, calls, lost>>, posts' \subseteq posts,
             page.status = "open" => row'.saved = row.saved
      PROVE  Q
  <2>1. TypeOK' /\ SubmittingMeansPosted'
        BY <1>2, Types DEF TypeOK, Inv, SubmittingMeansPosted
  <2>2. page.status = "open" => posts' = {} /\ OneSave' /\ AnswersInOrder'
        BY <1>2 DEF Inv, OneSave, AnswersInOrder
  <2> QED BY <1>2, <2>1, <2>2, Types DEF Inv
<1>3. ASSUME NEW post \in posts, RecordAnswer(post) \/ Create(post) PROVE Q
  <2>1. page.status # "open"
        BY <1>3 DEF Inv
  <2>2. post.data \in Answers
        BY Types DEF Posts
  <2>3. row' \in {row, Stored(post.data), Completed(row.saved), Completed(post.data)}
        BY <1>3 DEF RecordAnswer, Create
  <2>4. row' \in Rows
        BY <2>2, <2>3, Types, StoredRow, CompletedRow
  <2>5. UNCHANGED <<clock, page, calls, lost>> /\ posts' \subseteq posts
        BY <1>3 DEF RecordAnswer, Create
  <2> QED BY <1>2, <2>1, <2>4, <2>5
<1>4. CASE GradeOverdue
  <2>1. row' \in Rows /\ row'.saved = row.saved
        BY <1>4, Types, CompletedRow DEF GradeOverdue
  <2> QED BY <1>2, <1>4, <2>1 DEF GradeOverdue
<1>5. ASSUME NEW end \in Times, Extend(end) PROVE Q
  <2>1. row' \in Rows /\ row'.saved = row.saved
        BY <1>5, Types DEF Extend, Rows
  <2> QED BY <1>2, <1>5, <2>1 DEF Extend
<1> QED BY <1>1, <1>3, <1>4, <1>5, BackupKeeps, Types DEF ServerNext

\* A step that keeps the order of the answers, on a page that stays well typed.
LEMMA PageKeeps ==
  ASSUME Inv, page' \in Pages, calls' \subseteq Calls, lost' \subseteq Answers,
         posts' \subseteq Posts, UNCHANGED <<clock, row>>,
         page'.submitting => page'.status # "open",
         page'.status = "open" => posts' = {} /\ OneSave' /\ AnswersInOrder'
  PROVE  Inv'
BY Types DEF Inv, TypeOK, SubmittingMeansPosted

\* The handlers that end in updateSubmission.
LEMMA EditKeeps ==
  ASSUME Inv, Change \/ Autosave
  PROVE  Inv'
<1>1. \E p \in Pages, repeat \in BOOLEAN :
         /\ page' = Saving(p, repeat) /\ calls' = CallsAfter(p, repeat)
         /\ p.status = page.status /\ p.submitting = page.submitting
         /\ p.currentlyBackingUp = page.currentlyBackingUp /\ page.typed <= p.typed
  <2>1. CASE Change
    <3>1. PICK typed \in Answers : typed = page.typed + 1
          BY <2>1, Types, BoundsAreNumbers DEF Change, Answers
    <3>2. PICK p : p = [page EXCEPT !.typed = typed]
          OBVIOUS
    <3>3. /\ p \in Pages /\ p.status = page.status /\ p.submitting = page.submitting
          /\ p.currentlyBackingUp = page.currentlyBackingUp /\ p.typed = typed
          BY <3>2, Types DEF Pages
    <3>4. page' = Saving(p, FALSE) /\ calls' = CallsAfter(p, FALSE)
          BY <2>1, <3>1, <3>2, Types DEF Change
    <3>5. FALSE \in BOOLEAN /\ page.typed <= p.typed
          BY <3>1, <3>3, Types
    <3> QED BY <3>3, <3>4, <3>5, Zenon
  <2>2. CASE Autosave
    <3>1. PICK p : p = [page EXCEPT !.timer = "none"]
          OBVIOUS
    <3>2. /\ p \in Pages /\ p.status = page.status /\ p.submitting = page.submitting
          /\ p.currentlyBackingUp = page.currentlyBackingUp /\ p.typed = page.typed
          BY <3>1, Types DEF Pages
    <3>3. page' = Saving(p, TRUE) /\ calls' = CallsAfter(p, TRUE)
          BY <2>2, <3>1 DEF Autosave
    <3>4. TRUE \in BOOLEAN /\ page.typed <= p.typed
          BY <3>2, Types
    <3> QED BY <3>2, <3>3, <3>4, Zenon
  <2> QED BY <2>1, <2>2
<1>2. PICK p \in Pages, repeat \in BOOLEAN :
         /\ page' = Saving(p, repeat) /\ calls' = CallsAfter(p, repeat)
         /\ p.status = page.status /\ p.submitting = page.submitting
         /\ p.currentlyBackingUp = page.currentlyBackingUp /\ page.typed <= p.typed
      BY <1>1
<1>3. UNCHANGED <<clock, lost, posts, row>>
      BY DEF Change, Autosave
<1>4. /\ page' \in Pages /\ page'.status = page.status /\ page'.submitting = page.submitting
      /\ page'.typed = p.typed /\ calls' \subseteq Calls
      BY <1>2, SavingPage, SavingCalls, Types
<1>5. page.status = "open" => OneSave' /\ AnswersInOrder'
      BY <1>2, <1>3, <1>4, SavingKeeps
<1> QED BY <1>3, <1>4, <1>5, Types, PageKeeps DEF Inv, SubmittingMeansPosted

\* Both callbacks of a save.
LEMMA CallbacksKeep ==
  ASSUME Inv, NEW c \in calls, SaveSucceeds(c) \/ SaveFails(c)
  PROVE  Inv'
<1>1. PICK f : f = Finished(c)
      OBVIOUS
<1>2. /\ f \in Pages /\ f.status = page.status /\ f.typed = page.typed
      /\ f.submitting = page.submitting
      BY <1>1, Types DEF Finished, Pages
<1>3. /\ page' \in Pages /\ page'.status = page.status /\ page'.typed = page.typed
      /\ page'.submitting = page.submitting
  <2>1. CASE SaveFails(c)
        BY <1>1, <1>2, <2>1 DEF SaveFails
  <2>2. CASE SaveSucceeds(c)
    <3>1. c.end_at \in Times /\ page' = [f EXCEPT !.end_at = c.end_at]
          BY <1>1, <2>2, Types DEF SaveSucceeds
    <3> QED BY <1>2, <3>1 DEF Pages
  <2> QED BY <2>1, <2>2
<1>4. calls' = calls \ {c} /\ UNCHANGED <<clock, posts, row>>
      BY DEF SaveSucceeds, SaveFails
<1>5. lost' = lost \/ lost' = lost \cup {c.data}
      BY DEF SaveSucceeds, SaveFails
<1>6. lost' \subseteq Answers /\ calls' \subseteq Calls
      BY <1>4, <1>5, Types
<1>7. page.status = "open" => posts = {} /\ OneSave' /\ AnswersInOrder'
  <2>1. page.status = "open" => posts = {} /\ OneSave /\ AnswersInOrder /\ calls' = {}
        BY <1>4 DEF Inv, OneSave
  <2> QED BY <1>3, <1>4, <1>5, <2>1 DEF OneSave, AnswersInOrder
<1> QED BY <1>3, <1>4, <1>6, <1>7, Types, PageKeeps DEF Inv, SubmittingMeansPosted

\* The buttons.
LEMMA ButtonKeeps ==
  ASSUME Inv, NEW button \in Actions, NEW warns \in BOOLEAN, NEW agrees \in BOOLEAN,
         ClickButton(button, warns, agrees)
  PROVE  Inv'
<1>1. PICK v : v = Saving(page, FALSE)
      OBVIOUS
<1>2. /\ v \in Pages /\ v.status = page.status /\ v.typed = page.typed
      /\ v.submitting = page.submitting
      BY <1>1, Types, SavingPage
<1>3. PICK p : p = [v EXCEPT !.action = IF button = "submit" THEN @ ELSE button]
      OBVIOUS
<1>4. /\ p \in Pages /\ p.status = page.status /\ p.typed = page.typed
      /\ p.submitting = page.submitting /\ p.currentlyBackingUp = v.currentlyBackingUp
      BY <1>2, <1>3 DEF Pages
<1>5. /\ SubmitForm(p, warns, agrees) /\ calls' = CallsAfter(page, FALSE)
      /\ UNCHANGED <<clock, lost, row>>
      BY <1>1, <1>3 DEF ClickButton
<1>6. /\ page' \in Pages /\ posts' \subseteq Posts
      /\ \/ page' = p /\ ~p.submitting /\ posts' = posts
         \/ page'.status = "posting"
      BY <1>4, <1>5, SubmitFormDoes, Types
<1>7. calls' \subseteq Calls
      BY <1>5, SavingCalls, Types
<1>8. page'.status = "open" => posts' = {} /\ OneSave' /\ AnswersInOrder'
  <2> SUFFICES ASSUME page'.status = "open" PROVE posts' = {} /\ OneSave' /\ AnswersInOrder'
      OBVIOUS
  <2>1. page' = p /\ posts' = posts /\ page.status = "open"
        BY <1>4, <1>6
  <2>2. /\ page'.currentlyBackingUp = Saving(page, FALSE).currentlyBackingUp
        /\ page'.typed = page.typed
        BY <1>1, <1>4, <2>1, Zenon
  <2>3. page \in Pages /\ FALSE \in BOOLEAN /\ page.typed <= page.typed
        BY Types
  <2>4. OneSave' /\ AnswersInOrder'
        BY <1>5, <2>1, <2>2, <2>3, SavingKeeps
  <2> QED BY <2>1, <2>4 DEF Inv
<1> QED BY <1>4, <1>5, <1>6, <1>7, <1>8, Types, PageKeeps

\* The clock and the dialog.
LEMMA SubmitsItselfKeeps ==
  ASSUME Inv, NEW warns \in BOOLEAN, NEW agrees \in BOOLEAN, SubmitsItself(warns, agrees)
  PROVE  Inv'
<1>1. PICK p : p = [page EXCEPT !.submitting = TRUE]
      OBVIOUS
<1>2. p \in Pages /\ p.submitting
      BY <1>1, Types DEF Pages
<1>3. SubmitForm(p, warns, agrees) /\ UNCHANGED <<clock, calls, lost, row>>
      BY <1>1 DEF SubmitsItself
<1>4. page' \in Pages /\ posts' \subseteq Posts /\ page'.status = "posting"
      BY <1>2, <1>3, SubmitFormDoes, Types
<1> QED BY <1>3, <1>4, Types, PageKeeps

\* The page goes.
LEMMA GoesKeeps ==
  ASSUME Inv, Goes, UNCHANGED <<clock, posts>>, row' \in Rows
  PROVE  Inv'
<1>1. page' \in Pages /\ page'.status = "gone" /\ ~page'.submitting
  <2>1. PICK p : p = NewPage(0)
        OBVIOUS
  <2>2. p \in Pages /\ ~p.submitting
    <3>1. 0 \in Times /\ 0 \in Answers
          BY BoundsAreNumbers DEF Times, Answers
    <3> QED BY <2>1, <3>1 DEF NewPage, Pages, Actions
  <2>3. page' = [p EXCEPT !.status = "gone"]
        BY <2>1 DEF Goes, NoPage
  <2> QED BY <2>2, <2>3 DEF Pages
<1>2. calls' = {} /\ lost' \subseteq Answers
      BY Types DEF Goes
<1> QED BY <1>1, <1>2, Types DEF Inv, TypeOK, SubmittingMeansPosted

\* Leaving an open page, or staying after all.
LEMMA BeforeUnloadKeeps ==
  ASSUME Inv, NEW stays \in BOOLEAN, NEW arrives \in BOOLEAN, BeforeUnload(stays, arrives)
  PROVE  Inv' /\ row'.saved >= row.saved
<1>1. page.status = "open" /\ OneSave /\ AnswersInOrder /\ posts = {}
      BY DEF BeforeUnload, Inv
<1>2. row' = IF arrives /\ ~Skips(page, FALSE) THEN Stored(page.typed) ELSE row
      BY DEF BeforeUnload
<1>3. row' \in Rows /\ (row'.saved = row.saved \/ row'.saved = page.typed)
      BY <1>2, Types, StoredRow
<1>4. row'.saved >= row.saved /\ row'.saved <= page.typed
      BY <1>1, <1>3, Types DEF AnswersInOrder
<1>5. CASE ~stays
  <2>1. Goes /\ UNCHANGED <<clock, posts>>
        BY <1>5 DEF BeforeUnload
  <2> QED BY <1>3, <1>4, <2>1, GoesKeeps
<1>6. CASE stays
  <2>1. page' = Saving(page, FALSE) /\ UNCHANGED <<clock, posts, calls, lost>>
        BY <1>6 DEF BeforeUnload
  <2>2. /\ page' \in Pages /\ page'.status = "open" /\ page'.typed = page.typed
        /\ page'.submitting = page.submitting
        /\ page.currentlyBackingUp => page'.currentlyBackingUp
        BY <1>1, <2>1, SavingPage, Types DEF Skips
  <2>3. OneSave'
        BY <1>1, <2>1, <2>2 DEF OneSave
  <2>4. calls # {} => row' = row
        BY <1>1, <1>2 DEF OneSave, Skips
  <2>5. AnswersInOrder'
    <3>1. CASE calls = {}
          BY <1>1, <1>4, <2>1, <2>2, <3>1 DEF AnswersInOrder
    <3>2. CASE calls # {}
          BY <1>1, <2>1, <2>2, <2>4, <3>2 DEF AnswersInOrder
    <3> QED BY <3>1, <3>2
  <2>6. TypeOK'
        BY <1>3, <2>1, <2>2, Types DEF TypeOK
  <2>7. SubmittingMeansPosted'
        BY <1>1, <2>2, Zenon DEF Inv, SubmittingMeansPosted
  <2> QED BY <1>1, <1>4, <2>1, <2>3, <2>5, <2>6, <2>7 DEF Inv
<1> QED BY <1>5, <1>6

\* The timers, and the dialog.
LEMMA TimersKeep ==
  ASSUME Inv, TimesUp \/ TimeNext
  PROVE  Inv' /\ UNCHANGED row
  \* A step of the page that has nothing to do with saves.
<1>1. ASSUME page' \in Pages, page'.status = page.status, page'.typed = page.typed,
             page'.submitting = page.submitting,
             page'.currentlyBackingUp = page.currentlyBackingUp,
             UNCHANGED <<clock, calls, lost, posts, row>>
      PROVE  Inv'
  <2>1. page.status = "open" => posts' = {} /\ OneSave' /\ AnswersInOrder'
        BY <1>1 DEF Inv, OneSave, AnswersInOrder
  <2> QED BY <1>1, <2>1, Types, PageKeeps DEF Inv, SubmittingMeansPosted
<1>2. CASE Tick
  <2>1. clock' \in Times
        BY <1>2, Types, BoundsAreNumbers DEF Tick, Times
  <2>2. TypeOK' /\ SubmittingMeansPosted'
        BY <1>2, <2>1, Types DEF Tick, TypeOK, Inv, SubmittingMeansPosted
  <2>3. page.status = "open" => posts = {} /\ OneSave' /\ AnswersInOrder'
        BY <1>2 DEF Tick, Inv, OneSave, AnswersInOrder
  <2> QED BY <1>2, <2>2, <2>3 DEF Tick, Inv
<1>3. CASE SecondPasses
  <2>1. page' = [page EXCEPT !.recent = FALSE] /\ page \in Pages
        BY <1>3, Types DEF SecondPasses
  <2> QED BY <1>1, <1>3, <2>1 DEF SecondPasses, Pages
<1>4. CASE TimerDue
  <2>1. page' = [page EXCEPT !.timer = "due"] /\ page \in Pages
        BY <1>4, Types DEF TimerDue
  <2> QED BY <1>1, <1>4, <2>1 DEF TimerDue, Pages
<1>5. CASE CountdownEnds
  <2>1. page' = [page EXCEPT !.countDown = "over"] /\ page \in Pages
        BY <1>5, Types DEF CountdownEnds
  <2> QED BY <1>1, <1>5, <2>1 DEF CountdownEnds, Pages
<1>6. CASE TimesUp
  <2>1. page' = [page EXCEPT !.dialogged = TRUE, !.countDown = "running"] /\ page \in Pages
        BY <1>6, Types DEF TimesUp
  <2> QED BY <1>1, <1>6, <2>1 DEF TimesUp, Pages
<1> QED BY <1>2, <1>3, <1>4, <1>5, <1>6 DEF TimeNext

-----------------------------------------------------------------------------
(* The theorems. *)

\* The invariant holds at the start ...
LEMMA InitInv == Init => Inv
<1> SUFFICES ASSUME Init PROVE Inv
    OBVIOUS
<1>1. PICK end \in Times : /\ page = NewPage(end)
                           /\ row = [state |-> "untaken", saved |-> 0, end_at |-> end]
      BY DEF Init
<1>2. 0 \in Answers /\ 0 \in Times
      BY BoundsAreNumbers DEF Answers, Times
<1>3. page \in Pages /\ ~page.submitting /\ page.typed = 0
      BY <1>1, <1>2 DEF NewPage, Pages, Actions
<1>4. row \in Rows /\ row.saved = 0
      BY <1>1, <1>2 DEF Rows
<1>5. TypeOK
      BY <1>2, <1>3, <1>4 DEF Init, TypeOK
<1>6. posts = {} /\ OneSave /\ AnswersInOrder
      BY <1>3, <1>4 DEF Init, OneSave, AnswersInOrder
<1> QED BY <1>3, <1>5, <1>6 DEF Inv, SubmittingMeansPosted

\* ... and is kept by every step, which sets the server back only by a save that
\* the page had given up.
LEMMA StepInv ==
  ASSUME Inv, [Next]_vars
  PROVE  Inv' /\ (page.status = "open" /\ lost' = lost => row'.saved >= row.saved)
<1>1. ASSUME Inv', row' = row
      PROVE  Inv' /\ (page.status = "open" /\ lost' = lost => row'.saved >= row.saved)
      BY <1>1, Types
<1>2. CASE UNCHANGED vars
  <2>1. Inv'
        BY <1>2 DEF vars, Inv, TypeOK, SubmittingMeansPosted, OneSave, AnswersInOrder
  <2> QED BY <1>1, <1>2, <2>1 DEF vars
<1>3. CASE ServerNext
      BY <1>3, ServerKeeps
<1>4. CASE Change \/ Autosave
      BY <1>1, <1>4, EditKeeps DEF Change, Autosave
<1>5. CASE \E c \in calls : SaveSucceeds(c) \/ SaveFails(c)
      BY <1>1, <1>5, CallbacksKeep DEF SaveSucceeds, SaveFails
<1>6. CASE \E button \in Actions, warns \in BOOLEAN, agrees \in BOOLEAN :
             ClickButton(button, warns, agrees)
      BY <1>1, <1>6, ButtonKeeps DEF ClickButton
<1>7. CASE \E warns \in BOOLEAN, agrees \in BOOLEAN :
             CloseDialog(warns, agrees) \/ CountdownSubmits(warns, agrees)
  <2>1. \E warns \in BOOLEAN, agrees \in BOOLEAN : SubmitsItself(warns, agrees)
        BY <1>7 DEF CloseDialog, CountdownSubmits
  <2>2. row' = row
        BY <2>1 DEF SubmitsItself
  <2> QED BY <1>1, <2>1, <2>2, SubmitsItselfKeeps
<1>8. CASE Navigate
      BY <1>1, <1>8, GoesKeeps, Types DEF Navigate
<1>9. CASE \E stays \in BOOLEAN, arrives \in BOOLEAN : BeforeUnload(stays, arrives)
      BY <1>9, BeforeUnloadKeeps
<1>10. CASE TimesUp \/ TimeNext
      BY <1>1, <1>10, TimersKeep
<1> QED BY <1>2, <1>3, <1>4, <1>5, <1>6, <1>7, <1>8, <1>9, <1>10 DEF Next, PageNext

\* At every step of the page, the server and the teacher the invariant holds.
LEMMA Invariance == Spec => []Inv
<1>1. Inv /\ [Next]_vars => Inv'
      BY StepInv
<1> QED BY <1>1, InitInv, PTL DEF Spec

\* A page that takes itself for submitting has posted its form: whichever of the
\* buttons, the clock and the dialog came first, a student's No leaves the flag
\* as it was (take_quiz.js:71, 169, 488).
THEOREM SubmittingPosts == Spec => []SubmittingMeansPosted
<1>1. Inv => SubmittingMeansPosted
      BY DEF Inv
<1> QED BY <1>1, Invariance, PTL

\* While the page is open the saved answers go back only by a save the page had
\* given up, in whatever order calls time out, answers come and the student
\* begins to leave (take_quiz.js:74, 144).
THEOREM SavesGoForward == Spec => SavedForward
<1>1. Inv /\ [Next]_vars
        => [page.status = "open" /\ row'.saved < row.saved => lost' # lost]_vars
  <2> SUFFICES ASSUME Inv, [Next]_vars, page.status = "open", lost' = lost
               PROVE  ~(row'.saved < row.saved)
      OBVIOUS
  <2>1. row'.saved >= row.saved /\ Inv'
        BY StepInv
  <2>2. row.saved \in Nat /\ row'.saved \in Nat
    <3>1. row' \in Rows
          BY <2>1 DEF Inv, TypeOK
    <3> QED BY <3>1, Types DEF Rows, Answers
  <2> QED BY <2>1, <2>2
<1> QED BY <1>1, Invariance, PTL DEF Spec, SavedForward
=============================================================================
