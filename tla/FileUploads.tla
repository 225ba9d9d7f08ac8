---------------------------- MODULE FileUploads ----------------------------
(***************************************************************************)
(* The uploads of the files page (fileUpload in full_files.js): files      *)
(* dropped on the page, which one AJAX call after the other uploads; files *)
(* chosen in the Flash plug-in, which a chain of callbacks takes through   *)
(* preflight, /files/pending, the upload and success_url; and the bar that *)
(* says how many are under way, with its slides and delays.                *)
(*                                                                         *)
(* Dropped files are only counted.  JavaScript runs one handler at a time, *)
(* so each handler is one step.  Nothing is assumed of the plug-in: it may *)
(* report success, an error or nothing.                                    *)
(***************************************************************************)
EXTENDS Naturals, Sequences, SequencesExt

CONSTANTS
  Files,    \* files the student chooses in the plug-in
  MaxDrops  \* bound on the files dropped on the page

ASSUME DropsAreCounted == MaxDrops \in Nat
ASSUME FilesAreFinite == IsFiniteSet(Files)

VARIABLES
  dropped,    \* files dropped so far
  preflights, \* GETs of /files/preflight under way, by kind
  dialog,     \* whose buttons the dialog of duplicates has
  ajax,       \* queue length, currentlyUploading, calls and 500 ms timers under way
  swf,        \* swfPreQueued, swfFiles, whether swfFileQueueOnce is due
  flash,      \* files the plug-in holds, was told to start, has cancelled
  calls,      \* files whose POST /files/pending, GET success_url is under way
  rows,       \* files that have a row, whose row has class done, errored
  bar         \* status_status, status_request

vars == <<dropped, preflights, dialog, ajax, swf, flash, calls, rows, bar>>

Kinds == {"drop", "swf"}

TypeOK ==
  /\ dropped \in 0..MaxDrops
  /\ preflights \in [Kinds -> Nat]
  /\ dialog \in Kinds \cup {"none"}
  /\ ajax \in [queue : 0..MaxDrops, currentlyUploading : BOOLEAN,
               calls : 0..1, timers : 0..1]
  /\ swf \in [preQueued : Seq(Files), files : SUBSET Files, once : BOOLEAN]
  /\ flash \in [chosen : SUBSET Files, held : SUBSET Files,
                started : SUBSET Files, cancelled : SUBSET Files]
  /\ calls \in [pending : SUBSET Files, finalizing : SUBSET Files]
  /\ rows \in [shown : SUBSET Files, done : SUBSET Files, errored : SUBSET Files]
  /\ bar \in [status : {"hidden", "showing", "shown", "hiding"},
              request : {"hidden", "shown"}]

Init ==
  /\ dropped = 0
  /\ preflights = [kind \in Kinds |-> 0]
  /\ dialog = "none"
  /\ ajax = [queue |-> 0, currentlyUploading |-> FALSE, calls |-> 0, timers |-> 0]
  /\ swf = [preQueued |-> <<>>, files |-> {}, once |-> FALSE]
  /\ flash = [chosen |-> {}, held |-> {}, started |-> {}, cancelled |-> {}]
  /\ calls = [pending |-> {}, finalizing |-> {}]
  /\ rows = [shown |-> {}, done |-> {}, errored |-> {}]
  /\ bar = [status |-> "hidden", request |-> "hidden"]

-----------------------------------------------------------------------------
(* The bar. *)

ShowStatus(b) ==
  [status |-> IF b.status = "hidden" THEN "showing" ELSE b.status, request |-> "shown"]

HideStatus(b) ==
  [status |-> IF b.status = "shown" THEN "hiding" ELSE b.status, request |-> "hidden"]

ShownForgetting ==
  /\ bar.status = "showing"
  /\ bar' = [bar EXCEPT !.status = "shown"]
  /\ UNCHANGED <<dropped, preflights, dialog, ajax, swf, flash, calls, rows>>

\* The slide down, and three seconds.
Shown ==
  /\ bar.status = "showing"
  /\ LET b == [bar EXCEPT !.status = "shown"]
     IN bar' = IF b.request = "hidden" THEN HideStatus(b) ELSE b
  /\ UNCHANGED <<dropped, preflights, dialog, ajax, swf, flash, calls, rows>>

\* The slide up.
Hidden ==
  /\ bar.status = "hiding"
  /\ LET b == [bar EXCEPT !.status = "hidden"]
     IN bar' = IF b.request = "shown" THEN ShowStatus(b) ELSE b
  /\ UNCHANGED <<dropped, preflights, dialog, ajax, swf, flash, calls, rows>>

CountWithoutCurrent(a, s) == Len(s.preQueued) + Cardinality(s.files) + a.queue

\* Files under way.
Count(a, s) ==
  Len(s.preQueued) + Cardinality(s.files) + a.queue + IF a.currentlyUploading THEN 1 ELSE 0

\* updateUploadCount at the end of a handler; errored rows count when they are visible.
UpdateUploadCount(b) ==
  \E visible \in {errored \in BOOLEAN : errored => rows'.errored # {}} :
    bar' = IF Count(ajax', swf') = 0 /\ ~visible THEN HideStatus(b) ELSE ShowStatus(b)

-----------------------------------------------------------------------------
(* Dropped files. *)

\* The page's ajax after n files were queued by queueAjaxUpload.
QueuedUnguarded(n) ==
  [ajax EXCEPT !.queue = @ + n - 1, !.currentlyUploading = TRUE, !.calls = @ + 1]

\* queueAjaxUpload of n files: uploadAjaxFiles begins unless one is uploading.
Queued(n) ==
  IF ajax.currentlyUploading
  THEN [ajax EXCEPT !.queue = @ + n]
  ELSE [ajax EXCEPT !.queue = @ + n - 1, !.currentlyUploading = TRUE, !.calls = @ + 1]

QueueAjaxUploads(n) ==
  /\ dropped + n <= MaxDrops
  /\ dropped' = dropped + n
  /\ ajax' = Queued(n)
  /\ bar' = ShowStatus(bar)
  /\ UNCHANGED <<swf, flash, calls, rows>>

AjaxUploadedOnly ==
  /\ ajax.calls > 0
  /\ ajax' = [ajax EXCEPT !.calls = @ - 1]
  /\ UNCHANGED <<dropped, preflights, dialog, swf, flash, calls, rows, bar>>

\* Either callback of an upload sets the timer for the next one.
AjaxUploaded ==
  /\ ajax.calls > 0
  /\ ajax' = [ajax EXCEPT !.calls = @ - 1, !.timers = @ + 1]
  /\ UNCHANGED <<dropped, preflights, dialog, swf, flash, calls, rows, bar>>

\* uploadAjaxFiles(true) by the timer: the next file ...
UploadAjaxFiles ==
  /\ ajax.timers > 0
  /\ ajax.queue > 0
  /\ ajax' = [ajax EXCEPT !.timers = @ - 1, !.queue = @ - 1, !.calls = @ + 1]
  /\ UNCHANGED <<dropped, preflights, dialog, swf, flash, calls, rows, bar>>

\* ... or none is left.
AjaxFilesEnd ==
  /\ ajax.timers > 0
  /\ ajax.queue = 0
  /\ ajax' = [ajax EXCEPT !.timers = @ - 1, !.currentlyUploading = FALSE]
  /\ UNCHANGED <<dropped, preflights, dialog, swf, flash, calls, rows>>
  /\ UpdateUploadCount(bar)

-----------------------------------------------------------------------------
(* Files chosen in the plug-in. *)

\* swfFileQueue.
SwfFileQueue(f) ==
  /\ f \notin flash.chosen
  /\ flash' = [flash EXCEPT !.chosen = @ \cup {f}, !.held = @ \cup {f}]
  /\ swf' = [swf EXCEPT !.preQueued = Append(@, f), !.once = TRUE]
  /\ UNCHANGED <<dropped, preflights, dialog, ajax, calls, rows, bar>>

\* swfFileQueueNext after these changes: swfFileQueueReal of the first file.
SwfFileQueueNext(s, c, r) ==
  IF s.preQueued = <<>>
  THEN swf' = s /\ calls' = c /\ rows' = r
  ELSE LET f == Head(s.preQueued)
       IN /\ swf' = [s EXCEPT !.preQueued = Tail(@), !.files = @ \cup {f}]
          /\ calls' = [c EXCEPT !.pending = @ \cup {f}]
          /\ rows' = [r EXCEPT !.shown = @ \cup {f}]

Without(f) == [swf EXCEPT !.files = @ \ {f}]

\* initFile finds the file's row or makes it.
DoneRow(f) == [rows EXCEPT !.shown = @ \cup {f}, !.done = @ \cup {f}]

\* swfFileError, with c of the calls left.
SwfFileError(f, c) ==
  /\ SwfFileQueueNext(Without(f), c, [DoneRow(f) EXCEPT !.errored = @ \cup {f}])
  /\ UpdateUploadCount(ShowStatus(bar))

\* swfFileSuccess of an answer without errors.
SwfFileSuccess(f, c) ==
  /\ SwfFileQueueNext(Without(f), c, DoneRow(f))
  /\ UpdateUploadCount(bar)

\* uploadify('cancel') of the files: the plug-in lets go of what it holds, and
\* tells the page in events of their own.
CancelInPlugin(files) ==
  [flash EXCEPT !.held = @ \ files, !.cancelled = @ \cup (files \cap flash.held)]

\* The event of a cancelled file: onCancel (swfCancel), then onUploadError.
SwfCancelled(f) ==
  /\ f \in flash.cancelled
  /\ flash' = [flash EXCEPT !.cancelled = @ \ {f}]
  /\ UNCHANGED <<dropped, preflights, dialog, ajax>>
  /\ SwfFileError(f, calls)

\* The link in the file's row.
ClickCancel(f) ==
  /\ f \in swf.files
  /\ f \notin rows.done
  /\ flash' = CancelInPlugin({f})
  /\ UNCHANGED <<dropped, preflights, dialog, ajax, swf, calls, rows, bar>>

PendingAlways(f) ==
  /\ f \in calls.pending
  /\ calls' = [calls EXCEPT !.pending = @ \ {f}]
  /\ flash' = [flash EXCEPT !.started = @ \cup {f}]
  /\ UNCHANGED <<dropped, preflights, dialog, ajax, swf, rows>>
  /\ UpdateUploadCount(bar)

\* The answer of POST /files/pending: swfUploadNext, unless the file is done with.
PendingAnswers(f) ==
  /\ f \in calls.pending
  /\ calls' = [calls EXCEPT !.pending = @ \ {f}]
  /\ flash' = IF f \in rows.done THEN flash ELSE [flash EXCEPT !.started = @ \cup {f}]
  /\ UNCHANGED <<dropped, preflights, dialog, ajax, swf, rows>>
  /\ UpdateUploadCount(bar)

PendingFails(f) ==
  /\ f \in calls.pending
  /\ calls' = [calls EXCEPT !.pending = @ \ {f}]
  /\ flash' = CancelInPlugin({f})
  /\ UNCHANGED <<dropped, preflights, dialog, ajax, swf, rows, bar>>

\* The plug-in ends an upload of a file it holds.  A success whose answer has
\* errors ends like a failure.
UploadEnds(f) ==
  /\ f \in flash.started \cap flash.held
  /\ flash' = [flash EXCEPT !.held = @ \ {f}]
  /\ UNCHANGED <<dropped, preflights, dialog, ajax>>

UploadFails(f) == UploadEnds(f) /\ SwfFileError(f, calls)

UploadSucceeds(f) == UploadEnds(f) /\ SwfFileSuccess(f, calls)

\* S3 has it: s3Success asks success_url.
UploadStored(f) ==
  /\ UploadEnds(f)
  /\ calls' = [calls EXCEPT !.finalizing = @ \cup {f}]
  /\ UNCHANGED <<swf, rows, bar>>

\* Its answer.
Finalized(f) ==
  /\ f \in calls.finalizing
  /\ UNCHANGED <<dropped, preflights, dialog, ajax, flash>>
  /\ LET c == [calls EXCEPT !.finalizing = @ \ {f}]
     IN SwfFileSuccess(f, c) \/ SwfFileError(f, c)

\* A click removes the row of a file that is done.  A file still to be queued
\* gets a new row then, without the mark.
ClickRow(f) ==
  /\ f \in rows.shown \cap rows.done
  /\ rows' = [shown |-> rows.shown \ {f},
              done |-> IF f \in Range(swf.preQueued) THEN rows.done \ {f} ELSE rows.done,
              errored |-> rows.errored \ {f}]
  /\ UNCHANGED <<dropped, preflights, dialog, ajax, swf, flash, calls>>
  /\ UpdateUploadCount(bar)

-----------------------------------------------------------------------------
(* files.preflight, with the callbacks of both kinds. *)

\* A drop, or swfFileQueueOnce half a second after the last file was chosen.
Preflight(kind) ==
  /\ IF kind = "swf" THEN swf.once ELSE dropped < MaxDrops /\ preflights["drop"] = 0
  /\ swf' = IF kind = "swf" THEN [swf EXCEPT !.once = FALSE] ELSE swf
  /\ preflights' = [preflights EXCEPT ![kind] = @ + 1]
  /\ UNCHANGED <<dropped, dialog, ajax, flash, calls, rows, bar>>

OnSuccess(kind) ==
  \/ kind = "drop" /\ \E n \in 1..MaxDrops : QueueAjaxUploads(n)
  \/ /\ kind = "swf"
     /\ SwfFileQueueNext(swf, calls, rows)
     /\ UNCHANGED <<dropped, ajax, flash>>
     /\ UpdateUploadCount(bar)

\* Nothing for a drop; all that is in swfPreQueued, which keeps it.
OnCancel(kind) ==
  /\ flash' = IF kind = "swf" THEN CancelInPlugin(Range(swf.preQueued)) ELSE flash
  /\ UNCHANGED <<dropped, ajax, swf, calls, rows, bar>>

Answered(kind) ==
  /\ preflights[kind] > 0
  /\ preflights' = [preflights EXCEPT ![kind] = @ - 1]

NoDuplicates(kind) == Answered(kind) /\ OnSuccess(kind) /\ UNCHANGED dialog

PreflightFails(kind) == Answered(kind) /\ OnCancel(kind) /\ UNCHANGED dialog

\* There is one dialog: its buttons are bound anew.
Duplicates(kind) ==
  /\ Answered(kind)
  /\ dialog' = kind
  /\ UNCHANGED <<dropped, ajax, swf, flash, calls, rows, bar>>

ChooseMethod == dialog # "none" /\ OnSuccess(dialog) /\ dialog' = "none" /\ UNCHANGED preflights

CancelDialog == dialog # "none" /\ OnCancel(dialog) /\ dialog' = "none" /\ UNCHANGED preflights

\* The X of the dialog calls nothing back.
CloseDialog ==
  /\ dialog # "none"
  /\ dialog' = "none"
  /\ UNCHANGED <<dropped, preflights, ajax, swf, flash, calls, rows, bar>>

-----------------------------------------------------------------------------
SwfNext(f) ==
  \/ SwfFileQueue(f) \/ ClickCancel(f) \/ ClickRow(f)
  \/ SwfCancelled(f) \/ PendingAnswers(f) \/ PendingFails(f)
  \/ UploadFails(f) \/ UploadSucceeds(f) \/ UploadStored(f) \/ Finalized(f)

PreflightNext(kind) ==
  Preflight(kind) \/ NoDuplicates(kind) \/ PreflightFails(kind) \/ Duplicates(kind)

Next ==
  \/ Shown \/ Hidden
  \/ AjaxUploaded \/ UploadAjaxFiles \/ AjaxFilesEnd
  \/ \E f \in Files : SwfNext(f)
  \/ \E kind \in Kinds : PreflightNext(kind)
  \/ ChooseMethod \/ CancelDialog \/ CloseDialog

Spec == Init /\ [][Next]_vars

(***************************************************************************)
(* The browser ends every AJAX upload and runs its timers and animations.  *)
(* Nothing is assumed of the plug-in, the other calls or the student.      *)
(***************************************************************************)
Fairness ==
  /\ WF_vars(AjaxUploaded)
  /\ WF_vars(UploadAjaxFiles)
  /\ WF_vars(AjaxFilesEnd)
  /\ WF_vars(Shown)
  /\ WF_vars(Hidden)

LiveSpec == Spec /\ Fairness

-----------------------------------------------------------------------------
(* Properties. *)

\* One dropped file is uploaded at a time, also when files are dropped in the
\* half second between two uploads, and the page takes itself for uploading just
\* as long (full_files.js:2462, 2485).
OneAjaxUpload ==
  /\ ajax.calls + ajax.timers <= 1
  /\ ajax.currentlyUploading <=> ajax.calls + ajax.timers = 1

\* While a file of either kind is under way the bar is wanted: nothing that ends
\* first, a row clicked away or an empty queue of the other kind, takes it away
\* (full_files.js:2514-2519).
BarWhileUploading ==
  ajax.currentlyUploading \/ swf.files # {} => bar.request = "shown"

\* A file that was cancelled or failed while /files/pending was under way is not
\* started by the late answer (full_files.js:2609).
DoneIsNotStarted ==
  [][\A f \in rows.done : f \in flash.started' => f \in flash.started]_vars

\* Every dropped file gets its turn, whether the uploads before it succeed or fail
\* (full_files.js:2485-2487, 2504-2506).
DropsAreUploaded == ajax.queue > 0 ~> ajax.queue = 0

\* The bar comes to what was last asked of it, though it may be asked for the
\* opposite in the middle of a slide (full_files.js:2432, 2443).
BarSettles ==
  \A wish \in {"hidden", "shown"} :
    bar.request = wish ~> (bar.status = wish \/ bar.request # wish)
=============================================================================
