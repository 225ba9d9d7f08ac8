-------------------------- MODULE FileUploadsProofs --------------------------
(***************************************************************************)
(* Theorems about FileUploads: its safety properties, for any files and    *)
(* any number of drops.                                                    *)
(*                                                                         *)
(* The two properties hold together: which of the callbacks may begin the  *)
(* next upload is known from ajax alone, and every handler that puts a     *)
(* file under way or takes one from it ends by asking for the bar anew.    *)
(***************************************************************************)
EXTENDS FileUploads, FiniteSetTheorems, TLAPS

\* No file waits that was not dropped.
QueuedWereDropped == ajax.queue <= dropped

\* The inductive invariant.
Inv == TypeOK /\ QueuedWereDropped /\ OneAjaxUpload /\ BarWhileUploading

Ajaxes == [queue : 0..MaxDrops, currentlyUploading : BOOLEAN, calls : 0..1, timers : 0..1]
Swfs == [preQueued : Seq(Files), files : SUBSET Files, once : BOOLEAN]
Flashes == [chosen : SUBSET Files, held : SUBSET Files, started : SUBSET Files,
            cancelled : SUBSET Files]
Callses == [pending : SUBSET Files, finalizing : SUBSET Files]
Rowses == [shown : SUBSET Files, done : SUBSET Files, errored : SUBSET Files]
Bars == [status : {"hidden", "showing", "shown", "hiding"}, request : {"hidden", "shown"}]

-----------------------------------------------------------------------------
(* The bar.                                                                *)

\* What the bar is asked for is a bar.
LEMMA BarTypes ==
  ASSUME NEW b \in Bars
  PROVE  /\ ShowStatus(b) \in Bars /\ ShowStatus(b).request = "shown"
         /\ HideStatus(b) \in Bars /\ HideStatus(b).request = "hidden"
BY DEF Bars, ShowStatus, HideStatus

\* Nothing is counted only when nothing is under way.
LEMMA NothingCounted ==
  ASSUME NEW a \in Ajaxes, NEW s \in Swfs, Count(a, s) = 0
  PROVE  ~a.currentlyUploading /\ s.files = {}
<1>1. a.queue \in Nat /\ Len(s.preQueued) \in Nat /\ a.currentlyUploading \in BOOLEAN
  BY DropsAreCounted DEF Ajaxes, Swfs
<1>2. IsFiniteSet(s.files)
  BY FilesAreFinite, FS_Subset DEF Swfs
<1>3. Cardinality(s.files) \in Nat
  BY <1>2, FS_CardinalityType
<1>4. Cardinality(s.files) = 0 /\ ~a.currentlyUploading
  BY <1>1, <1>3 DEF Count
<1> QED BY <1>2, <1>4, FS_EmptySet

\* A handler that ends with updateUploadCount leaves the bar as it has to be.
LEMMA UpdateLeavesBar ==
  ASSUME NEW b \in Bars, ajax' \in Ajaxes, swf' \in Swfs, UpdateUploadCount(b)
  PROVE  bar' \in Bars /\ BarWhileUploading'
<1>1. PICK visible \in BOOLEAN :
        bar' = IF Count(ajax', swf') = 0 /\ ~visible THEN HideStatus(b) ELSE ShowStatus(b)
  BY DEF UpdateUploadCount
<1>2. CASE Count(ajax', swf') = 0
  BY <1>1, <1>2, BarTypes, NothingCounted DEF BarWhileUploading
<1>3. CASE Count(ajax', swf') # 0
  BY <1>1, <1>3, BarTypes DEF BarWhileUploading
<1> QED BY <1>2, <1>3

\* The slides keep what was asked for.
LEMMA SlideStep ==
  ASSUME Inv, Shown \/ Hidden
  PROVE  Inv'
<1>1. bar \in Bars
  BY DEF Inv, TypeOK, Bars
<1>2. bar' \in Bars /\ bar'.request = bar.request
  BY <1>1 DEF Shown, Hidden, ShowStatus, HideStatus, Bars
<1>3. UNCHANGED <<dropped, preflights, dialog, ajax, swf, flash, calls, rows>>
  BY DEF Shown, Hidden
<1> QED BY <1>2, <1>3 DEF Inv, TypeOK, Bars, QueuedWereDropped, OneAjaxUpload, BarWhileUploading

-----------------------------------------------------------------------------
(* Dropped files.                                                          *)

\* The records of the state, by their types.
LEMMA TypeParts ==
  ASSUME TypeOK
  PROVE  /\ dropped \in 0..MaxDrops /\ MaxDrops \in Nat /\ preflights \in [Kinds -> Nat]
         /\ dialog \in Kinds \cup {"none"} /\ ajax \in Ajaxes /\ swf \in Swfs
         /\ flash \in Flashes /\ calls \in Callses /\ rows \in Rowses /\ bar \in Bars
BY DropsAreCounted DEF TypeOK, Ajaxes, Swfs, Flashes, Callses, Rowses, Bars

\* The changes that handlers make to ajax.
LEMMA AjaxTypes ==
  ASSUME NEW a \in Ajaxes, NEW q \in 0..MaxDrops, NEW c \in 0..1, NEW t \in 0..1
  PROVE  /\ [a EXCEPT !.queue = q, !.currentlyUploading = TRUE, !.calls = c] \in Ajaxes
         /\ [a EXCEPT !.calls = c, !.timers = t] \in Ajaxes
         /\ [a EXCEPT !.timers = t, !.queue = q, !.calls = c] \in Ajaxes
<1>1. [a EXCEPT !.queue = q, !.currentlyUploading = TRUE, !.calls = c] \in Ajaxes
  BY DEF Ajaxes
<1>2. [a EXCEPT !.calls = c, !.timers = t] \in Ajaxes
  BY DEF Ajaxes
<1>3. [a EXCEPT !.timers = t, !.queue = q, !.calls = c] \in Ajaxes
  BY DEF Ajaxes
<1> QED BY <1>1, <1>2, <1>3

\* Queued files begin an upload only when none is under way.
LEMMA QueueAjaxUploadsKept ==
  ASSUME Inv, NEW n \in 1..MaxDrops, QueueAjaxUploads(n)
  PROVE  /\ dropped' \in 0..MaxDrops /\ ajax' \in Ajaxes /\ bar' \in Bars
         /\ QueuedWereDropped' /\ OneAjaxUpload' /\ BarWhileUploading'
<1>1. /\ ajax \in Ajaxes /\ bar \in Bars /\ dropped \in Nat /\ MaxDrops \in Nat /\ n \in Nat /\ n >= 1
      /\ dropped + n <= MaxDrops /\ dropped' = dropped + n /\ ajax' = Queued(n)
      /\ bar' = ShowStatus(bar)
  BY TypeParts DEF Inv, QueueAjaxUploads
<1>2. ajax.queue \in Nat /\ ajax.queue <= dropped
  BY <1>1 DEF Inv, QueuedWereDropped, Ajaxes
<1>3. CASE ajax.currentlyUploading
  <2>1. ajax' = [ajax EXCEPT !.queue = @ + n]
    BY <1>1, <1>3 DEF Queued
  <2>2. ajax.queue + n \in 0..MaxDrops
    BY <1>1, <1>2
  <2>3. /\ ajax' \in Ajaxes /\ ajax'.queue = ajax.queue + n /\ ajax'.calls = ajax.calls
        /\ ajax'.timers = ajax.timers /\ ajax'.currentlyUploading = ajax.currentlyUploading
    BY <1>1, <2>1, <2>2 DEF Ajaxes
  <2> QED BY <1>1, <1>2, <2>3, BarTypes DEF Inv, QueuedWereDropped, OneAjaxUpload, BarWhileUploading
<1>4. CASE ~ajax.currentlyUploading
  <2>1. ajax' = [ajax EXCEPT !.queue = @ + n - 1, !.currentlyUploading = TRUE, !.calls = @ + 1]
    BY <1>1, <1>4 DEF Queued
  <2>2. ajax.queue + n - 1 \in 0..MaxDrops
    BY <1>1, <1>2
  <2>3. ajax.calls = 0 /\ ajax.timers = 0
    BY <1>1, <1>4 DEF Inv, OneAjaxUpload, Ajaxes
  <2>4. ajax' = [ajax EXCEPT !.queue = ajax.queue + n - 1, !.currentlyUploading = TRUE, !.calls = 1]
    BY <2>1, <2>3
  <2>5. ajax' \in Ajaxes
    <3>1. 0 \in 0..1 /\ 1 \in 0..1
      OBVIOUS
    <3>2. ajax \in Ajaxes
      BY <1>1
    <3> QED BY <2>2, <2>4, <3>1, <3>2, AjaxTypes, Zenon
  <2>6. ajax'.queue = ajax.queue + n - 1 /\ ajax'.calls = 1 /\ ajax'.timers = 0
    BY <1>1, <2>3, <2>4 DEF Ajaxes
  <2>7. ajax'.currentlyUploading = TRUE
    BY <1>1, <2>4 DEF Ajaxes
  <2> QED BY <1>1, <1>2, <2>5, <2>6, <2>7, BarTypes DEF QueuedWereDropped, OneAjaxUpload, BarWhileUploading
<1> QED BY <1>3, <1>4

\* A callback of an upload leaves a timer in its place, and the timer an upload
\* or nothing.
LEMMA AjaxStep ==
  ASSUME Inv, AjaxUploaded \/ UploadAjaxFiles \/ AjaxFilesEnd
  PROVE  Inv'
<1>1. /\ ajax \in Ajaxes /\ bar \in Bars /\ dropped \in Nat /\ MaxDrops \in Nat /\ swf \in Swfs
      /\ UNCHANGED <<dropped, preflights, dialog, swf, flash, calls, rows>>
  BY TypeParts DEF Inv, AjaxUploaded, UploadAjaxFiles, AjaxFilesEnd
<1>2. /\ ajax' \in Ajaxes /\ ajax'.queue <= ajax.queue
      /\ ajax'.calls + ajax'.timers <= 1
      /\ ajax'.currentlyUploading <=> ajax'.calls + ajax'.timers = 1
  <2>0. /\ ajax.queue \in 0..MaxDrops /\ ajax.calls \in 0..1 /\ ajax.timers \in 0..1
        /\ ajax.currentlyUploading \in BOOLEAN
        /\ ajax.calls + ajax.timers <= 1
        /\ ajax.currentlyUploading <=> ajax.calls + ajax.timers = 1
    BY <1>1 DEF Ajaxes, Inv, OneAjaxUpload
  <2>1. CASE AjaxUploaded
    <3>1. ajax.currentlyUploading /\ ajax.calls = 1 /\ ajax.timers = 0
      BY <2>0, <2>1 DEF AjaxUploaded
    <3>2. ajax' = [ajax EXCEPT !.calls = 0, !.timers = 1]
      BY <2>1, <3>1 DEF AjaxUploaded
    <3>3. ajax' \in Ajaxes
      <4>1. 0 \in 0..1 /\ 1 \in 0..1
        OBVIOUS
      <4> QED BY <1>1, <2>0, <3>2, <4>1, AjaxTypes, Zenon
    <3>4. ajax'.queue = ajax.queue /\ ajax'.calls = 0 /\ ajax'.timers = 1
      BY <1>1, <3>2 DEF Ajaxes
    <3>5. ajax'.currentlyUploading = ajax.currentlyUploading
      BY <1>1, <3>2 DEF Ajaxes
    <3> QED BY <2>0, <3>1, <3>3, <3>4, <3>5
  <2>2. CASE UploadAjaxFiles
    <3>1. ajax.currentlyUploading /\ ajax.calls = 0 /\ ajax.timers = 1 /\ ajax.queue > 0
      BY <2>0, <2>2 DEF UploadAjaxFiles
    <3>2. ajax.queue - 1 \in 0..MaxDrops /\ ajax.queue - 1 <= ajax.queue
      BY <1>1, <2>0, <3>1
    <3>3. ajax' = [ajax EXCEPT !.timers = 0, !.queue = ajax.queue - 1, !.calls = 1]
      BY <2>2, <3>1 DEF UploadAjaxFiles
    <3>4. ajax' \in Ajaxes
      <4>1. 0 \in 0..1 /\ 1 \in 0..1
        OBVIOUS
      <4> QED BY <1>1, <3>2, <3>3, <4>1, AjaxTypes, Zenon
    <3>5. ajax'.queue = ajax.queue - 1 /\ ajax'.calls = 1 /\ ajax'.timers = 0
      BY <1>1, <3>3 DEF Ajaxes
    <3>6. ajax'.currentlyUploading = ajax.currentlyUploading
      BY <1>1, <3>3 DEF Ajaxes
    <3> QED BY <3>1, <3>2, <3>4, <3>5, <3>6
  <2>3. CASE AjaxFilesEnd
    <3>1. ajax.calls = 0 /\ ajax.timers = 1
      BY <2>0, <2>3 DEF AjaxFilesEnd
    <3>2. ajax' = [ajax EXCEPT !.timers = 0, !.currentlyUploading = FALSE]
      BY <2>3, <3>1 DEF AjaxFilesEnd
    <3>3. /\ ajax' \in Ajaxes /\ ajax'.queue = ajax.queue /\ ajax'.calls = 0 /\ ajax'.timers = 0
          /\ ajax'.currentlyUploading = FALSE
      BY <1>1, <3>1, <3>2 DEF Ajaxes
    <3> QED BY <2>0, <3>3
  <2> QED BY <2>1, <2>2, <2>3
<1>3. QueuedWereDropped' /\ OneAjaxUpload'
  BY <1>1, <1>2 DEF Inv, QueuedWereDropped, OneAjaxUpload, Ajaxes
<1>4. bar' \in Bars /\ BarWhileUploading'
  <2>1. CASE AjaxFilesEnd
    BY <1>1, <1>2, <2>1, UpdateLeavesBar DEF AjaxFilesEnd
  <2>2. CASE AjaxUploaded \/ UploadAjaxFiles
    <3>1. bar' = bar /\ ajax'.currentlyUploading = ajax.currentlyUploading
      BY <1>1, <2>2 DEF AjaxUploaded, UploadAjaxFiles, Ajaxes
    <3> QED BY <1>1, <3>1 DEF Inv, BarWhileUploading
  <2> QED BY <2>1, <2>2
<1> QED BY <1>1, <1>2, <1>3, <1>4 DEF Inv, TypeOK, Ajaxes, Bars

-----------------------------------------------------------------------------
(* Files chosen in the plug-in.                                            *)

\* A handler that touches the plug-in's files alone has the invariant if its
\* records are records and it leaves the bar as it has to be.
LEMMA SwfKept ==
  ASSUME Inv, UNCHANGED <<dropped, ajax>>, preflights' \in [Kinds -> Nat],
         dialog' \in Kinds \cup {"none"}, swf' \in Swfs, flash' \in Flashes,
         calls' \in Callses, rows' \in Rowses, bar' \in Bars, BarWhileUploading'
  PROVE  Inv'
BY TypeParts DEF Inv, TypeOK, Ajaxes, Swfs, Flashes, Callses, Rowses, Bars, QueuedWereDropped,
   OneAjaxUpload

\* The next file leaves swfPreQueued for swfFiles, or nothing changes.
LEMMA QueueNextTypes ==
  ASSUME NEW s \in Swfs, NEW c \in Callses, NEW r \in Rowses, SwfFileQueueNext(s, c, r)
  PROVE  swf' \in Swfs /\ calls' \in Callses /\ rows' \in Rowses
<1>1. CASE s.preQueued = <<>>
  BY <1>1 DEF SwfFileQueueNext
<1>2. CASE s.preQueued # <<>>
  <2>1. s.preQueued \in Seq(Files)
    BY DEF Swfs
  <2>2. Head(s.preQueued) \in Files /\ Tail(s.preQueued) \in Seq(Files)
    BY <1>2, <2>1
  <2>3. /\ swf' = [s EXCEPT !.preQueued = Tail(@), !.files = @ \cup {Head(s.preQueued)}]
        /\ calls' = [c EXCEPT !.pending = @ \cup {Head(s.preQueued)}]
        /\ rows' = [r EXCEPT !.shown = @ \cup {Head(s.preQueued)}]
    BY <1>2 DEF SwfFileQueueNext
  <2> QED BY <2>2, <2>3 DEF Swfs, Callses, Rowses
<1> QED BY <1>1, <1>2

\* The ends of an upload.
LEMMA SuccessOrError ==
  ASSUME Inv, NEW f \in Files, NEW c \in Callses, UNCHANGED ajax,
         SwfFileSuccess(f, c) \/ SwfFileError(f, c)
  PROVE  /\ swf' \in Swfs /\ calls' \in Callses /\ rows' \in Rowses
         /\ bar' \in Bars /\ BarWhileUploading'
<1>1. Without(f) \in Swfs /\ DoneRow(f) \in Rowses /\ bar \in Bars /\ ajax' \in Ajaxes
  BY TypeParts DEF Inv, Without, DoneRow, Swfs, Rowses
<1>2. [DoneRow(f) EXCEPT !.errored = @ \cup {f}] \in Rowses
  BY <1>1 DEF Rowses
<1>3. swf' \in Swfs /\ calls' \in Callses /\ rows' \in Rowses
  BY <1>1, <1>2, QueueNextTypes DEF SwfFileSuccess, SwfFileError
<1>4. bar' \in Bars /\ BarWhileUploading'
  <2>1. CASE SwfFileSuccess(f, c)
    BY <1>1, <1>3, <2>1, UpdateLeavesBar DEF SwfFileSuccess
  <2>2. CASE SwfFileError(f, c)
    BY <1>1, <1>3, <2>2, UpdateLeavesBar, BarTypes DEF SwfFileError
  <2> QED BY <2>1, <2>2
<1> QED BY <1>3, <1>4

\* What the plug-in lets go of it held.
LEMMA CancelTypes ==
  ASSUME TypeOK, NEW files
  PROVE  CancelInPlugin(files) \in Flashes /\ CancelInPlugin(files).started = flash.started
BY TypeParts DEF CancelInPlugin, Flashes

\* Each handler of one chosen file.
LEMMA SwfStep ==
  ASSUME Inv, NEW f \in Files, SwfNext(f)
  PROVE  Inv'
<1>0. /\ preflights \in [Kinds -> Nat] /\ dialog \in Kinds \cup {"none"} /\ ajax \in Ajaxes
      /\ swf \in Swfs /\ flash \in Flashes /\ calls \in Callses /\ rows \in Rowses /\ bar \in Bars
      /\ BarWhileUploading
  BY TypeParts DEF Inv
<1>1. CASE SwfFileQueue(f)
  <2>1. swf' = [preQueued |-> Append(swf.preQueued, f), files |-> swf.files, once |-> TRUE]
    BY <1>0, <1>1 DEF SwfFileQueue, Swfs
  <2>2. Append(swf.preQueued, f) \in Seq(Files) /\ swf.files \in SUBSET Files
    BY <1>0 DEF Swfs
  <2>3. swf' \in Swfs /\ swf'.files = swf.files
    BY <2>1, <2>2 DEF Swfs
  <2>4. flash' \in Flashes
    BY <1>0, <1>1 DEF SwfFileQueue, Flashes
  <2> QED BY <1>0, <1>1, <2>3, <2>4, SwfKept DEF SwfFileQueue, BarWhileUploading
<1>2. CASE ClickCancel(f)
  BY <1>0, <1>2, SwfKept, CancelTypes DEF ClickCancel, BarWhileUploading, Inv
<1>3. CASE ClickRow(f)
  <2>1. rows' \in Rowses
    BY <1>0, <1>3 DEF ClickRow, Rowses
  <2>2. bar' \in Bars /\ BarWhileUploading'
    BY <1>0, <1>3, UpdateLeavesBar DEF ClickRow
  <2> QED BY <1>0, <1>3, <2>1, <2>2, SwfKept DEF ClickRow
<1>4. CASE SwfCancelled(f)
  <2>1. flash' \in Flashes
    BY <1>0, <1>4 DEF SwfCancelled, Flashes
  <2> QED BY <1>0, <1>4, <2>1, SuccessOrError, SwfKept DEF SwfCancelled
<1>5. CASE PendingAnswers(f)
  <2>1. calls' \in Callses /\ flash' \in Flashes
    BY <1>0, <1>5 DEF PendingAnswers, Callses, Flashes
  <2>2. bar' \in Bars /\ BarWhileUploading'
    BY <1>0, <1>5, UpdateLeavesBar DEF PendingAnswers
  <2> QED BY <1>0, <1>5, <2>1, <2>2, SwfKept DEF PendingAnswers
<1>6. CASE PendingFails(f)
  <2>1. calls' \in Callses /\ flash' \in Flashes
    BY <1>0, <1>6, CancelTypes DEF PendingFails, Callses, Inv
  <2> QED BY <1>0, <1>6, <2>1, SwfKept DEF PendingFails, BarWhileUploading
<1>7. CASE UploadFails(f) \/ UploadSucceeds(f) \/ UploadStored(f)
  <2>1. flash' \in Flashes /\ UNCHANGED <<dropped, preflights, dialog, ajax>>
    BY <1>0, <1>7 DEF UploadFails, UploadSucceeds, UploadStored, UploadEnds, Flashes
  <2>2. CASE UploadStored(f)
    <3>1. calls' \in Callses
      BY <1>0, <2>2 DEF UploadStored, Callses
    <3> QED BY <1>0, <2>1, <2>2, <3>1, SwfKept DEF UploadStored, BarWhileUploading
  <2>3. CASE UploadFails(f) \/ UploadSucceeds(f)
    BY <1>0, <2>1, <2>3, SuccessOrError, SwfKept DEF UploadFails, UploadSucceeds
  <2> QED BY <1>7, <2>2, <2>3
<1>8. CASE Finalized(f)
  <2>1. [calls EXCEPT !.finalizing = @ \ {f}] \in Callses
    BY <1>0 DEF Callses
  <2> QED BY <1>0, <1>8, <2>1, SuccessOrError, SwfKept DEF Finalized
<1> QED BY <1>1, <1>2, <1>3, <1>4, <1>5, <1>6, <1>7, <1>8 DEF SwfNext

-----------------------------------------------------------------------------
(* The preflights and the dialog.                                          *)

\* What a preflight calls back, whether at once or by the dialog.
LEMMA CallbackStep ==
  ASSUME Inv, NEW kind \in Kinds, OnSuccess(kind) \/ OnCancel(kind),
         preflights' \in [Kinds -> Nat], dialog' \in Kinds \cup {"none"}
  PROVE  Inv'
<1>0. /\ ajax \in Ajaxes /\ dropped \in 0..MaxDrops
      /\ swf \in Swfs /\ flash \in Flashes /\ calls \in Callses /\ rows \in Rowses /\ bar \in Bars
      /\ BarWhileUploading
  BY TypeParts DEF Inv
<1>1. ASSUME NEW n \in 1..MaxDrops, QueueAjaxUploads(n)
      PROVE  Inv'
  <2>1. UNCHANGED <<swf, flash, calls, rows>>
    BY <1>1 DEF QueueAjaxUploads
  <2>2. /\ dropped' \in 0..MaxDrops /\ ajax' \in Ajaxes /\ bar' \in Bars
        /\ QueuedWereDropped' /\ OneAjaxUpload' /\ BarWhileUploading'
    BY <1>1, QueueAjaxUploadsKept
  <2> QED BY <1>0, <2>1, <2>2 DEF Inv, TypeOK, Ajaxes, Swfs, Flashes, Callses, Rowses, Bars
<1>2. ASSUME SwfFileQueueNext(swf, calls, rows), UNCHANGED <<dropped, ajax, flash>>,
             UpdateUploadCount(bar)
      PROVE  Inv'
  <2>1. swf' \in Swfs /\ calls' \in Callses /\ rows' \in Rowses
    BY <1>0, <1>2, QueueNextTypes
  <2>2. bar' \in Bars /\ BarWhileUploading'
    BY <1>0, <1>2, <2>1, UpdateLeavesBar
  <2> QED BY <1>0, <1>2, <2>1, <2>2, SwfKept
<1>3. CASE OnCancel(kind)
  <2>1. flash' \in Flashes
    BY <1>0, <1>3, CancelTypes DEF OnCancel, Inv
  <2> QED BY <1>0, <1>3, <2>1, SwfKept DEF OnCancel, BarWhileUploading
<1> QED BY <1>1, <1>2, <1>3 DEF OnSuccess

\* A preflight, its answer and the buttons of the dialog.
LEMMA PreflightStep ==
  ASSUME Inv, \/ \E kind \in Kinds : PreflightNext(kind)
              \/ ChooseMethod \/ CancelDialog \/ CloseDialog
  PROVE  Inv'
<1>0. /\ preflights \in [Kinds -> Nat] /\ dialog \in Kinds \cup {"none"} /\ ajax \in Ajaxes
      /\ swf \in Swfs /\ flash \in Flashes /\ calls \in Callses /\ rows \in Rowses /\ bar \in Bars
      /\ BarWhileUploading
  BY TypeParts DEF Inv
<1>1. ASSUME NEW kind \in Kinds, Preflight(kind)
      PROVE  Inv'
  <2>1. preflights[kind] \in Nat /\ preflights' = [preflights EXCEPT ![kind] = @ + 1]
    BY <1>0, <1>1 DEF Preflight
  <2>2. preflights' \in [Kinds -> Nat]
    BY <1>0, <2>1
  <2>3. [swf EXCEPT !.once = FALSE] \in Swfs /\ [swf EXCEPT !.once = FALSE].files = swf.files
    BY <1>0 DEF Swfs
  <2>4. swf' \in Swfs /\ swf'.files = swf.files
    BY <1>0, <1>1, <2>3 DEF Preflight
  <2> QED BY <1>0, <1>1, <2>2, <2>4, SwfKept DEF Preflight, BarWhileUploading
<1>2. ASSUME NEW kind \in Kinds, Answered(kind)
      PROVE  preflights' \in [Kinds -> Nat]
  BY <1>0, <1>2 DEF Answered
<1>3. ASSUME NEW kind \in Kinds, NoDuplicates(kind) \/ PreflightFails(kind)
      PROVE  Inv'
  BY <1>0, <1>2, <1>3, CallbackStep DEF NoDuplicates, PreflightFails
<1>4. ASSUME NEW kind \in Kinds, Duplicates(kind)
      PROVE  Inv'
  BY <1>0, <1>2, <1>4, SwfKept DEF Duplicates, BarWhileUploading
<1>5. CASE ChooseMethod \/ CancelDialog
  BY <1>0, <1>5, CallbackStep DEF ChooseMethod, CancelDialog
<1>6. CASE CloseDialog
  BY <1>0, <1>6, SwfKept DEF CloseDialog, BarWhileUploading
<1> QED BY <1>1, <1>3, <1>4, <1>5, <1>6 DEF PreflightNext

-----------------------------------------------------------------------------
(* The theorems.                                                           *)

\* The page as it is loaded, and each handler after it.
THEOREM Invariance == Spec => []Inv
<1>1. Init => Inv
  <2> SUFFICES ASSUME Init PROVE Inv
    OBVIOUS
  <2>1. <<>> \in Seq(Files) /\ 0 \in 0..MaxDrops
    BY DropsAreCounted
  <2> QED BY <2>1, DropsAreCounted DEF Init, Inv, TypeOK, QueuedWereDropped, OneAjaxUpload, BarWhileUploading
<1>2. Inv /\ [Next]_vars => Inv'
  <2> SUFFICES ASSUME Inv, [Next]_vars PROVE Inv'
    OBVIOUS
  <2>1. CASE UNCHANGED vars
    BY <2>1 DEF vars, Inv, TypeOK, QueuedWereDropped, OneAjaxUpload, BarWhileUploading
  <2> QED BY <2>1, SlideStep, AjaxStep, SwfStep, PreflightStep DEF Next
<1> QED BY <1>1, <1>2, PTL DEF Spec

\* Types: no more files wait than were dropped, and no call or timer is doubled.
THEOREM FileUploadsTypeOK == Spec => []TypeOK
<1>1. Inv => TypeOK
  BY DEF Inv
<1> QED BY <1>1, Invariance, PTL

\* One dropped file is uploaded at a time, also when files are dropped in the
\* half second between two uploads, and the page takes itself for uploading just
\* as long (full_files.js:2462, 2485).
THEOREM OneUploadAtATime == Spec => []OneAjaxUpload
<1>1. Inv => OneAjaxUpload
  BY DEF Inv
<1> QED BY <1>1, Invariance, PTL

\* While a file of either kind is under way the bar is wanted (full_files.js:2514-2519).
THEOREM BarIsWanted == Spec => []BarWhileUploading
<1>1. Inv => BarWhileUploading
  BY DEF Inv
<1> QED BY <1>1, Invariance, PTL

\* Only the answer of /files/pending tells the plug-in to start a file.
LEMMA StartedByAnswer ==
  ASSUME Inv, [Next]_vars
  PROVE  flash'.started \subseteq flash.started \cup {f \in Files : f \notin rows.done}
<1>0. flash \in Flashes /\ \A files : CancelInPlugin(files).started = flash.started
  BY TypeParts, CancelTypes DEF Inv
<1>1. ASSUME NEW f \in Files, SwfNext(f)
      PROVE  flash'.started \subseteq flash.started \cup {g \in Files : g \notin rows.done}
  <2>1. CASE SwfFileQueue(f)
    BY <1>0, <2>1 DEF SwfFileQueue, Flashes
  <2>2. CASE ClickCancel(f) \/ PendingFails(f)
    BY <1>0, <2>2 DEF ClickCancel, PendingFails
  <2>3. CASE SwfCancelled(f)
    BY <1>0, <2>3 DEF SwfCancelled, Flashes
  <2>4. CASE PendingAnswers(f)
    BY <1>0, <2>4 DEF PendingAnswers, Flashes
  <2>5. CASE UploadFails(f) \/ UploadSucceeds(f) \/ UploadStored(f)
    BY <1>0, <2>5 DEF UploadFails, UploadSucceeds, UploadStored, UploadEnds, Flashes
  <2>6. CASE ClickRow(f) \/ Finalized(f)
    BY <1>0, <2>6 DEF ClickRow, Finalized
  <2> QED BY <1>1, <2>1, <2>2, <2>3, <2>4, <2>5, <2>6 DEF SwfNext
<1>2. ASSUME NEW kind, OnSuccess(kind) \/ OnCancel(kind)
      PROVE  flash'.started = flash.started
  BY <1>0, <1>2 DEF OnSuccess, QueueAjaxUploads, OnCancel
<1>3. CASE \/ \E kind \in Kinds : PreflightNext(kind)
           \/ ChooseMethod \/ CancelDialog \/ CloseDialog
  BY <1>2, <1>3 DEF PreflightNext, Preflight, NoDuplicates, PreflightFails, Duplicates,
     ChooseMethod, CancelDialog, CloseDialog
<1>4. CASE Shown \/ Hidden \/ AjaxUploaded \/ UploadAjaxFiles \/ AjaxFilesEnd \/ UNCHANGED vars
  BY <1>4 DEF Shown, Hidden, AjaxUploaded, UploadAjaxFiles, AjaxFilesEnd, vars
<1> QED BY <1>1, <1>3, <1>4 DEF Next

\* A file that was cancelled or failed while /files/pending was under way is not
\* started by the late answer (full_files.js:2609).
THEOREM LateAnswerStartsNothing == Spec => DoneIsNotStarted
<1>1. Inv /\ [Next]_vars => [\A f \in rows.done : f \in flash.started' => f \in flash.started]_vars
  BY StartedByAnswer
<1> QED BY <1>1, Invariance, PTL DEF Spec, DoneIsNotStarted
=============================================================================
