------------------------- MODULE QuizAttemptsProofs -------------------------
(***************************************************************************)
(* Theorems about QuizAttempts, for any numbers of requests, attempts,     *)
(* versions and points, whatever overlaps and whatever is killed.          *)
(*                                                                         *)
(* Three invariants build on each other.  Base: a fresh copy agrees with   *)
(* the row, so that what its UPDATE leaves out is what it would have       *)
(* written.  GradedInv: graded answers, in the row or in a fresh copy,     *)
(* have their version.  Both hold until an update is lost, whatever is     *)
(* killed.  RecordedInv: what the row looks like when a request is midway  *)
(* and when none is.  A start killed after its retake, or an update killed *)
(* after its version, leaves the row as it is in the middle of the         *)
(* request, so this one holds until a request is torn.                     *)
(***************************************************************************)
EXTENDS QuizAttempts, WellFoundedInduction, TLAPS

Recorded == {versions[v].score : v \in DOMAIN versions}

PolicyScore ==
  IF versions = <<>> THEN None
  ELSE IF policy = "keep_highest" THEN Max(Recorded)
  ELSE versions[Len(versions)].score

Policies == {"keep_highest", "keep_latest"}
Version == [attempt : Attempts, score : Points]

\* A nonempty set of naturals has a least element.
LEMMA SmallestNat ==
  ASSUME NEW S \in SUBSET Nat, NEW x \in S
  PROVE  \E d \in S : \A k \in S : d <= k
<1> DEFINE R == OpToRel(<, Nat)
<1>1. IsWellFoundedOn(R, Nat) /\ S # {}
      BY NatLessThanWellFounded
<1>2. \A k, d \in Nat : k < d => <<k, d>> \in R
      BY DEF OpToRel
<1> HIDE DEF R
<1>3. PICK d \in S : \A k \in S : <<k, d>> \notin R
      BY <1>1, WFMin
<1>4. ASSUME NEW k \in S PROVE d <= k
  <2>1. k \in Nat /\ d \in Nat /\ ~(k < d)
        BY <1>2, <1>3
  <2> QED BY <2>1
<1> QED BY <1>4

\* A nonempty set of points has a maximum.
LEMMA Greatest ==
  ASSUME NEW S \in SUBSET Points, S # {}
  PROVE  /\ Max(S) \in S
         /\ \A y \in S : Max(S) >= y
<1> DEFINE Gap == {MaxPoints - x : x \in S}
<1>1. \A x \in S : MaxPoints - x \in Nat /\ x \in Int /\ MaxPoints \in Int
      BY BoundsAssumption DEF Points
<1>2. Gap \in SUBSET Nat /\ Gap # {}
      BY <1>1
<1> HIDE DEF Gap
<1>3. PICK d \in Gap : \A k \in Gap : d <= k
      BY <1>2, SmallestNat
<1>4. PICK x \in S : \A y \in S : MaxPoints - x <= MaxPoints - y
      BY <1>3 DEF Gap
<1>5. \A y \in S : x >= y
      BY <1>1, <1>4
<1> QED BY <1>5 DEF Max

\* The scores to keep are scores.
LEMMA KeptType ==
  ASSUME versions \in Seq(Version), NEW score \in Scores
  PROVE  /\ PolicyScore \in Scores
         /\ ScoreToKeep(score) \in Scores
<1> DEFINE given == {score} \ {None}
<1>1. PICK n \in Nat : DOMAIN versions = 1..n /\ Len(versions) = n
      OBVIOUS
<1>2. \A v \in 1..n : versions[v].score \in Points
  <2>1. \A v \in 1..n : versions[v] \in Version
        BY <1>1
  <2> QED BY <2>1 DEF Version
<1>3. Recorded \in SUBSET Points /\ given \in SUBSET Points
      BY <1>1, <1>2 DEF Recorded, Scores
<1>4. versions # <<>> => n \in 1..n /\ Recorded # {}
  <2>1. versions # <<>> => n \in 1..n
        BY <1>1
  <2> QED BY <1>1, <2>1 DEF Recorded
<1>5. \A S \in SUBSET Points : S # {} => Max(S) \in Points
      BY Greatest
<1>6. PolicyScore \in Scores
      BY <1>1, <1>2, <1>3, <1>4, <1>5 DEF PolicyScore, Scores
<1>7. ScoreToKeep(score) =
        IF Recorded \cup given = {} THEN None
        ELSE IF policy = "keep_highest" THEN Max(Recorded \cup given)
        ELSE IF score # None THEN score ELSE versions[Len(versions)].score
      BY DEF ScoreToKeep, Recorded
<1>8. Recorded \cup given # {} /\ score = None => versions # <<>>
      BY <1>1 DEF Recorded
<1>9. Recorded \cup given # {} => Max(Recorded \cup given) \in Points
      BY <1>3, <1>5
<1>10. score = None /\ versions # <<>> => versions[Len(versions)].score \in Points
      BY <1>1, <1>2, <1>4
<1> HIDE DEF given
<1> QED BY <1>6, <1>7, <1>8, <1>9, <1>10 DEF Scores

\* The score to keep of a copy that has none, or the newest version's.
LEMMA ScoreKept ==
  ASSUME versions \in Seq(Version), NEW score \in Scores,
         score = None \/ (versions # <<>> /\ score = versions[Len(versions)].score)
  PROVE  ScoreToKeep(score) = PolicyScore
<1>1. PICK n \in Nat : DOMAIN versions = 1..n /\ Len(versions) = n
      OBVIOUS
<1>2. versions # <<>> => n \in 1..n /\ Recorded # {}
  <2>1. versions # <<>> => n \in 1..n
        BY <1>1
  <2> QED BY <1>1, <2>1 DEF Recorded
<1>3. versions = <<>> => Recorded = {}
      BY DEF Recorded
<1>4. Recorded \cup ({score} \ {None}) = Recorded
      BY <1>1, <1>2 DEF Recorded
<1>5. ScoreToKeep(score) =
        IF Recorded \cup ({score} \ {None}) = {} THEN None
        ELSE IF policy = "keep_highest" THEN Max(Recorded \cup ({score} \ {None}))
        ELSE IF score # None THEN score ELSE versions[Len(versions)].score
      BY DEF ScoreToKeep, Recorded
<1> QED BY <1>2, <1>3, <1>4, <1>5 DEF PolicyScore

\* The score to keep when a version with the score is added.
LEMMA ScoreAdded ==
  ASSUME versions \in Seq(Version), NEW new \in Version,
         versions' = Append(versions, new), policy' = policy
  PROVE  ScoreToKeep(new.score) = PolicyScore'
<1>1. PICK n \in Nat : DOMAIN versions = 1..n /\ Len(versions) = n
      OBVIOUS
<1>2. /\ DOMAIN versions' = 1..n + 1 /\ Len(versions') = n + 1
      /\ versions'[n + 1] = new
      /\ \A v \in 1..n : versions'[v] = versions[v]
      BY <1>1
<1>3. Recorded' = Recorded \cup {new.score}
  <2>1. 1..n + 1 = 1..n \cup {n + 1}
        BY <1>1
  <2> QED BY <1>1, <1>2, <2>1 DEF Recorded
<1>4. new.score # None
      BY DEF Version, Points, None
<1>5. versions' # <<>>
      BY <1>2
<1>6. {new.score} \ {None} = {new.score}
      BY <1>4
<1>7. ScoreToKeep(new.score) =
        IF policy = "keep_highest" THEN Max(Recorded \cup {new.score}) ELSE new.score
      BY <1>4, <1>6 DEF ScoreToKeep, Recorded
<1> QED BY <1>2, <1>3, <1>5, <1>7 DEF PolicyScore

-----------------------------------------------------------------------------

States == {"untaken", "complete"}
Data == Answers \cup {Array}

\* A copy of the row, or one whose end_at differs from the row's.
Loaded == [state : States, attempt : Attempts, data : Data, score : Scores,
           kept : Scores, late : -1..3]

\* Two copies of the row differ at most in their time.
Same(c, r) ==
  /\ c.state = r.state
  /\ c.attempt = r.attempt
  /\ c.data = r.data
  /\ c.score = r.score
  /\ c.kept = r.kept

\* What an UPDATE of new compares with is what the row holds.
Fits(copy, new) ==
  /\ copy \in Loaded /\ new \in Rows
  /\ copy.attempt = row.attempt
  /\ copy.score = row.score
  /\ copy.kept = row.kept
  /\ copy.state = row.state \/ copy.state # new.state

\* The columns of a row.
LEMMA RowParts ==
  ASSUME NEW r \in Rows
  PROVE  /\ r.state \in States /\ r.attempt \in Attempts /\ r.data \in Data
         /\ r.score \in Scores /\ r.kept \in Scores /\ r.late \in 0..3
         /\ r \in Loaded
BY DEF Rows, Loaded, States, Data

\* An UPDATE of an object whose copy fits leaves the row as the object, but for
\* its time.
LEMMA WrittenFields ==
  ASSUME row \in Rows, NEW copy, NEW new, Fits(copy, new), NEW w, w = Written(copy, new)
  PROVE  w \in Rows /\ Same(w, new)
<1>1. DOMAIN row = {"state", "attempt", "data", "score", "kept", "late"}
      BY DEF Rows
<1>2. w = [c \in {"state", "attempt", "data", "score", "kept", "late"} |->
             IF c = "data" \/ new[c] # copy[c] THEN new[c] ELSE row[c]]
      BY <1>1 DEF Written
<1>3. /\ w.state = IF new.state # copy.state THEN new.state ELSE row.state
      /\ w.attempt = IF new.attempt # copy.attempt THEN new.attempt ELSE row.attempt
      /\ w.data = new.data
      /\ w.score = IF new.score # copy.score THEN new.score ELSE row.score
      /\ w.kept = IF new.kept # copy.kept THEN new.kept ELSE row.kept
      /\ w.late = IF new.late # copy.late THEN new.late ELSE row.late
      BY <1>2
<1>4. w = [state |-> w.state, attempt |-> w.attempt, data |-> w.data,
           score |-> w.score, kept |-> w.kept, late |-> w.late]
      BY <1>2
<1>5. Same(w, new)
      BY <1>3 DEF Same, Fits
<1>6. /\ w.state \in States /\ w.attempt \in Attempts /\ w.data \in Data
      /\ w.score \in Scores /\ w.kept \in Scores /\ w.late \in 0..3
      BY <1>3, <1>5, RowParts DEF Same, Fits
<1> QED BY <1>4, <1>5, <1>6 DEF Rows, States, Data

\* A completed copy with its new kept score.
LEMMA WithKeptFields ==
  ASSUME versions \in Seq(Version), NEW c \in Rows
  PROVE  /\ WithKept(c) \in Rows
         /\ WithKept(c).state = c.state /\ WithKept(c).attempt = c.attempt
         /\ WithKept(c).data = c.data /\ WithKept(c).score = c.score
         /\ WithKept(c).late = c.late
         /\ WithKept(c).kept = IF c.state = "complete" THEN ScoreToKeep(c.score) ELSE c.kept
<1>1. PICK k \in Scores : k = ScoreToKeep(c.score)
      BY KeptType, RowParts
<1> QED BY <1>1 DEF WithKept, Rows

\* A copy after grading.
LEMMA GradedFields ==
  ASSUME NEW c \in Rows, ~c.data.graded
  PROVE  /\ Graded(c) \in Rows
         /\ c.data.points \in Points
         /\ Graded(c).state = "complete" /\ Graded(c).attempt = c.attempt
         /\ Graded(c).data = Array /\ Graded(c).score = c.data.points
         /\ Graded(c).late = c.late
<1>1. c.data \in Answers
      BY DEF Rows, Array
<1>2. PICK p \in Points : p = c.data.points
      BY <1>1 DEF Answers
<1>3. PICK g : g = Graded(c)
      OBVIOUS
<1>4. g = [c EXCEPT !.state = "complete", !.score = p, !.data = Array]
      BY <1>2, <1>3 DEF Graded
<1>5. p \in Scores /\ Array \in Answers \cup {Array}
      BY DEF Scores
<1>6. /\ g \in Rows
      /\ g.state = "complete" /\ g.attempt = c.attempt
      /\ g.data = Array /\ g.score = p /\ g.late = c.late
      BY <1>4, <1>5 DEF Rows
<1> QED BY <1>2, <1>3, <1>6

-----------------------------------------------------------------------------

\* The row after new was graded, and its new version.
NowGraded(new) ==
  /\ row' \in Rows
  /\ row'.state = "complete"
  /\ row'.attempt = new.attempt
  /\ row'.data = Array
  /\ row'.score \in Points
  /\ row'.kept = PolicyScore'
  /\ versions' \in Seq(Version)
  /\ Len(versions') <= MaxVersions
  /\ Len(versions') = Len(versions) + 1
  /\ versions'[Len(versions) + 1].attempt = new.attempt
  /\ versions'[Len(versions) + 1].score = row'.score
  /\ \A v \in 1..Len(versions) : versions'[v] = versions[v]

\* The row after new was saved and graded already.
NowKept(new) ==
  /\ row' \in Rows
  /\ row'.state = "complete"
  /\ row'.attempt = new.attempt
  /\ row'.data = new.data
  /\ row'.score = new.score
  /\ row'.kept = ScoreToKeep(new.score)
  /\ versions' = versions

\* The row after an attempt under way was saved.
NowOpen(new) ==
  /\ row' \in Rows
  /\ row'.state = "untaken"
  /\ Same(row', new)
  /\ versions' = versions

\* grade_submission, of answers.
LEMMA GradeDoes ==
  ASSUME row \in Rows, versions \in Seq(Version), policy' = policy,
         NEW copy, NEW new \in Rows, ~new.data.graded, Fits(copy, Graded(new)),
         Grade(copy, new)
  PROVE  NowGraded(new) /\ Same(row', WithKept(Graded(new)))
<1>1. PICK g \in Rows : g = Graded(new)
      BY GradedFields
<1>2. /\ g.state = "complete" /\ g.attempt = new.attempt
      /\ g.data = Array /\ g.score = new.data.points /\ g.score \in Points
      BY <1>1, GradedFields
<1>3. PICK k \in Rows : k = WithKept(g)
      BY WithKeptFields
<1>4. /\ k.state = "complete" /\ k.attempt = new.attempt /\ k.data = Array
      /\ k.score = g.score /\ k.kept = ScoreToKeep(g.score)
      BY <1>2, <1>3, WithKeptFields
<1>5. Fits(copy, k)
      BY <1>1, <1>2, <1>4 DEF Fits
<1>6. row' = Written(copy, k)
      BY <1>1, <1>3 DEF Grade
<1>7. row' \in Rows /\ Same(row', k)
      BY <1>5, <1>6, WrittenFields
<1>8. PICK version : version = [attempt |-> new.attempt, score |-> new.data.points]
      OBVIOUS
<1>9. version \in Version /\ version.score = g.score /\ version.attempt = new.attempt
      BY <1>2, <1>8, RowParts DEF Version
<1>10. versions' = Append(versions, version) /\ Len(versions) < MaxVersions
      BY <1>8 DEF Grade
<1>11. ScoreToKeep(g.score) = PolicyScore'
      BY <1>9, <1>10, ScoreAdded
<1>12. /\ versions' \in Seq(Version) /\ Len(versions') <= MaxVersions
       /\ Len(versions') = Len(versions) + 1
       /\ versions'[Len(versions) + 1] = version
       /\ \A v \in 1..Len(versions) : versions'[v] = versions[v]
  <2>1. Len(versions) \in Nat /\ MaxVersions \in Nat
        BY BoundsAssumption
  <2> QED BY <1>9, <1>10, <2>1
<1>13. NowGraded(new)
      BY <1>2, <1>4, <1>7, <1>9, <1>11, <1>12 DEF NowGraded, Same
<1> QED BY <1>1, <1>3, <1>7, <1>13

\* save grades, keeps or stores, and the saved object is what the row became.
LEMMA SaveDoes ==
  ASSUME row \in Rows, versions \in Seq(Version), policy' = policy,
         NEW copy, NEW new, Fits(copy, new), Save(copy, new)
  PROVE  /\ new.state = "complete" /\ ~new.data.graded => NowGraded(new)
         /\ new.state = "complete" /\ new.data.graded => NowKept(new)
         /\ new.state = "untaken" => NowOpen(new)
         /\ Saved(new) \in Rows /\ Same(Saved(new), row') /\ row' \in Rows
<1>1. new \in Rows /\ new.state \in States
      BY RowParts DEF Fits
<1>2. CASE new.state = "complete" /\ ~new.data.graded
  <2>1. Fits(copy, Graded(new))
        BY <1>1, <1>2, GradedFields DEF Fits
  <2>2. NowGraded(new) /\ Same(row', WithKept(Graded(new)))
        BY <1>1, <1>2, <2>1, GradeDoes DEF Save
  <2>3. Saved(new) = WithKept(Graded(new))
        BY <1>2 DEF Saved
  <2>4. Saved(new) \in Rows
        BY <1>1, <1>2, <2>3, GradedFields, WithKeptFields
  <2>5. row' \in Rows
        BY <2>2 DEF NowGraded
  <2> QED BY <1>2, <2>2, <2>3, <2>4, <2>5 DEF Same
<1>3. CASE ~(new.state = "complete" /\ ~new.data.graded)
  <2>1. PICK k \in Rows : k = WithKept(new)
        BY <1>1, WithKeptFields
  <2>2. /\ k.state = new.state /\ k.attempt = new.attempt /\ k.data = new.data
        /\ k.score = new.score
        /\ k.kept = IF new.state = "complete" THEN ScoreToKeep(new.score) ELSE new.kept
        BY <1>1, <2>1, WithKeptFields
  <2>3. row' = Written(copy, k) /\ versions' = versions /\ Saved(new) = k
        BY <1>3, <2>1 DEF Save, Saved
  <2>4. Fits(copy, k)
        BY <2>2 DEF Fits
  <2>5. row' \in Rows /\ Same(row', k)
        BY <2>3, <2>4, WrittenFields
  <2>6. Same(Saved(new), row')
        BY <2>3, <2>5 DEF Same
  <2>7. new.state = "complete" => NowKept(new)
        BY <2>2, <2>3, <2>5 DEF NowKept, Same
  <2>8. new.state = "untaken" => NowOpen(new)
        BY <2>2, <2>3, <2>5 DEF NowOpen, Same
  <2> QED BY <1>3, <2>1, <2>3, <2>5, <2>6, <2>7, <2>8
<1> QED BY <1>2, <1>3

-----------------------------------------------------------------------------

\* The kinds of requests that come to a step.
KindOf(q) ==
  /\ q.step = "mark" => q.kind = "create"
  /\ q.step = "grade" => q.kind \in {"create", "view"}
  /\ q.step = "save" => q.kind \in {"backup", "start", "extend"}
  /\ q.step \in {"retake", "attempt"} => q.kind = "start"
  /\ q.step = "settings" => q.kind = "extend"
  /\ q.step \in {"version", "scores", "reload", "kept"} => q.kind = "update"

\* An update is of a version there is.
KindsKnown ==
  \A q \in req : KindOf(q) /\ (q.kind = "update" => q.version \in 1..Len(versions))

\* The copy a request works on is still what the row holds, but for autosaved
\* answers, the time, and its own mark_completed.
CopyFits(q) ==
  /\ q.copy.attempt = row.attempt
  /\ q.copy.score = row.score
  /\ q.copy.kept = row.kept
  /\ q.kind = "create" => q.copy.state = "untaken"
  /\ q.kind = "create" /\ q.step = "grade" => row.state = "complete"
  /\ ~(q.kind = "create" /\ q.step = "grade") => q.copy.state = row.state
  /\ q.kind = "start" => q.copy.data.graded /\ q.copy.attempt < MaxAttempts
  /\ q.step = "attempt" => q.copy.state = "untaken"
  /\ q.kind = "start" /\ q.step # "attempt" => q.copy.state = "complete"
  /\ q.step = "scores" => /\ q.copy.state = "complete"
                          /\ versions[q.version].attempt = row.attempt

CopiesFit == \A q \in fresh : CopyFits(q)

Base == TypeOK /\ KindsKnown /\ fresh \subseteq req /\ CopiesFit

Harms == {"lost", "torn"}

\* The fields of a request that works on a copy of the row.
LEMMA LoadedParts ==
  ASSUME NEW q \in LoadedRequests
  PROVE  /\ q.kind \in Kinds /\ q.step \in Steps /\ q.copy \in Rows
         /\ q.points \in Points /\ q.version \in 0..MaxVersions
BY DEF LoadedRequests

\* A request comes, goes on to another step, or ends, and those who write leave
\* nobody else's copy fresh; or backups come and requests go.
Came(n) ==
  /\ n \in LoadedRequests
  /\ req' = req \cup {n}
  /\ fresh' = fresh \cup {n}
  /\ harm' \subseteq Harms

Moved(q, n) ==
  /\ n \in LoadedRequests
  /\ n.kind = q.kind /\ n.points = q.points /\ n.version = q.version
  /\ req' = (req \ {q}) \cup {n}
  /\ fresh' = {n}
  /\ harm' \subseteq Harms

Left(q) ==
  /\ req' = req \ {q}
  /\ fresh' = {}
  /\ harm' \subseteq Harms

Quiet ==
  /\ \A r \in req' : r \in req \/ r \in BackupRequests
  /\ fresh' = fresh \cap req'
  /\ harm' \subseteq Harms

\* A request that loads the row comes.
LEMMA LoadsOne ==
  ASSUME TypeOK, NEW kind \in Kinds, NEW step \in Steps,
         NEW points \in Points, NEW version \in 0..MaxVersions,
         Loads(kind, step, points, version)
  PROVE  /\ \E n : Came(n) /\ n.kind = kind /\ n.step = step /\ n.copy = row
                           /\ n.points = points /\ n.version = version
         /\ UNCHANGED <<policy, row, versions, harm>>
<1>1. PICK id \in 1..MaxRequests :
        LET q == [kind |-> kind, step |-> step, copy |-> row, points |-> points,
                  version |-> version, id |-> id]
        IN Enters(q) /\ fresh' = fresh \cup {q}
      BY DEF Loads
<1>2. PICK n : n = [kind |-> kind, step |-> step, copy |-> row, points |-> points,
                    version |-> version, id |-> id]
      OBVIOUS
<1>3. /\ n \in LoadedRequests /\ n.kind = kind /\ n.step = step /\ n.copy = row
      /\ n.points = points /\ n.version = version
      BY <1>2 DEF LoadedRequests, TypeOK
<1>4. /\ req' = req \cup {n} /\ fresh' = fresh \cup {n}
      /\ UNCHANGED <<policy, row, versions, harm>>
      BY <1>1, <1>2 DEF Enters
<1>5. Came(n)
      BY <1>3, <1>4 DEF Came, TypeOK, Harms
<1> QED BY <1>3, <1>4, <1>5

\* Who writes and loses nobody's update has a fresh copy.
LEMMA WritesFresh ==
  ASSUME NEW q, NEW next, Writes(q, next), "lost" \notin harm'
  PROVE  q \in fresh
BY DEF Writes

\* A request goes on to its next step.
LEMMA GoesOne ==
  ASSUME TypeOK, NEW q \in LoadedRequests, NEW step \in Steps, NEW copy \in Rows,
         Goes(q, step, copy)
  PROVE  \E n : Moved(q, n) /\ n.step = step /\ n.copy = copy
<1>1. PICK n : n = [q EXCEPT !.step = step, !.copy = copy]
      OBVIOUS
<1>2. /\ n \in LoadedRequests /\ n.kind = q.kind /\ n.step = step /\ n.copy = copy
      /\ n.points = q.points /\ n.version = q.version
      BY <1>1 DEF LoadedRequests
<1>3. Writes(q, {n})
      BY <1>1 DEF Goes
<1>4. Moved(q, n)
      BY <1>2, <1>3 DEF Moved, Writes, TypeOK, Harms
<1> QED BY <1>2, <1>4

\* A request ends.
LEMMA EndsOne ==
  ASSUME TypeOK, NEW q, Ends(q)
  PROVE  Left(q)
BY DEF Left, Ends, Writes, TypeOK, Harms

\* The bounds that every step keeps.
Typed ==
  /\ row' \in Rows /\ policy' = policy
  /\ versions' \in Seq(Version) /\ Len(versions') <= MaxVersions
  /\ Len(versions') >= Len(versions)

\* Base after a request came ...
LEMMA CameKeeps ==
  ASSUME Base, NEW n, Came(n), KindOf(n), UNCHANGED <<policy, row, versions>>,
         n.kind = "update" => n.version \in 1..Len(versions), CopyFits(n)'
  PROVE  Base'
<1>1. KindsKnown'
      BY DEF Base, Came, KindsKnown, KindOf
<1>2. CopiesFit' /\ fresh' \subseteq req'
      BY DEF Base, Came, CopiesFit, CopyFits
<1>3. TypeOK'
      BY DEF Base, TypeOK, Came, Harms
<1> QED BY <1>1, <1>2, <1>3 DEF Base

\* ... after one that wrote goes on ...
LEMMA MovedKeeps ==
  ASSUME Base, NEW q \in req, NEW n, Moved(q, n), KindOf(n), Typed, CopyFits(n)'
  PROVE  Base'
<1>1. KindsKnown'
  <2>1. Len(versions) \in Nat /\ Len(versions') \in Nat
        BY DEF Base, TypeOK, Typed, Version
  <2>2. \A r \in req' : \E s \in req : r.kind = s.kind /\ r.version = s.version /\ KindOf(r)
        BY DEF Base, Moved, KindsKnown
  <2> QED BY <2>1, <2>2 DEF Base, Typed, KindsKnown, KindOf
<1>2. CopiesFit' /\ fresh' \subseteq req'
      BY DEF Moved, CopiesFit
<1>3. TypeOK'
      BY DEF Base, TypeOK, Moved, Harms, Typed, Version
<1> QED BY <1>1, <1>2, <1>3 DEF Base

\* ... and after one that wrote has ended.
LEMMA LeftKeeps ==
  ASSUME Base, NEW q \in req, Left(q), Typed
  PROVE  Base'
<1>1. KindsKnown'
  <2>1. Len(versions) \in Nat /\ Len(versions') \in Nat
        BY DEF Base, TypeOK, Typed, Version
  <2> QED BY <2>1 DEF Base, Left, Typed, KindsKnown, KindOf
<1>2. CopiesFit' /\ fresh' \subseteq req'
      BY DEF Left, CopiesFit
<1>3. TypeOK'
      BY DEF Base, TypeOK, Left, Harms, Typed, Version
<1> QED BY <1>1, <1>2, <1>3 DEF Base

-----------------------------------------------------------------------------

\* What a step of a request with a fresh copy has at hand.
LEMMA AtHand ==
  ASSUME Base, NEW q \in fresh
  PROVE  /\ q \in LoadedRequests /\ q \in req
         /\ q.copy \in Rows /\ q.copy.state \in States
         /\ q.points \in Points /\ CopyFits(q) /\ KindOf(q)
         /\ q.kind = "update" => q.version \in 1..Len(versions)
         /\ row \in Rows /\ versions \in Seq(Version) /\ Len(versions) <= MaxVersions
         /\ TypeOK
<1>1. TypeOK /\ KindsKnown /\ fresh \subseteq req /\ CopiesFit
      BY DEF Base
<1>2. q \in LoadedRequests
      BY <1>1 DEF TypeOK
<1>3. q.copy \in Rows /\ q.points \in Points /\ q.copy.state \in States
      BY <1>2, LoadedParts, RowParts
<1>4. row \in Rows /\ versions \in Seq(Version) /\ Len(versions) <= MaxVersions
      BY <1>1 DEF TypeOK, Version
<1> QED BY <1>1, <1>2, <1>3, <1>4 DEF CopiesFit, KindsKnown

\* The requests that load the row.
LEMMA LoadsDoes ==
  ASSUME Base, NEW kind \in Kinds \ {"backup"}, NEW step \in Steps,
         NEW points \in Points, NEW version \in 0..MaxVersions,
         Loads(kind, step, points, version),
         step \in {"mark", "grade", "save", "version"},
         step = "mark" => kind = "create" /\ row.state = "untaken",
         step = "grade" => kind = "view",
         step = "save" => kind \in {"start", "extend"},
         step = "version" => kind = "update",
         kind = "start" => row.state = "complete" /\ row.data.graded /\ row.attempt < MaxAttempts,
         kind = "update" => version \in 1..Len(versions)
  PROVE  /\ Base'
         /\ \E n : Came(n) /\ n.kind = kind /\ n.step = step /\ n.copy = row
         /\ UNCHANGED <<policy, row, versions>>
<1>1. TypeOK
      BY DEF Base
<1>2. UNCHANGED <<policy, row, versions>>
      BY <1>1, LoadsOne
<1>3. PICK n : Came(n) /\ n.kind = kind /\ n.step = step /\ n.copy = row
                       /\ n.points = points /\ n.version = version
      BY <1>1, LoadsOne
<1>4. KindOf(n)
      BY <1>3 DEF KindOf
<1>5. CopyFits(n)'
      BY <1>2, <1>3 DEF CopyFits
<1>6. Base'
      BY <1>2, <1>3, <1>4, <1>5, CameKeeps
<1> QED BY <1>2, <1>3, <1>6

\* A step that leaves the requests' copies as current as they are.
LEMMA QuietKeeps ==
  ASSUME Base, row' \in Rows, policy' = policy, versions' = versions,
         row'.attempt = row.attempt, row'.score = row.score, row'.kept = row.kept,
         row'.state = row.state, Quiet
  PROVE  Base'
<1>1. KindsKnown'
  <2>1. \A r \in BackupRequests : r.kind = "backup" /\ r.step = "save" /\ KindOf(r)
        BY DEF BackupRequests, KindOf
  <2> QED BY <2>1 DEF Base, Quiet, KindsKnown, KindOf
<1>2. CopiesFit' /\ fresh' \subseteq req'
      BY DEF Base, Quiet, CopiesFit, CopyFits
<1>3. TypeOK'
      BY DEF Base, TypeOK, Quiet, Harms
<1> QED BY <1>1, <1>2, <1>3 DEF Base

\* An autosave that passes its tests.
LEMMA BackupDoes ==
  ASSUME Base, NEW points \in Points, Backup(points)
  PROVE  Base' /\ Quiet /\ req \subseteq req' /\ UNCHANGED <<policy, row, versions>>
<1>1. PICK id \in 1..MaxRequests :
        Enters([kind |-> "backup", step |-> "save", points |-> points, id |-> id])
      BY DEF Backup
<1>2. PICK n : n = [kind |-> "backup", step |-> "save", points |-> points, id |-> id]
      OBVIOUS
<1>3. n \in BackupRequests
      BY <1>2 DEF BackupRequests
<1>4. req' = req \cup {n} /\ UNCHANGED <<policy, row, versions, fresh, harm>>
      BY <1>1, <1>2 DEF Backup, Enters
<1>5. Quiet
      BY <1>3, <1>4 DEF Quiet, Base, TypeOK, Harms
<1> QED BY <1>4, <1>5, QuietKeeps DEF Base, TypeOK

\* A request that is over and has not written from a copy.
LEMMA QuitsQuietly ==
  ASSUME Base, NEW q \in req, Quits(q)
  PROVE  /\ Quiet /\ req' = req \ {q}
         /\ harm' = {} => ~Midway(q)
BY DEF Quits, Quiet, Base, TypeOK, Harms

\* The row with autosaved answers.
BackedUp ==
  /\ row.state # "complete"
  /\ row' \in Rows
  /\ row'.state = row.state /\ row'.attempt = row.attempt
  /\ row'.score = row.score /\ row'.kept = row.kept
  /\ ~row'.data.graded

\* The UPDATE of an autosave.
LEMMA BackupSubmissionDataDoes ==
  ASSUME Base, NEW q \in req, BackupSubmissionData(q)
  PROVE  /\ Base' /\ Quiet /\ req' = req \ {q} /\ ~Midway(q)
         /\ UNCHANGED <<policy, versions>>
         /\ row' = row \/ BackedUp
<1>1. TypeOK /\ KindOf(q)
      BY DEF Base, KindsKnown
<1>2. q.points \in Points
      BY <1>1 DEF TypeOK, BackupRequests, LoadedRequests
<1>3. PICK d : d = [graded |-> FALSE, points |-> q.points]
      OBVIOUS
<1>4. d \in Data /\ ~d.graded
      BY <1>2, <1>3 DEF Data, Answers
<1>5. Quits(q) /\ q.kind = "backup" /\ UNCHANGED <<policy, versions>>
      BY DEF BackupSubmissionData
<1>6. row' = IF row.state = "complete" THEN row ELSE [row EXCEPT !.data = d]
      BY <1>3 DEF BackupSubmissionData
<1>7. row' = row \/ BackedUp
      BY <1>1, <1>4, <1>6 DEF BackedUp, TypeOK, Rows, Data
<1>8. Quiet /\ req' = req \ {q}
      BY <1>5, QuitsQuietly
<1>9. row' \in Rows /\ row'.state = row.state /\ row'.attempt = row.attempt
      /\ row'.score = row.score /\ row'.kept = row.kept
      BY <1>1, <1>7 DEF BackedUp, TypeOK
<1>10. ~Midway(q)
      BY <1>1, <1>5 DEF Midway, KindOf
<1> QED BY <1>5, <1>7, <1>8, <1>9, <1>10, QuietKeeps

\* A request that is killed.
LEMMA KillDoes ==
  ASSUME Base, NEW q \in req, Kill(q)
  PROVE  /\ Base' /\ UNCHANGED <<policy, row, versions>>
         /\ Quiet /\ req' = req \ {q}
         /\ harm' = {} => ~Midway(q)
<1>1. Quits(q) /\ UNCHANGED <<policy, row, versions>>
      BY DEF Kill
<1>2. Quiet /\ req' = req \ {q} /\ (harm' = {} => ~Midway(q))
      BY <1>1, QuitsQuietly
<1>3. row \in Rows
      BY DEF Base, TypeOK
<1> QED BY <1>1, <1>2, <1>3, QuietKeeps

\* Time that goes on.
LEMMA TimePassesDoes ==
  ASSUME Base, TimePasses
  PROVE  /\ Base' /\ Quiet /\ UNCHANGED <<policy, versions>>
         /\ row'.state = row.state /\ row'.attempt = row.attempt
         /\ row'.data = row.data /\ row'.score = row.score /\ row'.kept = row.kept
         /\ req' = req
<1>1. TypeOK
      BY DEF Base
<1>2. row.late + 1 \in 0..3
      BY <1>1, RowParts DEF TimePasses, TypeOK
<1>3. PICK t \in 0..3 : t = row.late + 1
      BY <1>2
<1>4. row' = [row EXCEPT !.late = t]
      BY <1>1, <1>3 DEF TimePasses, TypeOK
<1>5. row' \in Rows /\ Same(row', row)
      BY <1>1, <1>4 DEF TypeOK, Rows, Same
<1>6. Quiet
      BY <1>1 DEF TimePasses, Quiet, TypeOK, Base, Harms
<1> QED BY <1>5, <1>6, QuietKeeps DEF TimePasses, Same

\* Whatever a save did, the row and its versions are well typed.
LEMMA NowTypes ==
  ASSUME NEW new, versions \in Seq(Version), Len(versions) <= MaxVersions,
         policy' = policy, NowGraded(new) \/ NowKept(new) \/ NowOpen(new)
  PROVE  Typed /\ row'.attempt = new.attempt
<1>1. Len(versions) \in Nat
      OBVIOUS
<1> QED BY <1>1 DEF NowGraded, NowKept, NowOpen, Same, Typed

\* mark_completed.
LEMMA MarkCompletedDoes ==
  ASSUME Base, "lost" \notin harm', NEW q \in req, MarkCompleted(q)
  PROVE  /\ Base' /\ UNCHANGED <<policy, versions>>
         /\ q \in fresh /\ q.kind = "create" /\ q.step = "mark"
         /\ row.state = "untaken" /\ row'.state = "complete"
         /\ row'.attempt = row.attempt /\ row'.data = row.data
         /\ row'.score = row.score /\ row'.kept = row.kept
         /\ \E n : Moved(q, n) /\ n.step = "grade" /\ n.copy = q.copy
<1>1. q \in fresh /\ q.kind = "create" /\ q.step = "mark"
      BY WritesFresh DEF MarkCompleted, Goes
<1>2. /\ row \in Rows /\ versions \in Seq(Version) /\ Len(versions) <= MaxVersions
      /\ TypeOK /\ q \in LoadedRequests /\ q.copy \in Rows /\ CopyFits(q)
      BY <1>1, AtHand
<1>3. row' = [row EXCEPT !.state = "complete"] /\ UNCHANGED <<policy, versions>>
      BY DEF MarkCompleted
<1>4. /\ row' \in Rows /\ row'.state = "complete"
      /\ row'.attempt = row.attempt /\ row'.data = row.data
      /\ row'.score = row.score /\ row'.kept = row.kept
      BY <1>2, <1>3 DEF Rows
<1>5. PICK n : Moved(q, n) /\ n.step = "grade" /\ n.copy = q.copy
      BY <1>1, <1>2, GoesOne DEF MarkCompleted, Steps
<1>6. KindOf(n) /\ CopyFits(n)'
      BY <1>1, <1>2, <1>3, <1>4, <1>5 DEF KindOf, CopyFits, Moved
<1>7. Base'
      BY <1>2, <1>3, <1>4, <1>5, <1>6, MovedKeeps DEF Typed
<1>8. row.state = "untaken"
      BY <1>1, <1>2 DEF CopyFits
<1> QED BY <1>1, <1>3, <1>4, <1>5, <1>7, <1>8

\* The object to grade.
LEMMA ObjectFields ==
  ASSUME NEW q, q.copy \in Rows, q.points \in Points
  PROVE  /\ Object(q) \in Rows
         /\ Object(q).attempt = q.copy.attempt
         /\ Object(q).score = q.copy.score /\ Object(q).kept = q.copy.kept
         /\ Object(q).data.graded => q.copy.data.graded
<1>1. PICK d : d = [graded |-> FALSE, points |-> q.points]
      OBVIOUS
<1>2. d \in Data /\ ~d.graded
      BY <1>1 DEF Data, Answers
<1>3. PICK p : p = [q.copy EXCEPT !.data = d]
      OBVIOUS
<1>4. /\ p \in Rows /\ p.data = d /\ p.attempt = q.copy.attempt
      /\ p.score = q.copy.score /\ p.kept = q.copy.kept
      BY <1>2, <1>3 DEF Rows, Data
<1>5. Object(q) = p \/ Object(q) = q.copy
      BY <1>1, <1>3 DEF Object
<1> QED BY <1>2, <1>4, <1>5

\* The grading of a create or a view.
LEMMA GradeSubmissionDoes ==
  ASSUME Base, "lost" \notin harm', NEW q \in req, GradeSubmission(q)
  PROVE  /\ Base' /\ policy' = policy /\ q.step = "grade"
         /\ \/ /\ Object(q).data.graded /\ Quiet /\ req' = req \ {q}
               /\ UNCHANGED <<row, versions>>
            \/ /\ q \in fresh /\ Left(q) /\ NowGraded(Object(q))
               /\ Object(q).attempt = row.attempt
               /\ ~Object(q).data.graded
<1>1. q.step = "grade" /\ policy' = policy
      BY DEF GradeSubmission
<1>2. CASE Object(q).data.graded /\ Quits(q) /\ UNCHANGED <<row, versions>>
  <2>1. Quiet /\ req' = req \ {q} /\ row \in Rows
        BY <1>2, QuitsQuietly DEF Base, TypeOK
  <2>2. Base'
        BY <1>1, <1>2, <2>1, QuietKeeps
  <2> QED BY <1>1, <1>2, <2>1, <2>2
<1>3. CASE ~Object(q).data.graded /\ Grade(q.copy, Object(q)) /\ Ends(q)
  <2>1. q \in fresh
        BY <1>3, WritesFresh DEF Ends
  <2>2. /\ row \in Rows /\ versions \in Seq(Version) /\ Len(versions) <= MaxVersions
        /\ TypeOK /\ q.copy \in Rows /\ CopyFits(q) /\ q.points \in Points /\ KindOf(q)
        BY <2>1, AtHand
  <2>3. Left(q)
        BY <1>3, <2>2, EndsOne
  <2>4. PICK o : o = Object(q)
        OBVIOUS
  <2>5. o \in Rows /\ o.attempt = row.attempt /\ o.score = row.score /\ o.kept = row.kept
        BY <2>2, <2>4, ObjectFields DEF CopyFits
  <2>6. q.copy.state = row.state \/ q.copy.state = "untaken"
        BY <2>2 DEF CopyFits
  <2>7. Fits(q.copy, Graded(o))
        BY <1>3, <2>2, <2>4, <2>5, <2>6, GradedFields, RowParts DEF Fits, CopyFits
  <2>8. NowGraded(o)
        BY <1>1, <1>3, <2>2, <2>4, <2>5, <2>7, GradeDoes
  <2>9. Base'
        BY <1>1, <2>2, <2>3, <2>8, NowTypes, LeftKeeps
  <2> QED BY <1>1, <1>3, <2>1, <2>3, <2>4, <2>5, <2>8, <2>9
<1> QED BY <1>2, <1>3 DEF GradeSubmission

\* find_or_create_submission, whose object goes on as the row is now.
LEMMA FindOrCreateDoes ==
  ASSUME Base, "lost" \notin harm', NEW q \in req, FindOrCreate(q)
  PROVE  /\ Base' /\ policy' = policy
         /\ q \in fresh /\ q.step = "save" /\ q.kind \in {"start", "extend"}
         /\ q.copy.state = "complete" /\ ~q.copy.data.graded => NowGraded(q.copy)
         /\ q.copy.state = "complete" /\ q.copy.data.graded => NowKept(q.copy)
         /\ q.copy.state = "untaken" => NowOpen(q.copy)
         /\ \E n : /\ Moved(q, n) /\ Same(n.copy, row')
                   /\ n.step = IF q.kind = "start" THEN "retake" ELSE "settings"
<1>1. q \in fresh /\ q.step = "save" /\ q.kind \in {"start", "extend"} /\ policy' = policy
      BY WritesFresh DEF FindOrCreate, Goes
<1>2. /\ row \in Rows /\ versions \in Seq(Version) /\ Len(versions) <= MaxVersions
      /\ TypeOK /\ q \in LoadedRequests /\ q.copy \in Rows /\ CopyFits(q)
      /\ q.copy.state \in States
      BY <1>1, AtHand
<1>3. Fits(q.copy, q.copy)
      BY <1>1, <1>2, RowParts DEF Fits, CopyFits
<1>4. PICK o : o = Saved(q.copy)
      OBVIOUS
<1>5. /\ q.copy.state = "complete" /\ ~q.copy.data.graded => NowGraded(q.copy)
      /\ q.copy.state = "complete" /\ q.copy.data.graded => NowKept(q.copy)
      /\ q.copy.state = "untaken" => NowOpen(q.copy)
      /\ o \in Rows /\ Same(o, row')
      BY <1>1, <1>2, <1>3, <1>4, SaveDoes DEF FindOrCreate
<1>6. NowGraded(q.copy) \/ NowKept(q.copy) \/ NowOpen(q.copy)
      BY <1>2, <1>5 DEF States
<1>7. Typed /\ row'.attempt = q.copy.attempt
      BY <1>1, <1>2, <1>6, NowTypes
<1>8. PICK step \in Steps : step = IF q.kind = "start" THEN "retake" ELSE "settings"
      BY DEF Steps
<1>9. PICK n : Moved(q, n) /\ n.step = step /\ n.copy = o
      BY <1>1, <1>2, <1>4, <1>5, <1>8, GoesOne DEF FindOrCreate
<1>10. KindOf(n)
      BY <1>1, <1>8, <1>9 DEF KindOf, Moved
<1>11. q.kind = "start" => /\ row'.state = "complete" /\ row'.data.graded
                           /\ row'.attempt < MaxAttempts
  <2>1. q.kind = "start" => /\ q.copy.state = "complete" /\ q.copy.data.graded
                            /\ q.copy.attempt < MaxAttempts
        BY <1>1, <1>2 DEF CopyFits
  <2> QED BY <1>5, <1>7, <2>1 DEF NowKept
<1>12. CopyFits(n)'
  <2>1. n.kind = q.kind /\ n.step \notin {"attempt", "scores"}
        BY <1>8, <1>9 DEF Moved
  <2> QED BY <1>1, <1>5, <1>9, <1>11, <2>1 DEF CopyFits, Same
<1>13. Base'
      BY <1>7, <1>9, <1>10, <1>12, MovedKeeps
<1> QED BY <1>1, <1>5, <1>8, <1>9, <1>13

\* The save of retake.
LEMMA RetakeDoes ==
  ASSUME Base, "lost" \notin harm', NEW q \in req, Retake(q)
  PROVE  /\ Base' /\ UNCHANGED <<policy, versions>>
         /\ q \in fresh /\ q.kind = "start" /\ q.step = "retake"
         /\ row'.state = "untaken" /\ row'.attempt = q.copy.attempt
         /\ row'.data = q.copy.data /\ row'.score = q.copy.score /\ row'.kept = q.copy.kept
         /\ \E n : Moved(q, n) /\ n.step = "attempt" /\ Same(n.copy, row')
<1>1. q \in fresh /\ q.kind = "start" /\ q.step = "retake" /\ policy' = policy
      BY WritesFresh DEF Retake, Goes, Base, KindsKnown, KindOf
<1>2. /\ row \in Rows /\ versions \in Seq(Version) /\ Len(versions) <= MaxVersions
      /\ TypeOK /\ q \in LoadedRequests /\ q.copy \in Rows /\ CopyFits(q)
      BY <1>1, AtHand
<1>3. PICK new : new = [q.copy EXCEPT !.state = "untaken"]
      OBVIOUS
<1>4. /\ new \in Rows /\ new.state = "untaken" /\ new.attempt = q.copy.attempt
      /\ new.data = q.copy.data /\ new.score = q.copy.score /\ new.kept = q.copy.kept
      BY <1>2, <1>3 DEF Rows
<1>5. Save(q.copy, new) /\ Goes(q, "attempt", new)
      BY <1>3 DEF Retake
<1>6. Fits(q.copy, new)
      BY <1>1, <1>2, <1>4, RowParts DEF Fits, CopyFits
<1>7. NowOpen(new)
      BY <1>1, <1>2, <1>4, <1>5, <1>6, SaveDoes
<1>8. PICK n : Moved(q, n) /\ n.step = "attempt" /\ n.copy = new
      BY <1>1, <1>2, <1>4, <1>5, GoesOne DEF Steps
<1>9. /\ row' \in Rows /\ Same(row', new) /\ versions' = versions
      BY <1>7 DEF NowOpen
<1>10. KindOf(n)
      BY <1>1, <1>8 DEF KindOf, Moved
<1>11. CopyFits(n)'
  <2>1. n.kind = "start"
        BY <1>1, <1>8 DEF Moved
  <2>2. new.data.graded /\ new.attempt < MaxAttempts
        BY <1>1, <1>2, <1>4 DEF CopyFits
  <2> QED BY <1>4, <1>8, <1>9, <2>1, <2>2 DEF CopyFits, Same
<1>12. Base'
  <2>1. Typed
        BY <1>1, <1>2, <1>9 DEF Typed
  <2> QED BY <1>8, <1>10, <1>11, <2>1, MovedKeeps
<1>13. Same(new, row')
      BY <1>9 DEF Same
<1> QED BY <1>1, <1>4, <1>8, <1>9, <1>12, <1>13 DEF Same

\* A step that saves and ends its request.
LEMMA SavesAndEnds ==
  ASSUME Base, NEW q \in fresh, NEW copy, NEW new, Fits(copy, new), Save(copy, new),
         Ends(q), policy' = policy
  PROVE  /\ Base' /\ Left(q)
         /\ new.state = "complete" /\ ~new.data.graded => NowGraded(new)
         /\ new.state = "complete" /\ new.data.graded => NowKept(new)
         /\ new.state = "untaken" => NowOpen(new)
<1>1. /\ row \in Rows /\ versions \in Seq(Version) /\ Len(versions) <= MaxVersions
      /\ TypeOK /\ q \in req
      BY AtHand
<1>2. /\ new.state = "complete" /\ ~new.data.graded => NowGraded(new)
      /\ new.state = "complete" /\ new.data.graded => NowKept(new)
      /\ new.state = "untaken" => NowOpen(new)
      BY <1>1, SaveDoes
<1>3. new.state \in States
      BY RowParts DEF Fits
<1>4. Typed
      BY <1>1, <1>2, <1>3, NowTypes DEF States
<1>5. Left(q)
      BY <1>1, EndsOne
<1> QED BY <1>1, <1>2, <1>4, <1>5, LeftKeeps

\* The new attempt.
LEMMA GenerateDoes ==
  ASSUME Base, "lost" \notin harm', NEW q \in req, Generate(q)
  PROVE  /\ Base' /\ UNCHANGED <<policy, versions>> /\ Left(q)
         /\ q \in fresh /\ q.kind = "start" /\ q.step = "attempt"
         /\ row'.state = "untaken" /\ row'.attempt = row.attempt + 1
         /\ ~row'.data.graded /\ row'.score = None /\ row'.kept = row.kept
<1>1. q \in fresh /\ q.kind = "start" /\ q.step = "attempt" /\ policy' = policy
      BY WritesFresh DEF Generate, Ends, Base, KindsKnown, KindOf
<1>2. /\ row \in Rows /\ versions \in Seq(Version) /\ Len(versions) <= MaxVersions
      /\ TypeOK /\ q.copy \in Rows /\ CopyFits(q)
      BY <1>1, AtHand
<1>3. PICK new : new = Fresh(q.copy.attempt + 1, q.copy.kept)
      OBVIOUS
<1>4. q.copy.attempt + 1 \in Attempts
      BY <1>1, <1>2, RowParts, BoundsAssumption DEF CopyFits, Attempts
<1>5. [graded |-> FALSE, points |-> 0] \in Answers
      BY BoundsAssumption DEF Answers, Points
<1>6. /\ new.state = "untaken" /\ new.attempt = q.copy.attempt + 1
      /\ ~new.data.graded /\ new.score = None /\ new.kept = q.copy.kept
      BY <1>3 DEF Fresh
<1>7. new \in Rows
  <2>1. q.copy.kept \in Scores /\ None \in Scores
        BY <1>2, RowParts DEF Scores
  <2> QED BY <1>3, <1>4, <1>5, <2>1 DEF Fresh, Rows
<1>8. PICK copy : copy = EndMoved(q.copy)
      OBVIOUS
<1>9. /\ copy \in Loaded /\ copy.state = q.copy.state /\ copy.attempt = q.copy.attempt
      /\ copy.score = q.copy.score /\ copy.kept = q.copy.kept
      BY <1>2, <1>8 DEF EndMoved, Loaded, Rows, None, States, Data
<1>10. Fits(copy, new)
      BY <1>1, <1>2, <1>7, <1>9 DEF Fits, CopyFits
<1>11. Save(copy, new) /\ Ends(q)
      BY <1>3, <1>8 DEF Generate
<1>12. Base' /\ Left(q) /\ NowOpen(new)
      BY <1>1, <1>6, <1>10, <1>11, SavesAndEnds
<1> QED BY <1>1, <1>2, <1>6, <1>12 DEF NowOpen, Same, CopyFits

\* The save of an extension, or of other settings.
LEMMA SaveSettingsDoes ==
  ASSUME Base, "lost" \notin harm', NEW q \in req, SaveSettings(q)
  PROVE  /\ Base' /\ policy' = policy /\ Left(q)
         /\ q \in fresh /\ q.kind = "extend" /\ q.step = "settings"
         /\ \E new : /\ Same(new, q.copy)
                     /\ new.state = "complete" /\ ~new.data.graded => NowGraded(new)
                     /\ new.state = "complete" /\ new.data.graded => NowKept(new)
                     /\ new.state = "untaken" => NowOpen(new)
<1>1. q \in fresh /\ q.kind = "extend" /\ q.step = "settings" /\ policy' = policy /\ Ends(q)
      BY WritesFresh DEF SaveSettings, Ends, Base, KindsKnown, KindOf
<1>2. q.copy \in Rows /\ CopyFits(q)
      BY <1>1, AtHand
<1>3. CASE Save(q.copy, q.copy)
  <2>1. Fits(q.copy, q.copy) /\ Same(q.copy, q.copy)
        BY <1>1, <1>2, RowParts DEF Fits, CopyFits, Same
  <2> QED BY <1>1, <1>3, <2>1, SavesAndEnds
<1>4. CASE Save(EndMoved(q.copy), [q.copy EXCEPT !.late = 0])
  <2>1. PICK copy, new : copy = EndMoved(q.copy) /\ new = [q.copy EXCEPT !.late = 0]
        OBVIOUS
  <2>2. /\ copy \in Loaded /\ copy.state = q.copy.state /\ copy.attempt = q.copy.attempt
        /\ copy.score = q.copy.score /\ copy.kept = q.copy.kept
        BY <1>2, <2>1 DEF EndMoved, Loaded, Rows, None, States, Data
  <2>3. new \in Rows /\ Same(new, q.copy)
        BY <1>2, <2>1 DEF Rows, Same
  <2>4. Fits(copy, new)
        BY <1>1, <1>2, <2>2, <2>3 DEF Fits, CopyFits
  <2> QED BY <1>1, <1>4, <2>1, <2>3, <2>4, SavesAndEnds
<1> QED BY <1>3, <1>4 DEF SaveSettings

\* A version with other points.
LEMMA ScoreSet ==
  ASSUME versions \in Seq(Version), NEW u \in 1..Len(versions), NEW points \in Points,
         NEW w, w = [versions EXCEPT ![u].score = points]
  PROVE  /\ w \in Seq(Version) /\ Len(w) = Len(versions)
         /\ \A v \in 1..Len(versions) : w[v].attempt = versions[v].attempt
         /\ w[u].score = points
<1>1. PICK n \in Nat : DOMAIN versions = 1..n /\ Len(versions) = n
      OBVIOUS
<1>2. PICK x \in Version : x = versions[u]
      OBVIOUS
<1>3. PICK y : y = [x EXCEPT !.score = points]
      OBVIOUS
<1>4. y \in Version /\ y.attempt = x.attempt /\ y.score = points
      BY <1>3 DEF Version
<1>5. w = [versions EXCEPT ![u] = y]
      BY <1>2, <1>3
<1>6. w \in [1..n -> Version] /\ DOMAIN w = 1..n
  <2>1. versions \in [1..n -> Version]
        BY <1>1
  <2> QED BY <1>4, <1>5, <2>1
<1>7. w \in Seq(Version) /\ Len(w) = n
      BY <1>6
<1>8. w[u] = y /\ \A v \in 1..n : v # u => w[v] = versions[v]
      BY <1>1, <1>5
<1> QED BY <1>1, <1>2, <1>4, <1>7, <1>8

\* update_submission_version; its request goes on by the attempt of the version.
LEMMA UpdateVersionDoes ==
  ASSUME Base, "lost" \notin harm', NEW q \in req, UpdateVersion(q)
  PROVE  /\ Base' /\ UNCHANGED <<policy, row>>
         /\ q \in fresh /\ q.kind = "update" /\ q.step = "version"
         /\ versions' \in Seq(Version) /\ Len(versions') = Len(versions)
         /\ q.version \in 1..Len(versions)
         /\ \A v \in 1..Len(versions) : versions'[v].attempt = versions[v].attempt
         /\ versions'[q.version].score = q.points
         /\ \E n : /\ Moved(q, n) /\ n.copy = q.copy
                   /\ n.step = IF /\ versions[q.version].attempt = q.copy.attempt
                                  /\ q.copy.state = "complete"
                               THEN "scores" ELSE "reload"
<1>1. q \in fresh /\ q.kind = "update" /\ q.step = "version"
      BY WritesFresh DEF UpdateVersion, Goes, Base, KindsKnown, KindOf
<1>2. /\ row \in Rows /\ versions \in Seq(Version) /\ Len(versions) <= MaxVersions
      /\ TypeOK /\ q \in LoadedRequests /\ q.copy \in Rows /\ CopyFits(q)
      /\ q.points \in Points
      BY <1>1, AtHand
<1>3. q.version \in 1..Len(versions) /\ UNCHANGED <<policy, row>>
      BY <1>1, AtHand DEF UpdateVersion
<1>4. versions' = [versions EXCEPT ![q.version].score = q.points]
      BY DEF UpdateVersion
<1>5. /\ versions' \in Seq(Version) /\ Len(versions') = Len(versions)
      /\ \A v \in 1..Len(versions) : versions'[v].attempt = versions[v].attempt
      /\ versions'[q.version].score = q.points
      BY <1>2, <1>3, <1>4, ScoreSet
<1>6. PICK step \in Steps : step = IF /\ versions[q.version].attempt = q.copy.attempt
                                      /\ q.copy.state = "complete"
                                   THEN "scores" ELSE "reload"
      BY DEF Steps
<1>7. PICK n : Moved(q, n) /\ n.step = step /\ n.copy = q.copy
      BY <1>1, <1>2, <1>6, GoesOne DEF UpdateVersion
<1>8. KindOf(n)
      BY <1>1, <1>6, <1>7 DEF KindOf, Moved
<1>9. CopyFits(n)'
  <2>1. n.kind = "update" /\ n.version = q.version /\ n.step \in {"scores", "reload"}
        BY <1>1, <1>6, <1>7 DEF Moved
  <2>2. n.step = "scores" => /\ q.copy.state = "complete"
                             /\ versions[q.version].attempt = row.attempt
        BY <1>2, <1>6, <1>7 DEF CopyFits
  <2> QED BY <1>1, <1>2, <1>3, <1>5, <1>7, <2>1, <2>2 DEF CopyFits
<1>10. Base'
  <2>1. Typed
        BY <1>2, <1>3, <1>5 DEF Typed
  <2> QED BY <1>7, <1>8, <1>9, <2>1, MovedKeeps
<1> QED BY <1>1, <1>3, <1>5, <1>6, <1>7, <1>10

\* The save of the new points of the attempt at hand.
LEMMA SaveScoresDoes ==
  ASSUME Base, "lost" \notin harm', NEW q \in req, SaveScores(q)
  PROVE  /\ Base' /\ UNCHANGED <<policy, versions>> /\ Left(q)
         /\ q \in fresh /\ q.kind = "update" /\ q.step = "scores"
         /\ row'.state = "complete" /\ row'.attempt = row.attempt /\ row'.data = Array
         /\ row'.score = q.points /\ row'.kept = ScoreToKeep(q.points)
<1>1. q \in fresh /\ q.kind = "update" /\ q.step = "scores" /\ policy' = policy /\ Ends(q)
      BY WritesFresh DEF SaveScores, Ends, Base, KindsKnown, KindOf
<1>2. q.copy \in Rows /\ CopyFits(q) /\ q.points \in Points
      BY <1>1, AtHand
<1>3. PICK new : new = [q.copy EXCEPT !.score = q.points, !.data = Array]
      OBVIOUS
<1>4. q.points \in Scores /\ Array \in Answers \cup {Array}
      BY <1>2 DEF Scores
<1>5. /\ new \in Rows /\ new.state = q.copy.state /\ new.attempt = q.copy.attempt
      /\ new.data = Array /\ new.score = q.points /\ new.kept = q.copy.kept
      BY <1>2, <1>3, <1>4 DEF Rows
<1>6. Fits(q.copy, new)
      BY <1>1, <1>2, <1>5, RowParts DEF Fits, CopyFits
<1>7. new.state = "complete" /\ new.data.graded
      BY <1>1, <1>2, <1>5 DEF CopyFits, Array
<1>8. Save(q.copy, new)
      BY <1>3 DEF SaveScores
<1>9. Base' /\ Left(q) /\ NowKept(new)
      BY <1>1, <1>6, <1>7, <1>8, SavesAndEnds
<1> QED BY <1>1, <1>2, <1>5, <1>9 DEF NowKept, CopyFits

\* The reload of the row.
LEMMA ReloadDoes ==
  ASSUME Base, NEW q \in req, Reload(q)
  PROVE  /\ Base' /\ UNCHANGED <<policy, row, versions>>
         /\ q.kind = "update" /\ q.step = "reload"
         /\ \E n : /\ req' = (req \ {q}) \cup {n} /\ fresh' = (fresh \ {q}) \cup {n}
                   /\ n.step = "kept" /\ n.copy = row
<1>1. /\ q.kind = "update" /\ q.step = "reload" /\ UNCHANGED <<policy, row, versions, harm>>
      /\ q.version \in 1..Len(versions)
      BY DEF Reload, Base, KindsKnown, KindOf
<1>2. TypeOK /\ row \in Rows /\ q \in LoadedRequests
      BY <1>1 DEF Base, TypeOK, BackupRequests
<1>3. PICK n : n = [q EXCEPT !.step = "kept", !.copy = row]
      OBVIOUS
<1>4. /\ n \in LoadedRequests /\ n.step = "kept" /\ n.copy = row
      /\ n.kind = "update" /\ n.version = q.version
  <2>1. "kept" \in Steps
        BY DEF Steps
  <2> QED BY <1>1, <1>2, <1>3, <2>1 DEF LoadedRequests
<1>5. req' = (req \ {q}) \cup {n} /\ fresh' = (fresh \ {q}) \cup {n}
      BY <1>3 DEF Reload
<1>6. KindOf(n) /\ CopyFits(n)'
      BY <1>1, <1>4 DEF KindOf, CopyFits
<1>7. KindsKnown'
      BY <1>1, <1>4, <1>5, <1>6 DEF Base, KindsKnown, KindOf
<1>8. CopiesFit' /\ fresh' \subseteq req'
      BY <1>1, <1>5, <1>6 DEF Base, CopiesFit, CopyFits
<1>9. TypeOK'
      BY <1>1, <1>2, <1>4, <1>5 DEF TypeOK
<1> QED BY <1>1, <1>4, <1>5, <1>7, <1>8, <1>9 DEF Base

\* The save of the score to keep.
LEMMA SaveKeptDoes ==
  ASSUME Base, "lost" \notin harm', NEW q \in req, SaveKept(q)
  PROVE  /\ Base' /\ policy' = policy /\ Left(q)
         /\ q \in fresh /\ q.kind = "update" /\ q.step = "kept"
         /\ \E new : /\ new.state = q.copy.state /\ new.attempt = q.copy.attempt
                     /\ new.data = q.copy.data /\ new.score = q.copy.score
                     /\ new.kept = ScoreToKeep(q.copy.score)
                     /\ new.state = "complete" /\ ~new.data.graded => NowGraded(new)
                     /\ new.state = "complete" /\ new.data.graded => NowKept(new)
                     /\ new.state = "untaken" => NowOpen(new)
<1>1. q \in fresh /\ q.kind = "update" /\ q.step = "kept" /\ policy' = policy /\ Ends(q)
      BY WritesFresh DEF SaveKept, Ends, Base, KindsKnown, KindOf
<1>2. q.copy \in Rows /\ CopyFits(q) /\ versions \in Seq(Version)
      BY <1>1, AtHand
<1>3. PICK k \in Scores : k = ScoreToKeep(q.copy.score)
      BY <1>2, KeptType, RowParts
<1>4. PICK new : new = [q.copy EXCEPT !.kept = k]
      OBVIOUS
<1>5. /\ new \in Rows /\ new.state = q.copy.state /\ new.attempt = q.copy.attempt
      /\ new.data = q.copy.data /\ new.score = q.copy.score /\ new.kept = k
      BY <1>2, <1>3, <1>4 DEF Rows
<1>6. Fits(q.copy, new)
      BY <1>1, <1>2, <1>5, RowParts DEF Fits, CopyFits
<1>7. Save(q.copy, new)
      BY <1>3, <1>4 DEF SaveKept
<1> QED BY <1>1, <1>3, <1>5, <1>6, <1>7, SavesAndEnds

-----------------------------------------------------------------------------

\* A request of the student, a viewer or a teacher that loads the row.
Entry ==
  \/ StartQuiz \/ Viewer \/ Teacher
  \/ \E points \in Points : Create(points)

\* Every request that loads the row, with what its tests say of the row.
LEMMA EntryDoes ==
  ASSUME Base, Entry
  PROVE  /\ Base' /\ UNCHANGED <<policy, row, versions>>
         /\ \E n : /\ Came(n) /\ n.copy = row
                   /\ n.step \in {"mark", "grade", "save", "version"}
                   /\ n.step = "grade" => row.state = "untaken" \/ ~row.data.graded
<1> DEFINE Q == /\ Base' /\ UNCHANGED <<policy, row, versions>>
                /\ \E n : /\ Came(n) /\ n.copy = row
                          /\ n.step \in {"mark", "grade", "save", "version"}
                          /\ n.step = "grade" => row.state = "untaken" \/ ~row.data.graded
<1>1. 0 \in Points /\ 0 \in 0..MaxVersions
      BY BoundsAssumption DEF Points
<1>2. {"create", "view", "start", "extend", "update"} \subseteq Kinds \ {"backup"}
      BY DEF Kinds
<1>3. {"mark", "grade", "save", "version"} \subseteq Steps
      BY DEF Steps
<1>4. CASE StartQuiz
  <2>1. row.state = "complete" /\ row.data.graded /\ row.attempt < MaxAttempts
        BY <1>4 DEF StartQuiz, NeedsGrading
  <2>2. Loads("start", "save", 0, 0)
        BY <1>4 DEF StartQuiz
  <2> QED BY <1>1, <1>2, <1>3, <2>1, <2>2, LoadsDoes
<1>5. ASSUME NEW points \in Points, Create(points) PROVE Q
  <2>1. row.state = "untaken" /\ Loads("create", "mark", points, 0)
        BY <1>5 DEF Create
  <2> QED BY <1>1, <1>2, <1>3, <2>1, LoadsDoes
<1>6. ASSUME NEW strict \in BOOLEAN, View(strict) PROVE Q
  <2>1. Loads("view", "grade", 0, 0)
        BY <1>6 DEF View
  <2>2. row.state = "untaken" \/ ~row.data.graded
        BY <1>6 DEF View, NeedsGrading
  <2> QED BY <1>1, <1>2, <1>3, <2>1, <2>2, LoadsDoes
<1>7. CASE Extensions
  <2>1. Loads("extend", "save", 0, 0)
        BY <1>7 DEF Extensions
  <2> QED BY <1>1, <1>2, <1>3, <2>1, LoadsDoes
<1>8. ASSUME NEW points \in Points, NEW version \in DOMAIN versions, Update(points, version)
      PROVE  Q
  <2>1. Loads("update", "version", points, version)
        BY <1>8 DEF Update
  <2>2. version \in 1..Len(versions) /\ version \in 0..MaxVersions
    <3>1. versions \in Seq(Version) /\ Len(versions) <= MaxVersions
          BY DEF Base, TypeOK, Version
    <3> QED BY <3>1, BoundsAssumption
  <2> QED BY <1>2, <1>3, <2>1, <2>2, LoadsDoes
<1> QED BY <1>4, <1>5, <1>6, <1>7, <1>8 DEF Entry, Viewer, Teacher

\* The steps of the specification, one by one.
LEMMA NextCases ==
  ASSUME Next
  PROVE  \/ Entry
         \/ \E points \in Points : Backup(points)
         \/ \E q \in req : \/ BackupSubmissionData(q) \/ MarkCompleted(q)
                           \/ GradeSubmission(q) \/ FindOrCreate(q)
         \/ \E q \in req : Retake(q) \/ Generate(q) \/ SaveSettings(q) \/ UpdateVersion(q)
         \/ \E q \in req : SaveScores(q) \/ Reload(q) \/ SaveKept(q) \/ Kill(q)
         \/ TimePasses
BY DEF Next, Student, Entry, Proceed

\* Base holds at the start ...
LEMMA InitBase == Init => Base
<1> SUFFICES ASSUME Init PROVE Base
    OBVIOUS
<1>1. row \in Rows
  <2>1. [graded |-> FALSE, points |-> 0] \in Answers
        BY BoundsAssumption DEF Answers, Points
  <2>2. 1 \in Attempts /\ None \in Scores
        BY BoundsAssumption DEF Attempts, Scores
  <2> QED BY <2>1, <2>2 DEF Init, Fresh, Rows
<1>2. versions = <<>> /\ Len(versions) <= MaxVersions
      BY BoundsAssumption DEF Init
<1>3. TypeOK
      BY <1>1, <1>2 DEF Init, TypeOK
<1> QED BY <1>3 DEF Init, Base, KindsKnown, CopiesFit

\* ... and is kept by every step that loses no update.
LEMMA StepBase ==
  ASSUME Base, [Next]_vars, "lost" \notin harm'
  PROVE  Base'
<1>1. CASE UNCHANGED vars
      BY <1>1 DEF vars, Base, TypeOK, KindsKnown, CopiesFit, CopyFits
<1>2. CASE Entry
      BY <1>2, EntryDoes
<1>3. CASE \E points \in Points : Backup(points)
      BY <1>3, BackupDoes
<1>4. CASE \E q \in req : \/ BackupSubmissionData(q) \/ MarkCompleted(q)
                          \/ GradeSubmission(q) \/ FindOrCreate(q)
      BY <1>4, BackupSubmissionDataDoes, MarkCompletedDoes, GradeSubmissionDoes, FindOrCreateDoes
<1>5. CASE \E q \in req : Retake(q) \/ Generate(q) \/ SaveSettings(q) \/ UpdateVersion(q)
      BY <1>5, RetakeDoes, GenerateDoes, SaveSettingsDoes, UpdateVersionDoes
<1>6. CASE \E q \in req : SaveScores(q) \/ Reload(q) \/ SaveKept(q) \/ Kill(q)
      BY <1>6, SaveScoresDoes, ReloadDoes, SaveKeptDoes, KillDoes
<1>7. CASE TimePasses
      BY <1>7, TimePassesDoes
<1> QED BY <1>1, <1>2, <1>3, <1>4, <1>5, <1>6, <1>7, NextCases

\* What has been harmed stays harmed.
LEMMA HarmStays == [Next]_vars => harm \subseteq harm'
<1> SUFFICES ASSUME [Next]_vars PROVE harm \subseteq harm'
    OBVIOUS
<1>1. CASE UNCHANGED vars
      BY <1>1 DEF vars
<1>2. CASE Entry
      BY <1>2 DEF Entry, StartQuiz, Create, Viewer, View, Teacher, Extensions, Update,
                  Loads, Enters
<1>3. CASE \E points \in Points : Backup(points)
      BY <1>3 DEF Backup, Enters
<1>4. CASE \E q \in req : \/ BackupSubmissionData(q) \/ MarkCompleted(q)
                          \/ GradeSubmission(q) \/ FindOrCreate(q)
      BY <1>4 DEF BackupSubmissionData, MarkCompleted, GradeSubmission, FindOrCreate,
                  Goes, Ends, Quits, Writes
<1>5. CASE \E q \in req : Retake(q) \/ Generate(q) \/ SaveSettings(q) \/ UpdateVersion(q)
      BY <1>5 DEF Retake, Generate, SaveSettings, UpdateVersion, Goes, Ends, Writes
<1>6. CASE \E q \in req : SaveScores(q) \/ Reload(q) \/ SaveKept(q) \/ Kill(q)
      BY <1>6 DEF SaveScores, Reload, SaveKept, Kill, Goes, Ends, Quits, Writes
<1>7. CASE TimePasses
      BY <1>7 DEF TimePasses
<1> QED BY <1>1, <1>2, <1>3, <1>4, <1>5, <1>6, <1>7, NextCases

\* Unless an update was lost, the row, its versions and the requests are well typed,
\* and a copy that nobody has written over agrees with the row until its request's
\* last step, whatever overlaps and is killed
\* (quiz_submissions_controller.rb, quizzes_controller.rb).
THEOREM BaseHolds == Spec => [](("lost" \notin harm) => Base)
<1>1. Init => Base
      BY InitBase
<1>2. (("lost" \notin harm) => Base) /\ [Next]_vars => (("lost" \notin harm) => Base)'
      BY StepBase, HarmStays
<1> QED BY <1>1, <1>2, PTL DEF Spec

-----------------------------------------------------------------------------
(* Every attempt is graded, whatever is killed. *)

HasVersion(a) == \E v \in DOMAIN versions : versions[v].attempt = a

AllGraded == \A a \in 1..(row.attempt - 1) : HasVersion(a)

\* Answers that have been graded, in the row or in a fresh copy, have a version.
GradedInv ==
  /\ Base
  /\ AllGraded
  /\ row.data.graded => HasVersion(row.attempt)
  /\ \A q \in fresh : q.copy.data.graded => HasVersion(row.attempt)

VersionsStay == \A a : HasVersion(a) => HasVersion(a)'

\* No save loses a version, and grading adds one.
LEMMA SavesKeepVersions ==
  ASSUME versions \in Seq(Version), NEW new,
         NowGraded(new) \/ NowKept(new) \/ NowOpen(new)
  PROVE  /\ VersionsStay
         /\ NowGraded(new) => HasVersion(new.attempt)'
<1>1. PICK n \in Nat : DOMAIN versions = 1..n /\ Len(versions) = n
      OBVIOUS
<1>2. CASE NowGraded(new)
  <2>1. DOMAIN versions' = 1..n + 1
        BY <1>1, <1>2 DEF NowGraded
  <2>2. n + 1 \in 1..n + 1 /\ \A v \in 1..n : v \in 1..n + 1
        BY <1>1
  <2>3. versions'[n + 1].attempt = new.attempt /\ \A v \in 1..n : versions'[v] = versions[v]
        BY <1>1, <1>2 DEF NowGraded
  <2> QED BY <1>1, <2>1, <2>2, <2>3 DEF VersionsStay, HasVersion
<1>3. CASE ~NowGraded(new)
      BY <1>3 DEF NowKept, NowOpen, VersionsStay, HasVersion
<1> QED BY <1>2, <1>3

\* The attempt stays, with its versions, and what is graded anew has one.
LEMMA SameAttempt ==
  ASSUME GradedInv, Base', VersionsStay, row'.attempt = row.attempt,
         row'.data.graded => row.data.graded \/ HasVersion(row.attempt)',
         \A r \in fresh' : r.copy.data.graded =>
           \/ row.data.graded \/ HasVersion(row.attempt) \/ HasVersion(row.attempt)'
           \/ r \in fresh
  PROVE  GradedInv'
<1>1. AllGraded'
      BY DEF GradedInv, AllGraded, VersionsStay, HasVersion
<1> QED BY <1>1 DEF GradedInv, VersionsStay

\* The attempt stays, and so do the versions.
LEMMA SameVersions ==
  ASSUME GradedInv, Base', versions' = versions, row'.attempt = row.attempt,
         row'.data.graded => row.data.graded \/ HasVersion(row.attempt),
         \A r \in fresh' : r.copy.data.graded =>
           row.data.graded \/ HasVersion(row.attempt) \/ r \in fresh
  PROVE  GradedInv'
<1>1. VersionsStay /\ (HasVersion(row.attempt) => HasVersion(row.attempt)')
      BY DEF VersionsStay, HasVersion
<1> QED BY <1>1, SameAttempt

\* GradedInv after steps that write from no copy.
LEMMA QuietGraded ==
  ASSUME GradedInv, Base', Quiet, versions' = versions, row'.attempt = row.attempt,
         row'.data.graded => row.data.graded
  PROVE  GradedInv'
BY SameVersions DEF Quiet

\* A request that saved new ends, or goes on with what it saved.
LEMMA SaveGraded ==
  ASSUME GradedInv, Base', NEW new, new.attempt = row.attempt,
         NowGraded(new) \/ NowKept(new) \/ NowOpen(new),
         new.data.graded => HasVersion(row.attempt),
         \A r \in fresh' : Same(r.copy, row')
  PROVE  GradedInv'
<1>1. versions \in Seq(Version) /\ Len(versions) <= MaxVersions
      BY DEF GradedInv, Base, TypeOK, Version
<1>2. row'.attempt = new.attempt
      BY DEF NowGraded, NowKept, NowOpen, Same
<1>3. VersionsStay /\ (NowGraded(new) => HasVersion(row.attempt)')
      BY <1>1, <1>2, SavesKeepVersions DEF HasVersion
<1>4. row'.data.graded => HasVersion(row.attempt)'
      BY <1>2, <1>3 DEF NowKept, NowOpen, Same, VersionsStay, HasVersion
<1>5. \A r \in fresh' : r.copy.data.graded => HasVersion(row.attempt)'
      BY <1>4 DEF Same
<1> QED BY <1>2, <1>3, <1>4, <1>5, SameAttempt

\* GradedInv after a step of a request.
LEMMA RequestGraded ==
  ASSUME GradedInv, "lost" \notin harm', NEW q \in req, Proceed(q) \/ Kill(q)
  PROVE  GradedInv'
<1>1. /\ Base /\ (row.data.graded => HasVersion(row.attempt))
      /\ q \in fresh /\ q.copy.data.graded => HasVersion(row.attempt)
      BY DEF GradedInv, Base
<1>2. CASE BackupSubmissionData(q)
      BY <1>1, <1>2, BackupSubmissionDataDoes, QuietGraded DEF BackedUp
<1>3. CASE MarkCompleted(q)
  <2>1. PICK n : Moved(q, n) /\ n.copy = q.copy
        BY <1>1, <1>3, MarkCompletedDoes
  <2>2. \A r \in fresh' : r.copy.data.graded => HasVersion(row.attempt) \/ r \in fresh
        BY <1>1, <1>3, <2>1, MarkCompletedDoes DEF Moved
  <2> QED BY <1>1, <1>3, <2>2, MarkCompletedDoes, SameVersions
<1>4. CASE GradeSubmission(q)
  <2>1. PICK o : o = Object(q)
        OBVIOUS
  <2>2. /\ Base'
        /\ \/ Quiet /\ UNCHANGED <<row, versions>>
           \/ Left(q) /\ NowGraded(o) /\ o.attempt = row.attempt /\ ~o.data.graded
        BY <1>1, <1>4, <2>1, GradeSubmissionDoes
  <2>3. CASE Quiet /\ UNCHANGED <<row, versions>>
        BY <2>2, <2>3, QuietGraded
  <2>4. CASE Left(q) /\ NowGraded(o) /\ o.attempt = row.attempt /\ ~o.data.graded
    <3>1. \A r \in fresh' : Same(r.copy, row')
          BY <2>4 DEF Left
    <3> QED BY <2>2, <2>4, <3>1, SaveGraded
  <2> QED BY <2>2, <2>3, <2>4
<1>5. CASE FindOrCreate(q)
  <2>1. /\ Base' /\ q \in fresh
        /\ q.copy.state = "complete" /\ ~q.copy.data.graded => NowGraded(q.copy)
        /\ q.copy.state = "complete" /\ q.copy.data.graded => NowKept(q.copy)
        /\ q.copy.state = "untaken" => NowOpen(q.copy)
        BY <1>1, <1>5, FindOrCreateDoes
  <2>2. PICK n : Moved(q, n) /\ Same(n.copy, row')
        BY <1>1, <1>5, FindOrCreateDoes
  <2>3. q.copy.state \in States /\ q.copy.attempt = row.attempt
        BY <1>1, <2>1, AtHand DEF CopyFits
  <2>4. NowGraded(q.copy) \/ NowKept(q.copy) \/ NowOpen(q.copy)
        BY <2>1, <2>3 DEF States
  <2>5. \A r \in fresh' : Same(r.copy, row')
        BY <2>2 DEF Moved
  <2> QED BY <1>1, <2>1, <2>3, <2>4, <2>5, SaveGraded
<1>6. CASE Retake(q)
  <2>1. /\ Base' /\ q \in fresh /\ versions' = versions
        /\ row'.attempt = q.copy.attempt /\ row'.data = q.copy.data
        BY <1>1, <1>6, RetakeDoes
  <2>2. PICK n : Moved(q, n) /\ Same(n.copy, row')
        BY <1>1, <1>6, RetakeDoes
  <2>3. q.copy.attempt = row.attempt
        BY <1>1, <2>1, AtHand DEF CopyFits
  <2>4. \A r \in fresh' : r.copy.data.graded => HasVersion(row.attempt)
        BY <1>1, <2>1, <2>2 DEF Moved, Same
  <2> QED BY <1>1, <2>1, <2>3, <2>4, SameVersions
<1>7. CASE Generate(q)
  <2>1. /\ Base' /\ q \in fresh /\ Left(q) /\ versions' = versions
        /\ q.kind = "start" /\ row'.attempt = row.attempt + 1 /\ ~row'.data.graded
        BY <1>1, <1>7, GenerateDoes
  <2>2. HasVersion(row.attempt)
        BY <1>1, <2>1, AtHand DEF CopyFits
  <2>3. row.attempt \in Nat
        BY <1>1, RowParts DEF Base, TypeOK, Attempts
  <2>4. AllGraded
        BY DEF GradedInv
  <2>5. AllGraded'
    <3> SUFFICES ASSUME NEW a \in 1..row.attempt
                 PROVE  \E v \in DOMAIN versions : versions[v].attempt = a
        BY <2>1, <2>3 DEF AllGraded, HasVersion
    <3>1. a = row.attempt \/ a \in 1..(row.attempt - 1)
          BY <2>3
    <3> QED BY <2>2, <2>4, <3>1 DEF AllGraded, HasVersion
  <2> QED BY <2>1, <2>5 DEF GradedInv, Left
<1>8. CASE SaveSettings(q)
  <2>1. Base' /\ Left(q) /\ q \in fresh
        BY <1>1, <1>8, SaveSettingsDoes
  <2>2. PICK new : /\ Same(new, q.copy)
                   /\ new.state = "complete" /\ ~new.data.graded => NowGraded(new)
                   /\ new.state = "complete" /\ new.data.graded => NowKept(new)
                   /\ new.state = "untaken" => NowOpen(new)
        BY <1>1, <1>8, SaveSettingsDoes
  <2>3. new.state \in States /\ new.attempt = row.attempt
        BY <1>1, <2>1, <2>2, AtHand DEF CopyFits, Same
  <2>4. NowGraded(new) \/ NowKept(new) \/ NowOpen(new)
        BY <2>2, <2>3 DEF States
  <2>5. new.data.graded => HasVersion(row.attempt)
        BY <1>1, <2>1, <2>2 DEF Same
  <2> QED BY <2>1, <2>3, <2>4, <2>5, SaveGraded DEF Left
<1>9. CASE UpdateVersion(q)
  <2>1. /\ Base' /\ q \in fresh /\ row' = row
        /\ versions' \in Seq(Version) /\ Len(versions') = Len(versions)
        /\ \A v \in 1..Len(versions) : versions'[v].attempt = versions[v].attempt
        BY <1>1, <1>9, UpdateVersionDoes
  <2>2. PICK n : Moved(q, n) /\ n.copy = q.copy
        BY <1>1, <1>9, UpdateVersionDoes
  <2>3. VersionsStay
    <3>1. versions \in Seq(Version)
          BY <1>1, <2>1, AtHand
    <3>2. PICK k \in Nat : Len(versions) = k
          BY <3>1
    <3>3. DOMAIN versions = 1..k /\ DOMAIN versions' = 1..k
          BY <2>1, <3>1, <3>2
    <3> QED BY <2>1, <3>2, <3>3 DEF VersionsStay, HasVersion
  <2>4. \A r \in fresh' : r.copy.data.graded => HasVersion(row.attempt) \/ r \in fresh
        BY <1>1, <2>1, <2>2 DEF Moved
  <2> QED BY <1>1, <2>1, <2>3, <2>4, SameAttempt
<1>10. CASE SaveScores(q)
  <2>1. /\ Base' /\ Left(q) /\ q \in fresh /\ versions' = versions /\ q.step = "scores"
        /\ q.kind = "update" /\ row'.attempt = row.attempt
        BY <1>1, <1>10, SaveScoresDoes
  <2>2. HasVersion(row.attempt)
    <3>1. q.version \in 1..Len(versions) /\ versions[q.version].attempt = row.attempt
          BY <1>1, <2>1, AtHand DEF CopyFits
    <3>2. versions \in Seq(Version)
          BY <1>1, <2>1, AtHand
    <3> QED BY <3>1, <3>2 DEF HasVersion
  <2> QED BY <2>1, <2>2, SameVersions DEF Left
<1>11. CASE Reload(q)
  <2>1. Base' /\ UNCHANGED <<row, versions>>
        BY <1>1, <1>11, ReloadDoes
  <2>2. PICK n : fresh' = (fresh \ {q}) \cup {n} /\ n.copy = row
        BY <1>1, <1>11, ReloadDoes
  <2> QED BY <2>1, <2>2, SameVersions
<1>12. CASE SaveKept(q)
  <2>1. Base' /\ Left(q) /\ q \in fresh
        BY <1>1, <1>12, SaveKeptDoes
  <2>2. PICK new : /\ new.state = q.copy.state /\ new.attempt = q.copy.attempt
                   /\ new.data = q.copy.data
                   /\ new.state = "complete" /\ ~new.data.graded => NowGraded(new)
                   /\ new.state = "complete" /\ new.data.graded => NowKept(new)
                   /\ new.state = "untaken" => NowOpen(new)
        BY <1>1, <1>12, SaveKeptDoes
  <2>3. new.state \in States /\ new.attempt = row.attempt
        BY <1>1, <2>1, <2>2, AtHand DEF CopyFits
  <2>4. NowGraded(new) \/ NowKept(new) \/ NowOpen(new)
        BY <2>2, <2>3 DEF States
  <2> QED BY <1>1, <2>1, <2>2, <2>3, <2>4, SaveGraded DEF Left
<1>13. CASE Kill(q)
      BY <1>1, <1>13, KillDoes, QuietGraded
<1> QED BY <1>2, <1>3, <1>4, <1>5, <1>6, <1>7, <1>8, <1>9, <1>10, <1>11, <1>12, <1>13
        DEF Proceed

\* GradedInv is kept by every step.
LEMMA StepGraded ==
  ASSUME GradedInv, [Next]_vars, "lost" \notin harm'
  PROVE  GradedInv'
<1>1. Base /\ (row.data.graded => HasVersion(row.attempt))
      BY DEF GradedInv
<1>2. CASE UNCHANGED vars
  <2>1. Base' /\ row' = row /\ versions' = versions /\ fresh' = fresh
        BY <1>1, <1>2, StepBase DEF vars
  <2> QED BY <2>1, SameVersions
<1>3. CASE Entry
  <2>1. Base' /\ UNCHANGED <<row, versions>>
        BY <1>1, <1>3, EntryDoes
  <2>2. PICK n : Came(n) /\ n.copy = row
        BY <1>1, <1>3, EntryDoes
  <2> QED BY <2>1, <2>2, SameVersions DEF Came
<1>4. CASE \E points \in Points : Backup(points)
      BY <1>1, <1>4, BackupDoes, QuietGraded
<1>5. CASE \E q \in req : Proceed(q) \/ Kill(q)
      BY <1>5, RequestGraded
<1>6. CASE TimePasses
      BY <1>1, <1>6, TimePassesDoes, QuietGraded
<1> QED BY <1>2, <1>3, <1>4, <1>5, <1>6 DEF Next, Student, Entry

\* Every attempt before the current one has a version, whichever requests overlap
\* and are killed half way, unless one of them wrote from a copy that another had
\* written over (quizzes_controller.rb:172, 539).
THEOREM AttemptsAreGraded == Spec => []EveryAttemptGraded
<1> DEFINE Inv == ("lost" \notin harm) => GradedInv
<1>1. Init => Inv
  <2> SUFFICES ASSUME Init PROVE GradedInv
      OBVIOUS
  <2>1. Base
        BY InitBase
  <2> QED BY <2>1 DEF Init, Fresh, GradedInv, AllGraded
<1>2. Inv /\ [Next]_vars => Inv'
      BY StepGraded, HarmStays
<1>3. Inv => EveryAttemptGraded
      BY DEF GradedInv, AllGraded, HasVersion, EveryAttemptGraded
<1> QED BY <1>1, <1>2, <1>3, PTL DEF Spec

-----------------------------------------------------------------------------
(* What the row shows is what its versions record, as long as no update was *)
(* lost and no request torn.                                                 *)

VersionsInOrder == \A v \in 1..Len(versions) : versions[v].attempt = v

\* The row between the requests: with its grade recorded, or with answers.
Steady ==
  IF row.data.graded
  THEN /\ row.state = "complete" /\ Len(versions) = row.attempt
       /\ row.score # None /\ row.score = versions[Len(versions)].score
  ELSE Len(versions) = row.attempt - 1 /\ row.score = None

\* The row after a retake was saved and before the new attempt is.
Opening ==
  /\ row.state = "untaken" /\ Len(versions) = row.attempt
  /\ row.score # None /\ row.score = versions[Len(versions)].score

\* The row when its newest version has been given other points.
Rescored == row.state = "complete" /\ row.data.graded /\ Len(versions) = row.attempt

RowAt(step) ==
  /\ step \notin {"attempt", "scores"} => Steady
  /\ step = "attempt" => Opening
  /\ step = "scores" => Rescored

KeptAt(step) == step \notin {"scores", "reload", "kept"} => row.kept = PolicyScore

CopyAt(q) ==
  /\ q.step # "attempt" => q.copy.data.graded = row.data.graded
  /\ q.step = "grade" => ~q.copy.data.graded
  /\ q.step = "scores" => versions[q.version].score = q.points

AtStep(q) == RowAt(q.step) /\ KeptAt(q.step) /\ CopyAt(q)

\* No request is midway.
Settled == \A q \in req : ~Midway(q)

\* At most one request is midway, with a fresh copy, and the row is as it expects;
\* when none is, the row is steady, and so is every fresh copy.
RecordedInv ==
  /\ Base
  /\ VersionsInOrder
  /\ \A q \in req : Midway(q) =>
       q \in fresh /\ AtStep(q) /\ \A other \in req : Midway(other) => other = q
  /\ Settled => Steady /\ row.kept = PolicyScore /\ \A q \in fresh : CopyAt(q)

\* What RecordedInv says of the types.
LEMMA RecordedParts ==
  ASSUME RecordedInv
  PROVE  /\ row \in Rows /\ row.attempt \in Nat /\ row.attempt >= 1
         /\ row.state \in States /\ row.score \in Scores /\ row.kept \in Scores
         /\ versions \in Seq(Version) /\ Len(versions) \in Nat
         /\ Base /\ VersionsInOrder /\ policy \in Policies
<1>1. row \in Rows /\ versions \in Seq(Version) /\ policy \in Policies
      BY DEF RecordedInv, Base, TypeOK, Version, Policies
<1>2. row.attempt \in Nat /\ row.attempt >= 1
      BY <1>1, RowParts DEF Attempts
<1> QED BY <1>1, <1>2, RowParts DEF RecordedInv

\* A request that writes and tears no other one apart: what it finds.
LEMMA RecordedAt ==
  ASSUME RecordedInv, NEW q \in fresh, \A other \in req \ {q} : ~Midway(other)
  PROVE  /\ RowAt(q.step) /\ KeptAt(q.step) /\ CopyAt(q) /\ CopyFits(q) /\ KindOf(q)
         /\ q.copy \in Rows /\ q.copy.state \in States
         /\ q.kind = "update" => q.version \in 1..Len(versions)
<1>1. Base /\ q \in req
      BY DEF RecordedInv, Base
<1>2. CASE Midway(q)
      BY <1>1, <1>2, AtHand DEF RecordedInv, AtStep
<1>3. CASE ~Midway(q)
  <2>1. Settled
        BY <1>3 DEF Settled
  <2>2. Steady /\ row.kept = PolicyScore /\ CopyAt(q)
        BY <2>1 DEF RecordedInv
  <2>3. RowAt(q.step) /\ KeptAt(q.step)
        BY <1>3, <2>2 DEF RowAt, KeptAt, Midway
  <2> QED BY <1>1, <2>2, <2>3, AtHand
<1> QED BY <1>2, <1>3

\* RecordedInv after a request came ...
LEMMA CameRecorded ==
  ASSUME RecordedInv, Base', UNCHANGED <<policy, row, versions>>, NEW n, Came(n),
         ~Midway(n), Settled => CopyAt(n)
  PROVE  RecordedInv'
<1>1. PolicyScore' = PolicyScore /\ VersionsInOrder' /\ Steady' = Steady
      BY DEF RecordedInv, PolicyScore, Recorded, VersionsInOrder, Steady
<1>2. \A q : AtStep(q)' = AtStep(q) /\ CopyAt(q)' = CopyAt(q)
      BY <1>1 DEF AtStep, RowAt, KeptAt, CopyAt, Steady, Opening, Rescored
<1>3. \A q : q \in req' /\ Midway(q) <=> q \in req /\ Midway(q)
      BY DEF Came, RecordedInv, Base
<1>4. Settled' <=> Settled
      BY <1>3 DEF Settled
<1> QED BY <1>1, <1>2, <1>3, <1>4 DEF RecordedInv, Came

\* ... after the one that wrote went on ...
LEMMA MovedRecorded ==
  ASSUME Base', VersionsInOrder', NEW q, NEW n, Moved(q, n), AtStep(n)',
         \A other \in req \ {q} : ~Midway(other)
  PROVE  RecordedInv'
<1>1. CASE Midway(n)
      BY <1>1 DEF Moved, RecordedInv, Settled
<1>2. CASE ~Midway(n)
  <2>1. Steady' /\ row'.kept = PolicyScore' /\ CopyAt(n)'
        BY <1>2 DEF AtStep, RowAt, KeptAt, Midway
  <2> QED BY <1>2, <2>1 DEF Moved, RecordedInv
<1> QED BY <1>1, <1>2

\* ... and after it has ended.
LEMMA LeftRecorded ==
  ASSUME Base', VersionsInOrder', NEW q, Left(q), Steady', row'.kept = PolicyScore',
         \A other \in req \ {q} : ~Midway(other)
  PROVE  RecordedInv'
BY DEF Left, RecordedInv

\* Who writes and tears no request apart leaves none midway behind.
LEMMA WritesAlone ==
  ASSUME NEW q, NEW next, Writes(q, next), harm' = {}
  PROVE  \A other \in req \ {q} : ~Midway(other)
BY DEF Writes

\* The score to keep depends on the policy and the versions.
LEMMA SamePolicy ==
  ASSUME policy' = policy, versions' = versions
  PROVE  /\ PolicyScore' = PolicyScore
         /\ VersionsInOrder => VersionsInOrder'
BY DEF PolicyScore, Recorded, VersionsInOrder

\* Autosaves, the time, and requests that end between their writes.
LEMMA QuietRecorded ==
  ASSUME RecordedInv, Base', Quiet, policy' = policy, versions' = versions,
         row'.state = row.state, row'.attempt = row.attempt,
         row'.score = row.score, row'.kept = row.kept,
         row'.data.graded = row.data.graded \/ BackedUp,
         \A q \in req : Midway(q) => q \in req'
  PROVE  RecordedInv'
<1>1. PolicyScore' = PolicyScore /\ VersionsInOrder'
      BY SamePolicy DEF RecordedInv
<1>2. Steady => row'.data.graded = row.data.graded /\ Steady'
  <2>1. Steady /\ BackedUp => ~row.data.graded /\ ~row'.data.graded
        BY RecordedParts DEF Steady, BackedUp
  <2>2. row \in Rows /\ row' \in Rows /\ row.data \in Data /\ row'.data \in Data
        BY RecordedParts, RowParts DEF Base, TypeOK
  <2>3. row.data.graded \in BOOLEAN /\ row'.data.graded \in BOOLEAN
    <3>1. ASSUME NEW d \in Data PROVE d.graded \in BOOLEAN
      <4>1. CASE d \in Answers
            BY <4>1 DEF Answers
      <4>2. CASE d = Array
            BY <4>2 DEF Array
      <4> QED BY <4>1, <4>2 DEF Data
    <3> QED BY <2>2, <3>1
  <2>4. Steady => row'.data.graded = row.data.graded
        BY <2>1, <2>3
  <2> QED BY <2>4 DEF Steady
<1>3. Opening => Opening'
      BY DEF Opening
<1>4. Rescored => row'.data.graded = row.data.graded /\ Rescored'
      BY DEF Rescored, BackedUp
<1>5. ASSUME NEW q, AtStep(q) PROVE AtStep(q)'
  <2>1. RowAt(q.step) /\ KeptAt(q.step) /\ CopyAt(q)
        BY <1>5 DEF AtStep
  <2>2. RowAt(q.step)'
        BY <1>2, <1>3, <1>4, <2>1 DEF RowAt
  <2>3. KeptAt(q.step)'
        BY <1>1, <2>1 DEF KeptAt
  <2>4. q.step # "attempt" => row'.data.graded = row.data.graded
        BY <1>2, <1>4, <2>1 DEF RowAt
  <2>5. CopyAt(q)'
        BY <2>1, <2>4 DEF CopyAt
  <2> QED BY <2>2, <2>3, <2>5 DEF AtStep
<1>6. \A q : q \in req' /\ Midway(q) <=> q \in req /\ Midway(q)
  <2>1. \A q \in BackupRequests : ~Midway(q)
        BY DEF BackupRequests, Midway
  <2> QED BY <2>1 DEF Quiet
<1>7. ASSUME NEW q \in req', Midway(q)
      PROVE  q \in fresh' /\ AtStep(q)' /\ \A other \in req' : Midway(other) => other = q
  <2>1. q \in req /\ q \in fresh /\ AtStep(q) /\ \A other \in req : Midway(other) => other = q
        BY <1>6, <1>7 DEF RecordedInv
  <2> QED BY <1>5, <1>6, <1>7, <2>1 DEF Quiet
<1>8. Settled' => Steady' /\ row'.kept = PolicyScore' /\ \A q \in fresh' : CopyAt(q)'
  <2> SUFFICES ASSUME Settled' PROVE Steady' /\ row'.kept = PolicyScore' /\ \A q \in fresh' : CopyAt(q)'
      OBVIOUS
  <2>1. Settled
        BY <1>6 DEF Settled
  <2>2. Steady /\ row.kept = PolicyScore /\ \A q \in fresh : CopyAt(q)
        BY <2>1 DEF RecordedInv
  <2>3. row'.data.graded = row.data.graded /\ fresh' \subseteq fresh
        BY <1>2, <2>2 DEF Quiet
  <2> QED BY <1>1, <1>2, <2>2, <2>3 DEF CopyAt
<1> QED BY <1>1, <1>7, <1>8 DEF RecordedInv

\* Grading what has not been recorded.
LEMMA GradingRecords ==
  ASSUME RecordedInv, policy' = policy, Steady, ~row.data.graded,
         NEW new, new.attempt = row.attempt, NowGraded(new)
  PROVE  VersionsInOrder' /\ Steady' /\ row'.kept = PolicyScore'
<1>1. PICK n \in Nat : Len(versions) = n
      BY RecordedParts
<1>2. n + 1 = row.attempt
      BY <1>1, RecordedParts DEF Steady
<1>3. /\ Len(versions') = n + 1 /\ versions'[n + 1].attempt = n + 1
      /\ versions'[n + 1].score = row'.score
      /\ \A v \in 1..n : versions'[v] = versions[v]
      BY <1>1, <1>2 DEF NowGraded
<1>4. \A v \in 1..n : versions[v].attempt = v
      BY <1>1, RecordedParts DEF VersionsInOrder
<1>5. VersionsInOrder'
  <2>1. \A v \in 1..(n + 1) : v \in 1..n \/ v = n + 1
        BY <1>1
  <2> QED BY <1>3, <1>4, <2>1 DEF VersionsInOrder
<1>6. /\ row'.data.graded /\ row'.state = "complete" /\ row'.attempt = n + 1
      /\ row'.score # None /\ row'.kept = PolicyScore'
      BY <1>2 DEF NowGraded, Array, Points, None
<1> QED BY <1>3, <1>5, <1>6 DEF Steady

\* Saving what the row holds.
LEMMA SteadySave ==
  ASSUME RecordedInv, policy' = policy, Steady,
         NEW new, new.attempt = row.attempt, new.state = row.state,
         new.score = row.score, new.data.graded = row.data.graded,
         new.state = "untaken" => new.kept = PolicyScore,
         new.state = "complete" /\ ~new.data.graded => NowGraded(new),
         new.state = "complete" /\ new.data.graded => NowKept(new),
         new.state = "untaken" => NowOpen(new)
  PROVE  /\ VersionsInOrder' /\ Steady' /\ row'.kept = PolicyScore'
         /\ row'.state = "untaken" => ~row'.data.graded
<1>1. new.state \in States /\ row.score \in Scores
      BY RecordedParts
<1>2. CASE new.state = "complete" /\ ~new.data.graded
  <2>1. VersionsInOrder' /\ Steady' /\ row'.kept = PolicyScore'
        BY <1>2, GradingRecords
  <2> QED BY <1>2, <2>1 DEF NowGraded
<1>3. CASE new.state = "complete" /\ new.data.graded
  <2>1. /\ versions' = versions /\ row'.state = row.state /\ row'.attempt = row.attempt
        /\ row'.data = new.data /\ row'.score = row.score
        /\ row'.kept = ScoreToKeep(row.score)
        BY <1>3 DEF NowKept
  <2>2. Len(versions) >= 1 /\ row.score = versions[Len(versions)].score
        BY <1>3, RecordedParts DEF Steady
  <2>3. versions # <<>>
    <3>1. Len(<<>>) = 0
          OBVIOUS
    <3> QED BY <2>2, <3>1
  <2>4. ScoreToKeep(row.score) = PolicyScore
        BY <1>1, <2>2, <2>3, RecordedParts, ScoreKept
  <2>5. Steady'
        BY <1>3, <2>1 DEF Steady
  <2> QED BY <1>3, <2>1, <2>4, <2>5, SamePolicy, RecordedParts
<1>4. CASE new.state = "untaken"
  <2>1. /\ versions' = versions /\ row'.state = row.state /\ row'.attempt = row.attempt
        /\ row'.data = new.data /\ row'.score = row.score /\ row'.kept = PolicyScore
        BY <1>4 DEF NowOpen, Same
  <2>2. ~row.data.graded
        BY <1>4 DEF Steady
  <2>3. Steady'
        BY <2>1, <2>2 DEF Steady
  <2> QED BY <2>1, <2>2, <2>3, SamePolicy, RecordedParts
<1> QED BY <1>1, <1>2, <1>3, <1>4 DEF States

\* RecordedInv after a step of a request.
LEMMA RequestRecorded ==
  ASSUME RecordedInv, harm' = {}, NEW q \in req, Proceed(q) \/ Kill(q)
  PROVE  RecordedInv'
<1>1. Base /\ VersionsInOrder /\ "lost" \notin harm'
      BY DEF RecordedInv
<1> DEFINE Lone == \A other \in req \ {q} : ~Midway(other)
<1>2. q \in fresh /\ Lone =>
        /\ RowAt(q.step) /\ KeptAt(q.step) /\ CopyAt(q) /\ CopyFits(q) /\ KindOf(q)
        /\ q.copy \in Rows /\ q.copy.state \in States
      BY RecordedAt
<1>3. CASE BackupSubmissionData(q)
  <2>1. \A r \in req : Midway(r) => r \in req'
        BY <1>1, <1>3, BackupSubmissionDataDoes
  <2> QED BY <1>1, <1>3, <2>1, BackupSubmissionDataDoes, QuietRecorded DEF BackedUp
<1>4. CASE MarkCompleted(q)
  <2>0. Lone
        BY <1>4, WritesAlone DEF MarkCompleted, Goes
  <2>1. /\ Base' /\ UNCHANGED <<policy, versions>> /\ q \in fresh /\ q.step = "mark"
        /\ row.state = "untaken" /\ row'.attempt = row.attempt /\ row'.data = row.data
        /\ row'.score = row.score /\ row'.kept = row.kept
        BY <1>1, <1>4, MarkCompletedDoes
  <2>2. PICK n : Moved(q, n) /\ n.step = "grade" /\ n.copy = q.copy
        BY <1>1, <1>4, MarkCompletedDoes
  <2>3. Steady /\ row.kept = PolicyScore /\ q.copy.data.graded = row.data.graded
        BY <1>2, <2>0, <2>1 DEF RowAt, KeptAt, CopyAt
  <2>4. Steady' /\ ~row.data.graded
        BY <2>1, <2>3 DEF Steady
  <2>5. VersionsInOrder' /\ row'.kept = PolicyScore'
        BY <1>1, <2>1, <2>3, SamePolicy
  <2>6. AtStep(n)'
        BY <2>1, <2>2, <2>3, <2>4, <2>5 DEF AtStep, RowAt, KeptAt, CopyAt
  <2> QED BY <2>0, <2>1, <2>2, <2>5, <2>6, MovedRecorded
<1>5. CASE GradeSubmission(q)
  <2>1. PICK o : o = Object(q)
        OBVIOUS
  <2>2. /\ Base' /\ policy' = policy /\ q.step = "grade"
        /\ \/ o.data.graded /\ Quiet /\ req' = req \ {q} /\ UNCHANGED <<row, versions>>
           \/ /\ q \in fresh /\ Left(q) /\ NowGraded(o) /\ o.attempt = row.attempt
              /\ ~o.data.graded
        BY <1>1, <1>5, <2>1, GradeSubmissionDoes
  <2>3. CASE o.data.graded /\ Quiet /\ req' = req \ {q} /\ UNCHANGED <<row, versions>>
    <3>1. \A r \in req : Midway(r) => r \in req'
          BY <2>2, <2>3 DEF Midway
    <3> QED BY <2>2, <2>3, <3>1, QuietRecorded
  <2>4. CASE /\ q \in fresh /\ Left(q) /\ NowGraded(o) /\ o.attempt = row.attempt
             /\ ~o.data.graded
    <3>1. Lone
          BY <1>5, <2>1, <2>4, WritesAlone DEF GradeSubmission, Ends
    <3>2. Steady /\ ~q.copy.data.graded /\ q.copy.data.graded = row.data.graded
          BY <1>2, <2>2, <2>4, <3>1 DEF RowAt, CopyAt
    <3>3. VersionsInOrder' /\ Steady' /\ row'.kept = PolicyScore'
          BY <2>2, <2>4, <3>2, GradingRecords
    <3> QED BY <2>2, <2>4, <3>1, <3>3, LeftRecorded
  <2> QED BY <2>2, <2>3, <2>4
<1>6. CASE FindOrCreate(q)
  <2>0. Lone
        BY <1>6, WritesAlone DEF FindOrCreate, Goes
  <2>1. /\ Base' /\ policy' = policy /\ q \in fresh /\ q.step = "save"
        /\ q.kind \in {"start", "extend"}
        /\ q.copy.state = "complete" /\ ~q.copy.data.graded => NowGraded(q.copy)
        /\ q.copy.state = "complete" /\ q.copy.data.graded => NowKept(q.copy)
        /\ q.copy.state = "untaken" => NowOpen(q.copy)
        BY <1>1, <1>6, FindOrCreateDoes
  <2>2. PICK n : Moved(q, n) /\ Same(n.copy, row') /\ n.step \in {"retake", "settings"}
        BY <1>1, <1>6, FindOrCreateDoes
  <2>3. /\ q.copy.attempt = row.attempt /\ q.copy.state = row.state
        /\ q.copy.score = row.score /\ q.copy.kept = row.kept
        BY <1>2, <2>0, <2>1 DEF CopyFits
  <2>4. Steady /\ row.kept = PolicyScore /\ q.copy.data.graded = row.data.graded
        BY <1>2, <2>0, <2>1 DEF RowAt, KeptAt, CopyAt
  <2>5. VersionsInOrder' /\ Steady' /\ row'.kept = PolicyScore'
        BY <2>1, <2>3, <2>4, SteadySave
  <2>6. AtStep(n)'
        BY <2>2, <2>5 DEF AtStep, RowAt, KeptAt, CopyAt, Same
  <2> QED BY <2>0, <2>1, <2>2, <2>5, <2>6, MovedRecorded
<1>7. CASE Retake(q)
  <2>0. Lone
        BY <1>7, WritesAlone DEF Retake, Goes
  <2>1. /\ Base' /\ UNCHANGED <<policy, versions>> /\ q \in fresh
        /\ q.kind = "start" /\ q.step = "retake"
        /\ row'.state = "untaken" /\ row'.attempt = q.copy.attempt
        /\ row'.score = q.copy.score /\ row'.kept = q.copy.kept
        BY <1>1, <1>7, RetakeDoes
  <2>2. PICK n : Moved(q, n) /\ n.step = "attempt"
        BY <1>1, <1>7, RetakeDoes
  <2>3. /\ q.copy.attempt = row.attempt /\ q.copy.score = row.score
        /\ q.copy.kept = row.kept /\ q.copy.data.graded
        BY <1>2, <2>0, <2>1 DEF CopyFits
  <2>4. Steady /\ row.kept = PolicyScore /\ row.data.graded
        BY <1>2, <2>0, <2>1, <2>3 DEF RowAt, KeptAt, CopyAt
  <2>5. Opening'
        BY <2>1, <2>3, <2>4 DEF Steady, Opening
  <2>6. VersionsInOrder' /\ row'.kept = PolicyScore'
        BY <1>1, <2>1, <2>3, <2>4, SamePolicy
  <2>7. AtStep(n)'
        BY <2>2, <2>5, <2>6 DEF AtStep, RowAt, KeptAt, CopyAt
  <2> QED BY <2>0, <2>1, <2>2, <2>6, <2>7, MovedRecorded
<1>8. CASE Generate(q)
  <2>0. Lone
        BY <1>8, WritesAlone DEF Generate, Ends
  <2>1. /\ Base' /\ UNCHANGED <<policy, versions>> /\ Left(q) /\ q \in fresh
        /\ q.step = "attempt" /\ row'.attempt = row.attempt + 1
        /\ ~row'.data.graded /\ row'.score = None /\ row'.kept = row.kept
        BY <1>1, <1>8, GenerateDoes
  <2>2. Opening /\ row.kept = PolicyScore
        BY <1>2, <2>0, <2>1 DEF RowAt, KeptAt
  <2>3. Steady'
        BY <2>1, <2>2, RecordedParts DEF Steady, Opening
  <2> QED BY <2>0, <1>1, <2>1, <2>2, <2>3, SamePolicy, LeftRecorded
<1>9. CASE SaveSettings(q)
  <2>0. Lone
        BY <1>9, WritesAlone DEF SaveSettings, Ends
  <2>1. /\ Base' /\ policy' = policy /\ Left(q) /\ q \in fresh
        /\ q.kind = "extend" /\ q.step = "settings"
        BY <1>1, <1>9, SaveSettingsDoes
  <2>2. PICK new : /\ Same(new, q.copy)
                   /\ new.state = "complete" /\ ~new.data.graded => NowGraded(new)
                   /\ new.state = "complete" /\ new.data.graded => NowKept(new)
                   /\ new.state = "untaken" => NowOpen(new)
        BY <1>1, <1>9, SaveSettingsDoes
  <2>3. /\ q.copy.attempt = row.attempt /\ q.copy.state = row.state
        /\ q.copy.score = row.score /\ q.copy.kept = row.kept
        BY <1>2, <2>0, <2>1 DEF CopyFits
  <2>4. Steady /\ row.kept = PolicyScore /\ q.copy.data.graded = row.data.graded
        BY <1>2, <2>0, <2>1 DEF RowAt, KeptAt, CopyAt
  <2>5. /\ new.attempt = row.attempt /\ new.state = row.state /\ new.score = row.score
        /\ new.kept = row.kept /\ new.data.graded = row.data.graded
        BY <2>2, <2>3, <2>4 DEF Same
  <2>6. VersionsInOrder' /\ Steady' /\ row'.kept = PolicyScore'
        BY <2>1, <2>2, <2>4, <2>5, SteadySave
  <2> QED BY <2>0, <2>1, <2>6, LeftRecorded
<1>10. CASE UpdateVersion(q)
  <2>0. Lone
        BY <1>10, WritesAlone DEF UpdateVersion, Goes
  <2>1. /\ Base' /\ UNCHANGED <<policy, row>> /\ q \in fresh
        /\ q.kind = "update" /\ q.step = "version"
        /\ Len(versions') = Len(versions) /\ q.version \in 1..Len(versions)
        /\ \A v \in 1..Len(versions) : versions'[v].attempt = versions[v].attempt
        /\ versions'[q.version].score = q.points
        /\ versions' = [versions EXCEPT ![q.version].score = q.points]
        BY <1>1, <1>10, UpdateVersionDoes DEF UpdateVersion
  <2>2. PICK n : /\ Moved(q, n) /\ n.copy = q.copy
                 /\ n.step = IF /\ versions[q.version].attempt = q.copy.attempt
                                /\ q.copy.state = "complete"
                             THEN "scores" ELSE "reload"
        BY <1>1, <1>10, UpdateVersionDoes
  <2>3. VersionsInOrder'
        BY <1>1, <2>1 DEF VersionsInOrder
  <2>4. /\ Steady /\ q.copy.data.graded = row.data.graded
        /\ q.copy.attempt = row.attempt /\ q.copy.state = row.state
        BY <1>2, <2>0, <2>1 DEF RowAt, CopyAt, CopyFits
  <2>5. versions[q.version].attempt = q.version
        BY <1>1, <2>1 DEF VersionsInOrder
  <2>6. row.attempt \in Nat /\ Len(versions) \in Nat
        BY RecordedParts
  <2>7. CASE n.step = "scores"
    <3>1. q.version = row.attempt /\ row.state = "complete"
          BY <2>2, <2>4, <2>5, <2>7
    <3>2. Rescored'
          BY <2>1, <2>4, <2>6, <3>1 DEF Rescored, Steady
    <3>3. n.version = q.version /\ n.points = q.points
          BY <2>2 DEF Moved
    <3>4. AtStep(n)'
          BY <2>1, <2>2, <2>4, <2>7, <3>2, <3>3 DEF AtStep, RowAt, KeptAt, CopyAt
    <3> QED BY <2>0, <2>1, <2>2, <2>3, <3>4, MovedRecorded
  <2>8. CASE n.step = "reload"
    <3>1. row.data.graded => q.version # Len(versions)
          BY <2>2, <2>4, <2>5, <2>8 DEF Steady
    <3>2. row.data.graded => versions'[Len(versions)] = versions[Len(versions)]
      <4>1. row.data.graded => Len(versions) \in 1..Len(versions)
            BY <2>4, <2>6, RecordedParts DEF Steady
      <4>2. versions \in Seq(Version)
            BY RecordedParts
      <4>3. \A v \in 1..Len(versions) : v # q.version => versions'[v] = versions[v]
            BY <2>1, <4>2
      <4> QED BY <3>1, <4>1, <4>3
    <3>3. Steady'
          BY <2>1, <2>4, <3>2 DEF Steady
    <3>4. AtStep(n)'
          BY <2>1, <2>2, <2>4, <2>8, <3>3 DEF AtStep, RowAt, KeptAt, CopyAt
    <3> QED BY <2>0, <2>1, <2>2, <2>3, <3>4, MovedRecorded
  <2> QED BY <2>2, <2>7, <2>8
<1>11. CASE SaveScores(q)
  <2>0. Lone
        BY <1>11, WritesAlone DEF SaveScores, Ends
  <2>1. /\ Base' /\ UNCHANGED <<policy, versions>> /\ Left(q) /\ q \in fresh
        /\ q.kind = "update" /\ q.step = "scores"
        /\ row'.state = "complete" /\ row'.attempt = row.attempt /\ row'.data = Array
        /\ row'.score = q.points /\ row'.kept = ScoreToKeep(q.points)
        BY <1>1, <1>11, SaveScoresDoes
  <2>2. /\ Rescored /\ versions[q.version].score = q.points
        /\ versions[q.version].attempt = row.attempt
        BY <1>2, <2>0, <2>1 DEF RowAt, CopyAt, CopyFits
  <2>3. q.version \in 1..Len(versions)
        BY <1>1, <2>1, AtHand
  <2>4. q.version = Len(versions)
        BY <1>1, <2>2, <2>3 DEF VersionsInOrder, Rescored
  <2>5. q.points \in Points
        BY <1>1, <2>1, AtHand
  <2>6. Steady'
        BY <2>1, <2>2, <2>4, <2>5 DEF Steady, Rescored, Array, Points, None
  <2>7. ScoreToKeep(q.points) = PolicyScore
    <3>1. versions # <<>>
      <4>1. Len(<<>>) = 0 /\ Len(versions) \in Nat
            BY RecordedParts
      <4> QED BY <2>3, <4>1
    <3> QED BY <2>2, <2>4, <2>5, <3>1, RecordedParts, ScoreKept DEF Scores
  <2> QED BY <2>0, <1>1, <2>1, <2>6, <2>7, SamePolicy, LeftRecorded
<1>12. CASE Reload(q)
  <2>1. Base' /\ UNCHANGED <<policy, row, versions>> /\ q.step = "reload"
        BY <1>1, <1>12, ReloadDoes
  <2>2. PICK n : /\ req' = (req \ {q}) \cup {n} /\ fresh' = (fresh \ {q}) \cup {n}
                 /\ n.step = "kept" /\ n.copy = row
        BY <1>1, <1>12, ReloadDoes
  <2>3. q \in fresh /\ AtStep(q) /\ Lone
        BY <2>1 DEF RecordedInv, Midway
  <2>4. Steady' /\ VersionsInOrder'
        BY <1>1, <2>1, <2>3 DEF AtStep, RowAt, Steady, VersionsInOrder
  <2>5. AtStep(n)'
        BY <2>1, <2>2, <2>4 DEF AtStep, RowAt, KeptAt, CopyAt
  <2>6. Midway(n) /\ ~Settled'
        BY <2>2 DEF Midway, Settled
  <2> QED BY <2>1, <2>2, <2>3, <2>4, <2>5, <2>6 DEF RecordedInv
<1>13. CASE SaveKept(q)
  <2>0. Lone
        BY <1>13, WritesAlone DEF SaveKept, Ends
  <2>1. /\ Base' /\ policy' = policy /\ Left(q) /\ q \in fresh
        /\ q.kind = "update" /\ q.step = "kept"
        BY <1>1, <1>13, SaveKeptDoes
  <2>2. PICK new : /\ new.state = q.copy.state /\ new.attempt = q.copy.attempt
                   /\ new.data = q.copy.data /\ new.score = q.copy.score
                   /\ new.kept = ScoreToKeep(q.copy.score)
                   /\ new.state = "complete" /\ ~new.data.graded => NowGraded(new)
                   /\ new.state = "complete" /\ new.data.graded => NowKept(new)
                   /\ new.state = "untaken" => NowOpen(new)
        BY <1>1, <1>13, SaveKeptDoes
  <2>3. /\ q.copy.attempt = row.attempt /\ q.copy.state = row.state
        /\ q.copy.score = row.score
        BY <1>2, <2>0, <2>1 DEF CopyFits
  <2>4. Steady /\ q.copy.data.graded = row.data.graded
        BY <1>2, <2>0, <2>1 DEF RowAt, CopyAt
  <2>5. new.state = "untaken" => new.kept = PolicyScore
    <3>1. new.state = "untaken" => q.copy.score = None
          BY <2>2, <2>3, <2>4 DEF Steady
    <3> QED BY <2>2, <3>1, RecordedParts, ScoreKept DEF Scores
  <2>6. VersionsInOrder' /\ Steady' /\ row'.kept = PolicyScore'
        BY <2>1, <2>2, <2>3, <2>4, <2>5, SteadySave
  <2> QED BY <2>0, <2>1, <2>6, LeftRecorded
<1>14. CASE Kill(q)
  <2>1. \A r \in req : Midway(r) => r \in req'
        BY <1>1, <1>14, KillDoes
  <2> QED BY <1>1, <1>14, <2>1, KillDoes, QuietRecorded
<1> QED BY <1>3, <1>4, <1>5, <1>6, <1>7, <1>8, <1>9, <1>10, <1>11, <1>12, <1>13, <1>14
        DEF Proceed

\* RecordedInv is kept by every step that harms nobody.
LEMMA StepRecorded ==
  ASSUME RecordedInv, [Next]_vars, harm' = {}
  PROVE  RecordedInv'
<1>1. Base /\ VersionsInOrder
      BY DEF RecordedInv
<1>2. CASE UNCHANGED vars
  <2>1. Base' /\ UNCHANGED <<policy, row, versions, req, fresh, harm>>
        BY <1>1, <1>2, StepBase DEF vars
  <2>2. Quiet /\ \A r \in req : Midway(r) => r \in req'
        BY <1>1, <2>1 DEF Quiet, Base, TypeOK, Harms
  <2> QED BY <2>1, <2>2, QuietRecorded
<1>3. CASE Entry
  <2>1. Base' /\ UNCHANGED <<policy, row, versions>>
        BY <1>1, <1>3, EntryDoes
  <2>2. PICK n : /\ Came(n) /\ n.copy = row
                 /\ n.step \in {"mark", "grade", "save", "version"}
                 /\ n.step = "grade" => row.state = "untaken" \/ ~row.data.graded
        BY <1>1, <1>3, EntryDoes
  <2>3. Settled => CopyAt(n)
    <3>1. Settled => Steady
          BY DEF RecordedInv
    <3> QED BY <2>2, <3>1 DEF CopyAt, Steady
  <2>4. ~Midway(n)
        BY <2>2 DEF Midway
  <2> QED BY <2>1, <2>2, <2>3, <2>4, CameRecorded
<1>4. CASE \E points \in Points : Backup(points)
  <2>1. Quiet /\ req \subseteq req' /\ Base' /\ UNCHANGED <<policy, row, versions>>
        BY <1>1, <1>4, BackupDoes
  <2> QED BY <2>1, QuietRecorded
<1>5. CASE \E q \in req : Proceed(q) \/ Kill(q)
      BY <1>5, RequestRecorded
<1>6. CASE TimePasses
      BY <1>1, <1>6, TimePassesDoes, QuietRecorded
<1> QED BY <1>2, <1>3, <1>4, <1>5, <1>6 DEF Next, Student, Entry

\* Unless an update was lost or a request torn, the row is as the request that is
\* midway expects it, and between the requests the newest version is the row's
\* grade and the kept score is the policy's (quiz_submission.rb:271-480).
THEOREM RecordedHolds == Spec => []((harm = {}) => RecordedInv)
<1> DEFINE Inv == (harm = {}) => RecordedInv
<1>1. Init => Inv
  <2> SUFFICES ASSUME Init PROVE RecordedInv
      OBVIOUS
  <2>1. Base
        BY InitBase
  <2>2. row = Fresh(1, None) /\ versions = <<>> /\ req = {} /\ fresh = {}
        BY DEF Init
  <2>3. row.attempt = 1 /\ ~row.data.graded /\ row.score = None /\ row.kept = None
        BY <2>2 DEF Fresh
  <2>4. Steady /\ row.kept = PolicyScore /\ VersionsInOrder
        BY <2>2, <2>3 DEF Steady, PolicyScore, VersionsInOrder
  <2> QED BY <2>1, <2>2, <2>4 DEF RecordedInv
<1>2. Inv /\ [Next]_vars => Inv'
      BY StepRecorded, HarmStays
<1> QED BY <1>1, <1>2, PTL DEF Spec

\* Without a teacher's update the kept score is current, and a completed row steady.
LEMMA SteadyUnlessUpdate ==
  ASSUME RecordedInv, \A q \in req : q.kind # "update"
  PROVE  /\ row.kept = PolicyScore
         /\ row.state = "complete" => Steady
<1>1. CASE Settled
      BY <1>1 DEF RecordedInv
<1>2. CASE ~Settled
  <2>1. PICK q \in req : Midway(q)
        BY <1>2 DEF Settled
  <2>2. RowAt(q.step) /\ KeptAt(q.step) /\ KindOf(q)
        BY <2>1 DEF RecordedInv, AtStep, Base, KindsKnown
  <2>3. q.step = "attempt"
        BY <2>1, <2>2 DEF KindOf, Midway
  <2> QED BY <2>2, <2>3 DEF RowAt, KeptAt, Opening
<1> QED BY <1>1, <1>2

\* A row that shows a grade shows the one its newest version records, whatever
\* overlaps and is killed, unless an update was lost or a request torn
\* (quiz_submission.rb:271, 480).
THEOREM ShownGradeIsRecorded == Spec => []ShownIsRecorded
<1>1. ((harm = {}) => RecordedInv) => ShownIsRecorded
  <2> SUFFICES ASSUME RecordedInv, row.state = "complete", \A q \in req : q.kind # "update"
               PROVE  LET v == Len(versions)
                      IN \/ ~row.data.graded
                            /\ \A u \in DOMAIN versions : versions[u].attempt # row.attempt
                         \/ v > 0 /\ versions[v] = [attempt |-> row.attempt, score |-> row.score]
      BY DEF ShownIsRecorded
  <2>1. Steady /\ VersionsInOrder /\ versions \in Seq(Version)
        BY SteadyUnlessUpdate, RecordedParts
  <2>2. PICK n \in Nat : Len(versions) = n /\ DOMAIN versions = 1..n
        BY <2>1
  <2>3. row.attempt \in Nat /\ row.attempt >= 1
        BY RecordedParts
  <2>4. CASE row.data.graded
    <3>1. /\ n = row.attempt /\ row.score = versions[n].score /\ n \in 1..n
          /\ versions[n].attempt = n
          BY <2>1, <2>2, <2>3, <2>4 DEF Steady, VersionsInOrder
    <3>2. versions[n] \in Version
          BY <2>1, <2>2, <3>1
    <3>3. versions[n] = [attempt |-> versions[n].attempt, score |-> versions[n].score]
          BY <3>2 DEF Version
    <3> QED BY <2>2, <2>3, <3>1, <3>3
  <2>5. CASE ~row.data.graded
    <3>1. n = row.attempt - 1 /\ \A u \in 1..n : versions[u].attempt = u
          BY <2>1, <2>2, <2>5 DEF Steady, VersionsInOrder
    <3>2. \A u \in DOMAIN versions : versions[u].attempt # row.attempt
          BY <2>2, <2>3, <3>1
    <3> QED BY <2>5, <3>2
  <2> QED BY <2>4, <2>5
<1> QED BY <1>1, RecordedHolds, PTL

\* Between the requests of teachers the kept score is the one the policy picks
\* from the versions, unless an update was lost or a request torn
\* (quiz_submission.rb:308-330).
THEOREM KeptScoreIsCurrent == Spec => []KeptIsPolicy
<1>1. ((harm = {}) => RecordedInv) => KeptIsPolicy
      BY SteadyUnlessUpdate DEF KeptIsPolicy, PolicyScore, Recorded
<1> QED BY <1>1, RecordedHolds, PTL

\* No attempt is graded twice, unless an update was lost or a request torn
\* (quiz_submission.rb:454-456).
THEOREM AttemptsGradedOnce == Spec => []GradedOnce
<1>1. ((harm = {}) => RecordedInv) => GradedOnce
  <2> SUFFICES ASSUME RecordedInv, NEW u \in DOMAIN versions, NEW v \in DOMAIN versions,
                      versions[u].attempt = versions[v].attempt
               PROVE  u = v
      BY DEF GradedOnce
  <2>1. u \in 1..Len(versions) /\ v \in 1..Len(versions)
        BY RecordedParts
  <2> QED BY <2>1, RecordedParts DEF VersionsInOrder
<1> QED BY <1>1, RecordedHolds, PTL
=============================================================================
