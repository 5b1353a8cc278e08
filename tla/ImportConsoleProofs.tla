------------------------- MODULE ImportConsoleProofs -------------------------
(***************************************************************************)
(* Theorems about the two parts of the import console in the browser, the  *)
(* upload queue (UploadQueue) and the session page (ImportConsole).  They  *)
(* share no state, and neither proof uses the other.                       *)
(*                                                                         *)
(* The queue, for any finite folder, any concurrency and any number of     *)
(* runs and retries.  RowsInv and PumpInv are inductive whatever starts    *)
(* when.  RowsInv types the queue.  By PumpInv the PUTs of the current run *)
(* each have a file of their own, the counter of the pump never passes the *)
(* limit, and it is the number of PUTs in flight but for those that its    *)
(* last reset forgot.  ApartInv says that a reset forgets none; it holds   *)
(* if a run starts only when the one before it has ended altogether.       *)
(*                                                                         *)
(* The page, for any number of revisions, reads, failures and keystrokes.  *)
(* ConsoleInv is inductive.  Beside types it says that whatever is shown,  *)
(* read or submitted is something the server has had, and that unsaved     *)
(* work without a stale mark hides nothing of another operator (MarksHold) *)
(* - not even once a group mutation under way clears the mark              *)
(* (MutationHolds), until a session older than that mutation is shown.     *)
(***************************************************************************)
EXTENDS UploadQueue, ImportConsole, FiniteSetTheorems, TLAPS

-----------------------------------------------------------------------------
(* The upload queue.                                                       *)

Row == [status : Statuses, known : BOOLEAN]

\* Runs are numbered up to run, and before the first one there are no rows.
RowsInv ==
  /\ QueueTypeOK
  /\ registering \subseteq 1..run
  /\ \A s \in sends : s.run <= run
  /\ IsFiniteSet(sends)
  /\ run = 0 => FilesWith(files, "NONE") = File

\* The PUTs of a run among those given.
PutsOf(puts, r) == {s \in puts : s.run = r}

\* The current run has at most one PUT in flight for a file.
OnePutEach ==
  \A s, t \in PutsOf(sends, run) : s.file = t.file => s = t

PumpInv ==
  /\ OnePutEach
  /\ ActiveCountsSends
  /\ active <= Concurrency
  /\ CompleteIsSettled

\* While its registration is unanswered a run has sent nothing.
RegisterFirst ==
  /\ registering \subseteq {run}
  /\ run \in registering => sends = {}
  /\ RowsWaitForRegistration

\* No PUT of an earlier run is in flight, and outside a running phase only
\* aborted ones are.
ApartInv ==
  /\ RunsDoNotOverlap
  /\ \A s \in sends : s.run = run
  /\ phase \notin RunningPhases => \A s \in sends : s.aborted
  /\ ~cancelled => \A s \in sends : ~s.aborted
  /\ RegisterFirst

-----------------------------------------------------------------------------
(* Counting *)

\* The image of a finite set under a function is finite; under one that is
\* injective it has as many elements.
LEMMA ImageCount ==
  ASSUME NEW S, IsFiniteSet(S), NEW f, f = [x \in S |-> f[x]],
         NEW T, T = {f[x] : x \in S}
  PROVE  /\ IsFiniteSet(T)
         /\ (\A x, y \in S : f[x] = f[y] => x = y) => Cardinality(T) = Cardinality(S)
  <1>1. f \in [S -> T] /\ \A t \in T : \E x \in S : f[x] = t
    OBVIOUS
  <1>2. f \in Surjection(S, T)
    BY <1>1 DEF Surjection
  <1>3. (\A x, y \in S : f[x] = f[y] => x = y) => f \in Injection(S, T)
    BY <1>1 DEF Injection, IsInjective
  <1> QED
    BY <1>2, <1>3, FS_Surjection

\* The PUTs of the current run for the files that the pump picks.
NewSends(fs) == {[run |-> run', file |-> f, aborted |-> FALSE] : f \in fs}

\* The pump launches as many PUTs as it picks files.
LEMMA NewSendsCount ==
  ASSUME NEW fs, IsFiniteSet(fs)
  PROVE  IsFiniteSet(NewSends(fs)) /\ Cardinality(NewSends(fs)) = Cardinality(fs)
  <1> DEFINE g == [f \in fs |-> [run |-> run', file |-> f, aborted |-> FALSE]]
  <1>1. g = [f \in fs |-> g[f]] /\ NewSends(fs) = {g[f] : f \in fs}
    BY DEF NewSends
  <1>2. \A x, y \in fs : g[x] = g[y] => x = y
    OBVIOUS
  <1> HIDE DEF g
  <1> QED
    BY <1>1, <1>2, ImageCount

-----------------------------------------------------------------------------
(* The pump *)

\* Giving some files a status leaves the other rows alone.
LEMMA WithStatusEffect ==
  ASSUME NEW rows \in [File -> Row], NEW fs \in SUBSET File, NEW status \in Statuses
  PROVE  /\ WithStatus(rows, fs, status) \in [File -> Row]
         /\ \A f \in fs : WithStatus(rows, fs, status)[f].status = status
         /\ \A f \in fs : WithStatus(rows, fs, status)[f].known = rows[f].known
         /\ \A f \in File \ fs : WithStatus(rows, fs, status)[f] = rows[f]
  <1> DEFINE Marked(r) == [r EXCEPT !.status = status]
  <1>1. \A r \in Row : Marked(r) \in Row /\ Marked(r).status = status /\ Marked(r).known = r.known
    BY DEF Row
  <1>2. WithStatus(rows, fs, status) = [f \in File |-> IF f \in fs THEN Marked(rows[f]) ELSE rows[f]]
    BY DEF WithStatus
  <1> HIDE DEF Marked
  <1> QED
    BY <1>1, <1>2

\* A pump that launched the files fs.
Pumped(rows, puts, count, current, fs) ==
  /\ IsFiniteSet(fs) /\ Cardinality(fs) \in Nat
  /\ Cardinality(fs) <= Room(count)
  /\ files' \in [File -> Row]
  /\ FilesWith(files', "UPLOADING") = FilesWith(rows, "UPLOADING") \cup fs
  /\ FilesWith(files', "NONE") = FilesWith(rows, "NONE")
  /\ FilesWith(files', "QUEUED") \subseteq FilesWith(rows, "QUEUED")
  /\ sends' = puts \cup NewSends(fs)
  /\ active' = count + Cardinality(fs)
  /\ idle' \in BOOLEAN
  /\ phase' \in {"COMPLETE", current}
  /\ phase' = "COMPLETE" /\ current # "COMPLETE" =>
       active' = 0 /\ FilesWith(files', "QUEUED") = {}

\* The pump launches queued rows, as many as there is room for at most, and
\* completes a run only when nothing is left of it.
LEMMA PumpEffect ==
  ASSUME NEW rows \in [File -> Row], NEW puts, NEW count \in Int, NEW current,
         NEW waiting \in BOOLEAN, Pump(rows, puts, count, current, waiting)
  PROVE  \E fs \in SUBSET FilesWith(rows, "QUEUED") : Pumped(rows, puts, count, current, fs)
  <1> DEFINE queued == FilesWith(rows, "QUEUED")
             ready == {f \in queued : rows[f].known}
             lost == IF Room(count) = 0 THEN {} ELSE queued \ ready
  <1>1. PICK fs \in SUBSET ready :
          /\ Cardinality(fs) = Least(Room(count), Cardinality(ready))
          /\ files' = WithStatus(WithStatus(rows, fs, "UPLOADING"), lost, "FAILED")
          /\ sends' = puts \cup {[run |-> run', file |-> f, aborted |-> FALSE] : f \in fs}
          /\ active' = count + Cardinality(fs)
          /\ idle' = (waiting /\ ~WentIdle(files', active'))
          /\ phase' = IF waiting /\ WentIdle(files', active') THEN "COMPLETE" ELSE current
    BY DEF Pump
  <1>2. ready \subseteq File /\ queued \subseteq File /\ lost \subseteq queued \ ready
    BY DEF FilesWith
  <1>3. /\ IsFiniteSet(ready) /\ Cardinality(ready) \in Nat
        /\ IsFiniteSet(fs) /\ Cardinality(fs) \in Nat
    BY <1>2, FS_Subset, FS_CardinalityType, QueueAssumption
  <1>4. Room(count) \in Nat
    BY QueueAssumption DEF Room
  <1>5. Cardinality(fs) <= Room(count)
    BY <1>1, <1>3, <1>4 DEF Least
  <1> DEFINE mid == WithStatus(rows, fs, "UPLOADING")
  <1>6. /\ mid \in [File -> Row]
        /\ \A f \in fs : mid[f].status = "UPLOADING"
        /\ \A f \in File \ fs : mid[f] = rows[f]
    BY <1>2, WithStatusEffect DEF Statuses
  <1> HIDE DEF mid
  <1>7. /\ files' \in [File -> Row]
        /\ \A f \in lost : files'[f].status = "FAILED"
        /\ \A f \in File \ lost : files'[f] = mid[f]
    <2>1. files' = WithStatus(mid, lost, "FAILED")
      BY <1>1 DEF mid
    <2> HIDE DEF lost
    <2> QED
      BY <1>2, <1>6, <2>1, WithStatusEffect DEF Statuses
  <1>8. FilesWith(files', "UPLOADING") = FilesWith(rows, "UPLOADING") \cup fs
    BY <1>2, <1>6, <1>7 DEF FilesWith
  <1>9. /\ FilesWith(files', "NONE") = FilesWith(rows, "NONE")
        /\ FilesWith(files', "QUEUED") \subseteq FilesWith(rows, "QUEUED")
    BY <1>2, <1>6, <1>7 DEF FilesWith
  <1>10. /\ idle' \in BOOLEAN
         /\ phase' \in {"COMPLETE", current}
         /\ phase' = "COMPLETE" /\ current # "COMPLETE" =>
              active' = 0 /\ FilesWith(files', "QUEUED") = {}
    BY <1>1 DEF WentIdle
  <1> QED
    BY <1>1, <1>2, <1>3, <1>5, <1>7, <1>8, <1>9, <1>10 DEF NewSends, Pumped

-----------------------------------------------------------------------------
(* Types *)

\* What a PUT that has ended leaves of its row.
LEMMA SettledType ==
  ASSUME files \in [File -> Row], NEW s, s.file \in File, NEW answer
  PROVE  /\ Settled(s, answer) \in [File -> Row]
         /\ FilesWith(Settled(s, answer), "QUEUED") \subseteq FilesWith(files, "QUEUED")
         /\ s.run # run => Settled(s, answer) = files
         /\ ~cancelled /\ s.run = run =>
              FilesWith(Settled(s, answer), "UPLOADING") = FilesWith(files, "UPLOADING") \ {s.file}
  <1> DEFINE to == IF answer = "ARCHIVED" THEN "ARCHIVED" ELSE "FAILED"
  <1>1. to \in Statuses /\ to # "UPLOADING" /\ to # "QUEUED"
    BY DEF Statuses
  <1>2. Settled(s, answer) = IF cancelled \/ s.run # run THEN files
                             ELSE WithStatus(files, {s.file}, to)
    BY DEF Settled
  <1> HIDE DEF to
  <1>3. /\ WithStatus(files, {s.file}, to) \in [File -> Row]
        /\ WithStatus(files, {s.file}, to)[s.file].status = to
        /\ \A f \in File \ {s.file} : WithStatus(files, {s.file}, to)[f] = files[f]
    <2> DEFINE one == {s.file}
    <2>1. one \in SUBSET File /\ s.file \in one /\ \A f \in File \ {s.file} : f \in File \ one
      OBVIOUS
    <2> HIDE DEF one
    <2>2. /\ WithStatus(files, one, to) \in [File -> Row]
          /\ WithStatus(files, one, to)[s.file].status = to
          /\ \A f \in File \ {s.file} : WithStatus(files, one, to)[f] = files[f]
      BY <1>1, <2>1, WithStatusEffect
    <2> QED
      BY <2>2 DEF one
  <1> QED
    BY <1>1, <1>2, <1>3 DEF FilesWith

\* A registration's answer touches queued rows only.
LEMMA RegistrationType ==
  ASSUME files \in [File -> Row], NEW r
  PROVE  /\ Registration(r) \in [File -> Row]
         /\ FilesWith(Registration(r), "UPLOADING") = FilesWith(files, "UPLOADING")
         /\ FilesWith(Registration(r), "QUEUED") \subseteq FilesWith(files, "QUEUED")
  <1> DEFINE queued == FilesWith(files, "QUEUED")
             Known(row) == [row EXCEPT !.known = TRUE]
  <1>1. queued \in SUBSET File
    BY DEF FilesWith
  <1>2. CASE r = run
    <2>1. \A row \in Row : Known(row) \in Row /\ Known(row).status = row.status
      BY DEF Row
    <2>2. Registration(r) = [f \in File |-> IF f \in queued THEN Known(files[f]) ELSE files[f]]
      BY <1>2 DEF Registration
    <2> HIDE DEF Known
    <2>3. /\ Registration(r) \in [File -> Row]
          /\ \A f \in File : Registration(r)[f].status = files[f].status
      BY <2>1, <2>2
    <2> QED
      BY <2>3 DEF FilesWith
  <1>3. CASE r # run
    <2>1. Registration(r) = WithStatus(files, queued, "FAILED")
      BY <1>3 DEF Registration
    <2>2. /\ WithStatus(files, queued, "FAILED") \in [File -> Row]
          /\ \A f \in queued : WithStatus(files, queued, "FAILED")[f].status = "FAILED"
          /\ \A f \in File \ queued : WithStatus(files, queued, "FAILED")[f] = files[f]
      <3> HIDE DEF queued
      <3> QED
        BY <1>1, WithStatusEffect DEF Statuses
    <2> QED
      BY <2>1, <2>2 DEF FilesWith
  <1> QED
    BY <1>2, <1>3

\* Typing of a step that pumps rows, puts and count within the current run.
LEMMA PumpKeepsRows ==
  ASSUME RowsInv, NEW rows \in [File -> Row], NEW puts \in SUBSET Send, NEW count \in Int,
         NEW current, current \in RunningPhases \cup {"IDLE", "COMPLETE", "BLOCKED", "FAILED", "CANCELLED"},
         NEW waiting \in BOOLEAN, Pump(rows, puts, count, current, waiting),
         IsFiniteSet(puts), \A s \in puts : s.run <= run',
         run' \in 1..MaxRuns, cancelled' \in BOOLEAN, registering' \subseteq 1..run',
         server' \in [File -> {"ABSENT", "PENDING", "UPLOADING", "ARCHIVED", "FAILED"}],
         retries' \in 0..MaxRetries, uncounted' \in Nat
  PROVE  RowsInv'
  <1>fs. PICK fs \in SUBSET FilesWith(rows, "QUEUED") : Pumped(rows, puts, count, current, fs)
    BY PumpEffect
  <1>1. /\ IsFiniteSet(fs) /\ Cardinality(fs) \in Nat
        /\ files' \in [File -> Row]
        /\ sends' = puts \cup NewSends(fs)
        /\ active' = count + Cardinality(fs)
        /\ idle' \in BOOLEAN
        /\ phase' \in {"COMPLETE", current}
    BY <1>fs DEF Pumped
  <1>2. MaxRuns \in Nat
    BY QueueAssumption
  <1>3. fs \subseteq File
    BY DEF FilesWith
  <1>4. \A s \in NewSends(fs) : s \in Send /\ s.run = run'
    <2>1. ASSUME NEW f \in fs
          PROVE  [run |-> run', file |-> f, aborted |-> FALSE] \in Send
      BY <1>3 DEF Send
    <2> QED
      BY <2>1 DEF NewSends
  <1>5. sends' \subseteq Send /\ IsFiniteSet(sends') /\ \A s \in sends' : s.run <= run'
    <2>1. IsFiniteSet(NewSends(fs))
      BY <1>1, NewSendsCount
    <2>2. IsFiniteSet(sends')
      BY <1>1, <2>1, FS_Union
    <2> QED
      BY <1>1, <1>2, <1>4, <2>2
  <1>6. QueueTypeOK'
    BY <1>1, <1>2, <1>5 DEF QueueTypeOK, Row
  <1> QED
    BY <1>2, <1>5, <1>6 DEF RowsInv

\* The queue is typed whatever starts when.
LEMMA NextKeepsRows ==
  RowsInv /\ [QueueNext]_queueVars => RowsInv'
  <1> SUFFICES ASSUME RowsInv, [QueueNext]_queueVars
               PROVE  RowsInv'
    OBVIOUS
  <1>1. /\ files \in [File -> Row] /\ MaxRuns \in Nat /\ MaxRetries \in Nat
        /\ run \in 0..MaxRuns /\ sends \subseteq Send /\ active \in Int
    BY QueueAssumption DEF RowsInv, QueueTypeOK, Row
  <1>2. /\ "FAILED" \in Statuses /\ "QUEUED" \in Statuses
        /\ [status |-> "QUEUED", known |-> FALSE] \in Row
        /\ [status |-> "QUEUED", known |-> TRUE] \in Row
        /\ NoRow \in Row /\ NoRow.status = "NONE"
    BY DEF Statuses, Row, NoRow
  <1>3. ASSUME CanStart
        PROVE  /\ run + 1 \in 1..MaxRuns /\ run + 1 # 0 /\ \A s \in sends : s.run <= run + 1
               /\ Cardinality(sends) \in Nat
    BY <1>1, <1>3, FS_CardinalityType DEF CanStart, RowsInv, Send
  <1>4. CASE Start
    <2>1. run' \in 1..MaxRuns /\ \A s \in sends' : s.run <= run'
      BY <1>3, <1>4 DEF Start, ResetRun
    <2>2. files' \in [File -> Row]
      BY <1>2, <1>4 DEF Start
    <2>3. registering' \subseteq 1..run'
      BY <1>1, <1>4 DEF Start, ResetRun, RowsInv
    <2>4. /\ server' \in [File -> {"ABSENT", "PENDING", "UPLOADING", "ARCHIVED", "FAILED"}]
          /\ sends' = sends /\ active' \in Int /\ cancelled' = FALSE /\ idle' = FALSE
          /\ retries' = retries /\ phase' \in {"REGISTERING", "BLOCKED"} /\ uncounted' \in Nat
      BY <1>3, <1>4 DEF Start, ResetRun, RowsInv, QueueTypeOK
    <2>5. QueueTypeOK'
      <3>1. {cancelled', idle'} \subseteq BOOLEAN
        BY <2>4
      <3>2. run' \in 0..MaxRuns /\ registering' \subseteq 1..MaxRuns
        BY <1>1, <2>1, <2>3
      <3> QED
        BY <1>1, <2>2, <2>4, <3>1, <3>2 DEF RowsInv, QueueTypeOK, Row, RunningPhases
    <2>6. run' # 0
      BY <2>1
    <2> QED
      BY <2>1, <2>3, <2>4, <2>5, <2>6 DEF RowsInv
  <1>5. CASE Blocked
    <2>1. run' \in 1..MaxRuns /\ \A s \in sends' : s.run <= run'
      BY <1>3, <1>5 DEF Blocked, ResetRun
    <2>2. files' \in [File -> Row]
      BY <1>2, <1>5 DEF Blocked
    <2>3. registering' \subseteq 1..run'
      BY <1>1, <1>5 DEF Blocked, ResetRun, RowsInv
    <2>4. /\ server' \in [File -> {"ABSENT", "PENDING", "UPLOADING", "ARCHIVED", "FAILED"}]
          /\ sends' = sends /\ active' \in Int /\ cancelled' = FALSE /\ idle' = FALSE
          /\ retries' = retries /\ phase' \in {"REGISTERING", "BLOCKED"} /\ uncounted' \in Nat
      BY <1>3, <1>5 DEF Blocked, ResetRun, RowsInv, QueueTypeOK
    <2>5. QueueTypeOK'
      <3>1. {cancelled', idle'} \subseteq BOOLEAN
        BY <2>4
      <3>2. run' \in 0..MaxRuns /\ registering' \subseteq 1..MaxRuns
        BY <1>1, <2>1, <2>3
      <3> QED
        BY <1>1, <2>2, <2>4, <3>1, <3>2 DEF RowsInv, QueueTypeOK, Row, RunningPhases
    <2>6. run' # 0
      BY <2>1
    <2> QED
      BY <2>1, <2>3, <2>4, <2>5, <2>6 DEF RowsInv
  <1>6. ASSUME NEW fs \in SUBSET File, RetryRegistered(fs)
        PROVE  RowsInv'
    <2> DEFINE rows == [f \in File |-> IF f \in fs THEN [status |-> "QUEUED", known |-> TRUE] ELSE NoRow]
    <2>1. rows \in [File -> Row]
      BY <1>2
    <2>2. Pump(rows, sends, 0, "UPLOADING", TRUE)
      BY <1>6 DEF RetryRegistered
    <2> HIDE DEF rows
    <2>3. run' \in 1..MaxRuns /\ (\A s \in sends : s.run <= run') /\ registering' \subseteq 1..run'
      BY <1>1, <1>3, <1>6 DEF RetryRegistered, ResetRun, RowsInv
    <2>4. /\ cancelled' \in BOOLEAN /\ retries' \in 0..MaxRetries /\ IsFiniteSet(sends)
          /\ server' \in [File -> {"ABSENT", "PENDING", "UPLOADING", "ARCHIVED", "FAILED"}]
          /\ uncounted' \in Nat
      BY <1>3, <1>6 DEF RetryRegistered, ResetRun, RowsInv, QueueTypeOK
    <2>5. "UPLOADING" \in RunningPhases /\ TRUE \in BOOLEAN /\ 0 \in Int
      BY DEF RunningPhases
    <2> QED
      BY <1>1, <2>1, <2>2, <2>3, <2>4, <2>5, PumpKeepsRows
  <1>7. ASSUME NEW f \in File, Retry(f)
        PROVE  RowsInv'
    <2> DEFINE rows == WithStatus(files, {f}, "QUEUED")
    <2>1. rows \in [File -> Row]
      BY <1>1, <1>2, WithStatusEffect
    <2>2. Pump(rows, sends, active, "UPLOADING", TRUE)
      BY <1>7 DEF Retry
    <2> HIDE DEF rows
    <2>3. run # 0
      BY <1>1, <1>7 DEF Retry, RowsInv, FilesWith
    <2>4. run' \in 1..MaxRuns /\ (\A s \in sends : s.run <= run') /\ registering' \subseteq 1..run'
      BY <1>1, <1>7, <2>3 DEF Retry, RowsInv
    <2>5. retries' \in 0..MaxRetries
      BY <1>1, <1>7 DEF Retry, RowsInv, QueueTypeOK
    <2> QED
      BY <1>1, <1>7, <2>1, <2>2, <2>4, <2>5, PumpKeepsRows
         DEF Retry, RowsInv, QueueTypeOK, RunningPhases
  <1>8. CASE Cancel
    <2> DEFINE Aborted(s) == [s EXCEPT !.aborted = s.aborted \/ s.run = run]
               g == [s \in sends |-> Aborted(s)]
    <2>1. \A s \in Send : Aborted(s) \in Send /\ Aborted(s).run = s.run
      BY DEF Send
    <2>2. sends' = {Aborted(s) : s \in sends}
      BY <1>8 DEF Cancel
    <2> HIDE DEF Aborted
    <2>3. sends' \subseteq Send /\ \A s \in sends' : s.run <= run
      BY <1>1, <2>1, <2>2 DEF RowsInv
    <2>4. g = [s \in sends |-> g[s]] /\ sends' = {g[s] : s \in sends}
      BY <2>2
    <2> HIDE DEF g
    <2>5. IsFiniteSet(sends')
      BY <2>4, ImageCount DEF RowsInv
    <2>6. QueueTypeOK'
      BY <1>8, <2>3 DEF Cancel, RowsInv, QueueTypeOK
    <2> QED
      BY <1>8, <2>3, <2>5, <2>6 DEF Cancel, RowsInv
  <1>9. ASSUME NEW r \in registering, RegistrationSucceeds(r)
        PROVE  RowsInv'
    <2>1. Registration(r) \in [File -> Row]
      BY <1>1, RegistrationType
    <2>2. run \in 1..MaxRuns /\ run # 0
      BY <1>1 DEF RowsInv
    <2>3. server' \in [File -> {"ABSENT", "PENDING", "UPLOADING", "ARCHIVED", "FAILED"}]
      BY <1>9 DEF RegistrationSucceeds, RowsInv, QueueTypeOK
    <2>4. registering' \subseteq 1..run' /\ UNCHANGED <<cancelled, run, retries, uncounted>>
      BY <1>9 DEF RegistrationSucceeds, RowsInv
    <2>5. CASE cancelled
      <3>1. QueueTypeOK'
        BY <1>9, <2>1, <2>3, <2>4, <2>5 DEF RegistrationSucceeds, RowsInv, QueueTypeOK, Row
      <3> QED
        BY <1>9, <2>2, <2>4, <2>5, <3>1 DEF RegistrationSucceeds, RowsInv
    <2>6. CASE ~cancelled
      <3>1. Pump(Registration(r), sends, active, "UPLOADING", TRUE)
        BY <1>9, <2>6 DEF RegistrationSucceeds
      <3>2. run' \in 1..MaxRuns /\ cancelled' \in BOOLEAN /\ retries' \in 0..MaxRetries
            /\ uncounted' \in Nat /\ \A s \in sends : s.run <= run'
        BY <2>2, <2>4 DEF RowsInv, QueueTypeOK
      <3> QED
        BY <1>1, <2>1, <2>3, <2>4, <3>1, <3>2, PumpKeepsRows DEF RowsInv, RunningPhases
    <2> QED
      BY <2>5, <2>6
  <1>10. ASSUME NEW r \in registering, RegistrationFails(r)
         PROVE  RowsInv'
    BY <1>10 DEF RegistrationFails, RowsInv, QueueTypeOK
  <1>11. ASSUME NEW s \in sends, NEW answer, EndSend(s, answer),
                server' \in [File -> {"ABSENT", "PENDING", "UPLOADING", "ARCHIVED", "FAILED"}]
         PROVE  RowsInv'
    <2>1. s \in Send /\ s.file \in File /\ s.run \in 1..MaxRuns /\ s.run <= run
      BY <1>1 DEF Send, RowsInv
    <2>2. run \in 1..MaxRuns /\ run # 0
      BY <1>1, <2>1
    <2>3. sends \ {s} \in SUBSET Send /\ IsFiniteSet(sends \ {s}) /\ active - 1 \in Int
      BY <1>1, FS_RemoveElement DEF RowsInv
    <2>4. UNCHANGED <<cancelled, run, registering, retries, uncounted>>
      BY <1>11 DEF EndSend
    <2>5. CASE cancelled
      <3>1. QueueTypeOK'
        BY <1>11, <2>3, <2>4, <2>5 DEF EndSend, RowsInv, QueueTypeOK
      <3> QED
        BY <1>11, <2>2, <2>3, <2>4, <2>5, <3>1 DEF EndSend, RowsInv
    <2>6. CASE ~cancelled
      <3>1. Pump(Settled(s, answer), sends \ {s}, active - 1, phase, idle)
        BY <1>11, <2>6 DEF EndSend
      <3>2. Settled(s, answer) \in [File -> Row]
        BY <1>1, <2>1, SettledType
      <3>3. /\ run' \in 1..MaxRuns /\ cancelled' \in BOOLEAN /\ retries' \in 0..MaxRetries
            /\ registering' \subseteq 1..run' /\ idle \in BOOLEAN /\ uncounted' \in Nat
            /\ phase \in RunningPhases \cup {"IDLE", "COMPLETE", "BLOCKED", "FAILED", "CANCELLED"}
            /\ \A t \in sends \ {s} : t.run <= run'
        BY <2>2, <2>4 DEF RowsInv, QueueTypeOK
      <3> QED
        BY <1>11, <2>3, <3>1, <3>2, <3>3, PumpKeepsRows
    <2> QED
      BY <2>5, <2>6
  <1>12. ASSUME NEW s \in sends, SendEnds(s)
         PROVE  RowsInv'
    <2>1. s.file \in File
      BY <1>1 DEF Send
    <2>2. server' \in [File -> {"ABSENT", "PENDING", "UPLOADING", "ARCHIVED", "FAILED"}]
      BY <1>12, <2>1 DEF SendEnds, RowsInv, QueueTypeOK
    <2>3. \E answer \in {"UPLOADING", "ARCHIVED", "ERROR"} : EndSend(s, answer)
      BY <1>12 DEF SendEnds
    <2> QED
      BY <1>11, <2>2, <2>3
  <1>13. ASSUME NEW f \in File, ServerSettles(f)
         PROVE  RowsInv'
    BY <1>13 DEF ServerSettles, RowsInv, QueueTypeOK
  <1>14. CASE UNCHANGED queueVars
    BY <1>14 DEF queueVars, RowsInv, QueueTypeOK
  <1> QED
    BY <1>4, <1>5, <1>6, <1>7, <1>8, <1>9, <1>10, <1>12, <1>13, <1>14 DEF QueueNext, Replies

\* Before the first run there is nothing.
LEMMA InitHoldsRows ==
  QueueInit => RowsInv
  <1> SUFFICES ASSUME QueueInit PROVE RowsInv
    OBVIOUS
  <1>1. NoRow \in Row /\ NoRow.status = "NONE"
    BY DEF NoRow, Row, Statuses
  <1>2. files \in [File -> Row] /\ FilesWith(files, "NONE") = File
    BY <1>1 DEF QueueInit, FilesWith
  <1>3. {cancelled, idle} \subseteq BOOLEAN
    BY DEF QueueInit
  <1>4. QueueTypeOK
    BY <1>2, <1>3, QueueAssumption DEF QueueInit, QueueTypeOK, Row
  <1> QED
    BY <1>2, <1>4, FS_EmptySet DEF QueueInit, RowsInv

\* The typing invariant holds in every reachable state: start, retryRegistered,
\* cancel and the answers, late or not, leave well-formed rows, and no PUT in
\* flight belongs to a run that has not begun.
THEOREM RowsInvariant == QueueSpec => []RowsInv
  BY InitHoldsRows, NextKeepsRows, PTL DEF QueueSpec

\* Every variable of the queue keeps its type, whatever is dropped and when.
THEOREM QueueTypeAlways == QueueSpec => []QueueTypeOK
  <1>1. RowsInv => QueueTypeOK
    BY DEF RowsInv
  <1> QED
    BY <1>1, RowsInvariant, PTL

-----------------------------------------------------------------------------
(* The counter of the pump *)

\* A pump that starts with one PUT for each uploading row of its run, all PUTs
\* counted but the forgotten ones and the count within the limit, ends so; and
\* what it completes is settled.
LEMMA PumpKeepsCount ==
  ASSUME NEW rows \in [File -> Row], NEW puts, IsFiniteSet(puts),
         NEW count \in Int, count <= Concurrency,
         uncounted' \in Nat, count + uncounted' = Cardinality(puts),
         \A s, t \in PutsOf(puts, run') : s.file = t.file => s = t,
         {s.file : s \in PutsOf(puts, run')} = FilesWith(rows, "UPLOADING"),
         NEW current,
         current = "COMPLETE" =>
           FilesWith(rows, "QUEUED") = {} /\ Cardinality(puts) <= uncounted',
         NEW waiting \in BOOLEAN, Pump(rows, puts, count, current, waiting)
  PROVE  PumpInv'
  <1>1. Cardinality(puts) \in Nat /\ Concurrency \in Nat
    BY FS_CardinalityType, QueueAssumption
  <1>fs. PICK fs \in SUBSET FilesWith(rows, "QUEUED") : Pumped(rows, puts, count, current, fs)
    BY PumpEffect
  <1>2. /\ IsFiniteSet(fs) /\ Cardinality(fs) \in Nat
        /\ Cardinality(fs) <= Room(count)
        /\ FilesWith(files', "UPLOADING") = FilesWith(rows, "UPLOADING") \cup fs
        /\ FilesWith(files', "QUEUED") \subseteq FilesWith(rows, "QUEUED")
        /\ sends' = puts \cup NewSends(fs)
        /\ active' = count + Cardinality(fs)
        /\ phase' \in {"COMPLETE", current}
        /\ phase' = "COMPLETE" /\ current # "COMPLETE" =>
             active' = 0 /\ FilesWith(files', "QUEUED") = {}
    BY <1>fs DEF Pumped
  <1>3. FilesWith(rows, "QUEUED") \cap FilesWith(rows, "UPLOADING") = {}
    BY DEF FilesWith
  <1>4. /\ \A s \in NewSends(fs) : s.run = run' /\ s.file \in fs
        /\ \A s, t \in NewSends(fs) : s.file = t.file => s = t
        /\ {s.file : s \in NewSends(fs)} = fs
    <2> DEFINE New(f) == [run |-> run', file |-> f, aborted |-> FALSE]
    <2>1. \A f \in fs : New(f).run = run' /\ New(f).file = f
      OBVIOUS
    <2>2. NewSends(fs) = {New(f) : f \in fs}
      BY DEF NewSends
    <2> HIDE DEF New
    <2> QED
      BY <2>1, <2>2
  <1>5. \A s \in PutsOf(puts, run') : s.file \notin fs
    BY <1>3
  <1>6. PutsOf(sends', run') = PutsOf(puts, run') \cup NewSends(fs)
    BY <1>2, <1>4 DEF PutsOf
  <1>7. OnePutEach'
    <2>1. \A s, t \in PutsOf(sends', run') : s.file = t.file => s = t
      BY <1>4, <1>5, <1>6
    <2> QED
      BY <2>1 DEF OnePutEach, PutsOf
  <1>8. puts \cap NewSends(fs) = {}
    BY <1>4, <1>5 DEF PutsOf
  <1>9. active' \in Int /\ Cardinality(sends') \in Nat /\ active' + uncounted' = Cardinality(sends')
    <2>1. IsFiniteSet(NewSends(fs)) /\ Cardinality(NewSends(fs)) = Cardinality(fs)
      BY <1>2, NewSendsCount
    <2>2. Cardinality(puts \cup NewSends(fs)) =
            Cardinality(puts) + Cardinality(NewSends(fs)) - Cardinality({})
      BY <1>8, <2>1, FS_Union
    <2>3. Cardinality({}) = 0
      BY FS_EmptySet
    <2> QED
      BY <1>1, <1>2, <2>1, <2>2, <2>3
  <1>10. {s.file : s \in PutsOf(sends', run')} = FilesWith(files', "UPLOADING")
    <2>1. {s.file : s \in PutsOf(sends', run')}
            = {s.file : s \in PutsOf(puts, run')} \cup {s.file : s \in NewSends(fs)}
      BY <1>6
    <2> QED
      BY <1>2, <1>4, <2>1
  <1>11. active' <= Concurrency
    BY <1>1, <1>2 DEF Room
  <1>12. CompleteIsSettled'
    <2> SUFFICES ASSUME phase' = "COMPLETE"
                 PROVE  FilesWith(files', "QUEUED") = {} /\ Cardinality(sends') <= uncounted'
      BY DEF CompleteIsSettled
    <2>1. CASE current # "COMPLETE"
      BY <1>2, <1>9, <2>1
    <2>2. CASE current = "COMPLETE"
      <3>1. fs = {} /\ FilesWith(files', "QUEUED") = {}
        BY <1>2, <2>2
      <3>2. sends' = puts
        BY <1>2, <1>4, <3>1
      <3> QED
        BY <2>2, <3>1, <3>2
    <2> QED
      BY <2>1, <2>2
  <1> QED
    BY <1>7, <1>9, <1>10, <1>11, <1>12 DEF PumpInv, ActiveCountsSends, PutsOf

\* A reset of the counter forgets the PUTs in flight, and no more.
LEMMA ResetKeepsCount ==
  ASSUME RowsInv, run' = run + 1, uncounted' = Cardinality(sends), sends' = sends, active' = 0,
         FilesWith(files', "UPLOADING") = {}, phase' # "COMPLETE"
  PROVE  PumpInv'
  <1>1. \A s \in sends : s.run # run'
    BY QueueAssumption DEF RowsInv, QueueTypeOK, Send
  <1>2. Cardinality(sends) \in Nat
    BY FS_CardinalityType DEF RowsInv
  <1>3. PutsOf(sends', run') = {}
    BY <1>1 DEF PutsOf
  <1> QED
    BY <1>2, <1>3, QueueAssumption
       DEF PumpInv, OnePutEach, ActiveCountsSends, CompleteIsSettled, PutsOf

\* No step of the queue breaks the bookkeeping of the PUTs in flight.
LEMMA NextKeepsCount ==
  RowsInv /\ PumpInv /\ [QueueNext]_queueVars => PumpInv'
  <1> SUFFICES ASSUME RowsInv, PumpInv, [QueueNext]_queueVars
               PROVE  PumpInv'
    OBVIOUS
  <1>1. /\ files \in [File -> Row] /\ sends \subseteq Send /\ IsFiniteSet(sends)
        /\ idle \in BOOLEAN /\ run \in Nat /\ uncounted \in Nat
        /\ \A s \in sends : s.run <= run
    BY QueueAssumption DEF RowsInv, QueueTypeOK, Row
  <1>2. /\ active \in Int /\ active <= Concurrency
        /\ Cardinality(sends) \in Nat /\ active + uncounted = Cardinality(sends)
        /\ \A s, t \in PutsOf(sends, run) : s.file = t.file => s = t
        /\ phase = "COMPLETE" =>
             FilesWith(files, "QUEUED") = {} /\ Cardinality(sends) <= uncounted
    BY <1>1, FS_CardinalityType
       DEF RowsInv, QueueTypeOK, PumpInv, OnePutEach, ActiveCountsSends, CompleteIsSettled
  <1>3. Concurrency \in Nat
    BY QueueAssumption
  <1>4. ASSUME ~cancelled
        PROVE  {s.file : s \in PutsOf(sends, run)} = FilesWith(files, "UPLOADING")
    BY <1>4 DEF PumpInv, ActiveCountsSends, PutsOf
  <1>5. CASE Start
    <2>1. FilesWith(files', "UPLOADING") = {}
      BY <1>5 DEF Start, FilesWith
    <2> QED
      BY <1>5, <2>1, ResetKeepsCount DEF Start, ResetRun
  <1>6. CASE Blocked
    <2>1. FilesWith(files', "UPLOADING") = {}
      BY <1>6 DEF Blocked, NoRow, FilesWith
    <2> QED
      BY <1>6, <2>1, ResetKeepsCount DEF Blocked, ResetRun
  <1>7. ASSUME NEW fs \in SUBSET File, RetryRegistered(fs)
        PROVE  PumpInv'
    <2> DEFINE rows == [f \in File |-> IF f \in fs THEN [status |-> "QUEUED", known |-> TRUE] ELSE NoRow]
    <2>1. rows \in [File -> Row] /\ FilesWith(rows, "UPLOADING") = {}
      BY DEF Row, NoRow, Statuses, FilesWith
    <2>2. Pump(rows, sends, 0, "UPLOADING", TRUE)
      BY <1>7 DEF RetryRegistered
    <2> HIDE DEF rows
    <2>3. run' = run + 1 /\ uncounted' = Cardinality(sends)
      BY <1>7 DEF RetryRegistered, ResetRun
    <2>4. PutsOf(sends, run') = {}
      BY <1>1, <2>3 DEF PutsOf, Send
    <2>5. /\ 0 \in Int /\ 0 <= Concurrency /\ 0 + uncounted' = Cardinality(sends)
          /\ uncounted' \in Nat
          /\ \A s, t \in PutsOf(sends, run') : s.file = t.file => s = t
          /\ {s.file : s \in PutsOf(sends, run')} = FilesWith(rows, "UPLOADING")
      BY <1>2, <1>3, <2>1, <2>3, <2>4
    <2> QED
      BY <1>1, <2>1, <2>2, <2>5, PumpKeepsCount
  <1>8. ASSUME NEW f \in File, Retry(f)
        PROVE  PumpInv'
    <2> DEFINE rows == WithStatus(files, {f}, "QUEUED")
    <2>1. files[f].status = "FAILED" /\ ~cancelled /\ run' = run /\ uncounted' = uncounted
      BY <1>8 DEF Retry
    <2>2. /\ rows \in [File -> Row] /\ rows[f].status = "QUEUED"
          /\ \A h \in File \ {f} : rows[h] = files[h]
      BY <1>1, WithStatusEffect DEF Statuses
    <2>3. Pump(rows, sends, active, "UPLOADING", TRUE)
      BY <1>8 DEF Retry
    <2> HIDE DEF rows
    <2>4. FilesWith(rows, "UPLOADING") = FilesWith(files, "UPLOADING")
      BY <2>1, <2>2 DEF FilesWith
    <2> QED
      BY <1>1, <1>2, <1>4, <2>1, <2>2, <2>3, <2>4, PumpKeepsCount
  <1>9. CASE Cancel
    <2> DEFINE Aborted(s) == [s EXCEPT !.aborted = s.aborted \/ s.run = run]
               g == [s \in sends |-> Aborted(s)]
    <2>1. \A s \in Send : /\ Aborted(s).run = s.run /\ Aborted(s).file = s.file
                          /\ s.run # run => Aborted(s) = s
      BY DEF Send
    <2>2. /\ sends' = {Aborted(s) : s \in sends} /\ UNCHANGED <<run, active, uncounted>> /\ cancelled'
          /\ phase' = "CANCELLED"
      BY <1>9 DEF Cancel
    <2> HIDE DEF Aborted
    <2>3. g = [s \in sends |-> g[s]] /\ sends' = {g[s] : s \in sends}
      BY <2>2
    <2>4. \A x, y \in sends : g[x] = g[y] => x = y
      BY <1>1, <1>2, <2>1 DEF PutsOf
    <2>5. OnePutEach'
      BY <1>1, <1>2, <2>1, <2>2 DEF OnePutEach, PutsOf
    <2> HIDE DEF g
    <2>6. Cardinality(sends') = Cardinality(sends)
      BY <1>1, <2>3, <2>4, ImageCount
    <2> QED
      BY <1>2, <2>2, <2>5, <2>6 DEF PumpInv, ActiveCountsSends, CompleteIsSettled
  <1>10. ASSUME NEW r \in registering, RegistrationSucceeds(r)
         PROVE  PumpInv'
    <2>1. /\ Registration(r) \in [File -> Row]
          /\ FilesWith(Registration(r), "UPLOADING") = FilesWith(files, "UPLOADING")
          /\ FilesWith(Registration(r), "QUEUED") \subseteq FilesWith(files, "QUEUED")
      BY <1>1, RegistrationType
    <2>2. UNCHANGED <<cancelled, run, uncounted>>
      BY <1>10 DEF RegistrationSucceeds
    <2>3. CASE cancelled
      <3>1. files' = Registration(r) /\ UNCHANGED <<phase, active, sends>>
        BY <1>10, <2>3 DEF RegistrationSucceeds
      <3>2. CompleteIsSettled'
        BY <1>2, <2>1, <2>2, <3>1 DEF CompleteIsSettled
      <3> QED
        BY <2>2, <2>3, <3>1, <3>2 DEF PumpInv, OnePutEach, ActiveCountsSends, PutsOf
    <2>4. CASE ~cancelled
      <3>1. Pump(Registration(r), sends, active, "UPLOADING", TRUE)
        BY <1>10, <2>4 DEF RegistrationSucceeds
      <3> QED
        BY <1>1, <1>2, <1>4, <2>1, <2>2, <2>4, <3>1, PumpKeepsCount
    <2> QED
      BY <2>3, <2>4
  <1>11. ASSUME NEW r \in registering, RegistrationFails(r)
         PROVE  PumpInv'
    BY <1>11 DEF RegistrationFails, PumpInv, OnePutEach, ActiveCountsSends, CompleteIsSettled, PutsOf
  <1>12. ASSUME NEW s \in sends, NEW answer, EndSend(s, answer)
         PROVE  PumpInv'
    <2>1. s.file \in File
      BY <1>1 DEF Send
    <2>2. /\ IsFiniteSet(sends \ {s}) /\ Cardinality(sends \ {s}) = Cardinality(sends) - 1
          /\ active - 1 \in Int /\ active - 1 <= Concurrency
      BY <1>1, <1>2, <1>3, FS_RemoveElement
    <2>3. UNCHANGED <<cancelled, run, uncounted>>
      BY <1>12 DEF EndSend
    <2>4. /\ (active - 1) + uncounted = Cardinality(sends \ {s})
          /\ phase = "COMPLETE" => Cardinality(sends \ {s}) <= uncounted
      BY <1>1, <1>2, <2>2
    <2>5. CASE cancelled
      <3>1. sends' = sends \ {s} /\ active' = active - 1 /\ UNCHANGED <<phase, files>>
        BY <1>12, <2>5 DEF EndSend
      <3>2. OnePutEach'
        BY <1>2, <2>3, <3>1 DEF OnePutEach, PutsOf
      <3> QED
        BY <1>2, <2>2, <2>3, <2>4, <2>5, <3>1, <3>2
           DEF PumpInv, ActiveCountsSends, CompleteIsSettled
    <2>6. CASE ~cancelled
      <3>1. Pump(Settled(s, answer), sends \ {s}, active - 1, phase, idle)
        BY <1>12, <2>6 DEF EndSend
      <3>2. /\ Settled(s, answer) \in [File -> Row]
            /\ FilesWith(Settled(s, answer), "QUEUED") \subseteq FilesWith(files, "QUEUED")
            /\ s.run # run => Settled(s, answer) = files
            /\ s.run = run => FilesWith(Settled(s, answer), "UPLOADING") =
                                FilesWith(files, "UPLOADING") \ {s.file}
        BY <1>1, <2>1, <2>6, SettledType
      <3>3. {t.file : t \in PutsOf(sends \ {s}, run')} = FilesWith(Settled(s, answer), "UPLOADING")
        <4>1. CASE s.run = run
          BY <1>2, <1>4, <2>3, <2>6, <3>2, <4>1 DEF PutsOf
        <4>2. CASE s.run # run
          BY <1>4, <2>3, <2>6, <3>2, <4>2 DEF PutsOf
        <4> QED
          BY <4>1, <4>2
      <3>4. \A t, u \in PutsOf(sends \ {s}, run') : t.file = u.file => t = u
        BY <1>2, <2>3 DEF PutsOf
      <3>5. phase = "COMPLETE" => /\ FilesWith(Settled(s, answer), "QUEUED") = {}
                                  /\ Cardinality(sends \ {s}) <= uncounted'
        BY <1>2, <2>3, <2>4, <3>2
      <3>6. uncounted' \in Nat /\ (active - 1) + uncounted' = Cardinality(sends \ {s})
        BY <1>1, <2>3, <2>4
      <3> QED
        <4> DEFINE after == Settled(s, answer)
                   rest == sends \ {s}
                   left == active - 1
        <4>1. /\ after \in [File -> Row] /\ IsFiniteSet(rest)
              /\ left \in Int /\ left <= Concurrency
              /\ Pump(after, rest, left, phase, idle) /\ idle \in BOOLEAN
          BY <1>1, <2>2, <3>1, <3>2
        <4>2. /\ uncounted' \in Nat /\ left + uncounted' = Cardinality(rest)
              /\ \A t, u \in PutsOf(rest, run') : t.file = u.file => t = u
              /\ {t.file : t \in PutsOf(rest, run')} = FilesWith(after, "UPLOADING")
              /\ phase = "COMPLETE" =>
                   FilesWith(after, "QUEUED") = {} /\ Cardinality(rest) <= uncounted'
          BY <3>3, <3>4, <3>5, <3>6
        <4> HIDE DEF after, rest, left
        <4> QED
          BY <4>1, <4>2, PumpKeepsCount
    <2> QED
      BY <2>5, <2>6
  <1>13. ASSUME NEW f \in File, ServerSettles(f)
         PROVE  PumpInv'
    BY <1>13 DEF ServerSettles, PumpInv, OnePutEach, ActiveCountsSends, CompleteIsSettled, PutsOf
  <1>14. CASE UNCHANGED queueVars
    BY <1>14 DEF queueVars, PumpInv, OnePutEach, ActiveCountsSends, CompleteIsSettled, PutsOf
  <1> QED
    BY <1>5, <1>6, <1>7, <1>8, <1>9, <1>10, <1>11, <1>12, <1>13, <1>14
       DEF QueueNext, Replies, SendEnds

\* The counter of the pump is right but for what its last reset forgot, and
\* within the limit, whatever starts when.
THEOREM PumpInvariant == QueueSpec => []PumpInv
  <1>1. QueueInit => PumpInv
    <2> SUFFICES ASSUME QueueInit PROVE PumpInv
      OBVIOUS
    <2>1. /\ sends = {} /\ active = 0 /\ uncounted = 0 /\ phase = "IDLE"
          /\ FilesWith(files, "UPLOADING") = {}
      BY DEF QueueInit, NoRow, FilesWith
    <2> QED
      BY <2>1, FS_EmptySet, QueueAssumption
         DEF PumpInv, OnePutEach, ActiveCountsSends, CompleteIsSettled, PutsOf
  <1> QED
    BY <1>1, NextKeepsCount, RowsInvariant, PTL DEF QueueSpec

\* The PUTs that are live are among those in flight.
LEMMA LivePuts ==
  ASSUME RowsInv, PumpInv
  PROVE  UploadsAreBounded /\ (RunsDoNotOverlap => NeverMoreAtOnce)
  <1> DEFINE live == {s \in sends : ~s.aborted}
  <1>1. IsFiniteSet(sends) /\ active <= Concurrency /\ active + uncounted = Cardinality(sends)
    BY DEF RowsInv, PumpInv, ActiveCountsSends
  <1>2. IsFiniteSet(live) /\ Cardinality(live) <= Cardinality(sends)
    BY <1>1, FS_Subset
  <1>3. /\ Cardinality(live) \in Nat /\ Cardinality(sends) \in Nat /\ Concurrency \in Nat
        /\ active \in Int /\ uncounted \in Nat
    BY <1>1, <1>2, FS_CardinalityType, QueueAssumption DEF RowsInv, QueueTypeOK
  <1> QED
    BY <1>1, <1>2, <1>3 DEF UploadsAreBounded, RunsDoNotOverlap, NeverMoreAtOnce

\* No more PUTs are live than the limit and those that the last reset of the
\* counter forgot, across runs, retries, cancellations and late registrations.
THEOREM UploadsAreBoundedAlways == QueueSpec => []UploadsAreBounded
  <1>1. RowsInv /\ PumpInv => UploadsAreBounded
    BY LivePuts
  <1> QED
    BY <1>1, RowsInvariant, PumpInvariant, PTL

\* The counter is the number of PUTs that have not ended less those that its
\* last reset forgot, and each PUT of the run has its row.
THEOREM ActiveCountsSendsAlways == QueueSpec => []ActiveCountsSends
  <1>1. PumpInv => ActiveCountsSends
    BY DEF PumpInv
  <1> QED
    BY <1>1, PumpInvariant, PTL

\* A run that reports COMPLETE has no row waiting, and no PUT outstanding but
\* for as many as the last reset of the counter forgot.
THEOREM CompleteIsSettledAlways == QueueSpec => []CompleteIsSettled
  <1>1. PumpInv => CompleteIsSettled
    BY DEF PumpInv
  <1> QED
    BY <1>1, PumpInvariant, PTL

-----------------------------------------------------------------------------
(* Cancellation and registration *)

\* A cancelled queue launches nothing, whatever replies still arrive and
\* whenever folders are dropped: it needs no invariant.
THEOREM CancelledLaunchesNothingAlways ==
  QueueSpec => CancelledLaunchesNothing
  <1> DEFINE Launched(s) == \A old \in sends : <<old.run, old.file>> # <<s.run, s.file>>
  <1>1. ASSUME RowsInv, QueueNext, cancelled, cancelled', NEW s \in sends'
        PROVE  \E old \in sends : <<old.run, old.file>> = <<s.run, s.file>>
    <2>1. sends' \subseteq sends
      BY <1>1 DEF QueueNext, Replies, Start, Blocked, ResetRun, Cancel, RetryRegistered, Retry,
         RegistrationSucceeds, RegistrationFails, SendEnds, EndSend, ServerSettles
    <2> QED
      BY <2>1
  <1>2. RowsInv /\ [QueueNext]_queueVars =>
          [cancelled /\ cancelled' =>
             \A s \in sends' : \E old \in sends : <<old.run, old.file>> = <<s.run, s.file>>]_queueVars
    BY <1>1
  <1> QED
    BY <1>2, RowsInvariant, PTL DEF QueueSpec, CancelledLaunchesNothing

\* The three assumptions under which a run starts when the one before has ended.
RunsStartApart == ~LateDrop /\ ~LateRegistration /\ ~LateAbort

\* Then nothing is in flight when a run starts.
LEMMA StartsClean ==
  ASSUME RunsStartApart, ApartInv, CanStart
  PROVE  sends = {} /\ registering = {} /\ Cardinality(sends) = 0
  BY FS_EmptySet DEF RunsStartApart, ApartInv, CanStart

\* A pump of PUTs of the current run, none aborted, launches more of them, and
\* completes the run only when all have ended.
LEMMA PumpKeepsApart ==
  ASSUME RowsInv', PumpInv', NEW rows \in [File -> Row], NEW puts,
         \A s \in puts : s.run = run' /\ ~s.aborted, uncounted' = 0,
         NEW count \in Int, NEW current \in RunningPhases, NEW waiting \in BOOLEAN,
         Pump(rows, puts, count, current, waiting), run' \notin registering',
         registering' \subseteq {run'}
  PROVE  ApartInv'
  <1>1. PICK fs \in SUBSET FilesWith(rows, "QUEUED") : Pumped(rows, puts, count, current, fs)
    BY PumpEffect
  <1>2. sends' = puts \cup NewSends(fs) /\ phase' \in {"COMPLETE", current}
    BY <1>1 DEF Pumped
  <1>3. \A s \in sends' : s.run = run' /\ ~s.aborted
    BY <1>2 DEF NewSends
  <1>4. phase' = "COMPLETE" => sends' = {}
    <2>1. IsFiniteSet(sends') /\ Cardinality(sends') \in Nat
      BY FS_CardinalityType DEF RowsInv
    <2>2. phase' = "COMPLETE" => Cardinality(sends') = 0
      BY <2>1 DEF PumpInv, CompleteIsSettled
    <2> QED
      BY <2>1, <2>2, FS_EmptySet
  <1> QED
    BY <1>2, <1>3, <1>4 DEF ApartInv, RunsDoNotOverlap, RegisterFirst, RowsWaitForRegistration

\* Steps keep the runs apart: while a registration is awaited there is no row to
\* retry and no PUT to end, and a run ends with all its PUTs over or aborted.
LEMMA NextKeepsApart ==
  ASSUME RunsStartApart
  PROVE  RowsInv /\ PumpInv /\ RowsInv' /\ PumpInv' /\ ApartInv /\ [QueueNext]_queueVars => ApartInv'
  <1> SUFFICES ASSUME RowsInv, PumpInv, RowsInv', PumpInv', ApartInv, [QueueNext]_queueVars
               PROVE  ApartInv'
    OBVIOUS
  <1>1. /\ uncounted = 0 /\ \A s \in sends : s.run = run
        /\ phase \notin RunningPhases => \A s \in sends : s.aborted
        /\ ~cancelled => \A s \in sends : ~s.aborted
    BY DEF ApartInv, RunsDoNotOverlap
  <1>2. /\ registering \subseteq {run} /\ run \in Nat
        /\ run \in registering => sends = {} /\ FilesWith(files, "QUEUED") = File
    BY QueueAssumption DEF ApartInv, RegisterFirst, RowsWaitForRegistration, RowsInv, QueueTypeOK
  <1>3. /\ files \in [File -> Row] /\ sends \subseteq Send /\ active \in Int /\ idle \in BOOLEAN
        /\ "UPLOADING" \in RunningPhases /\ TRUE \in BOOLEAN /\ 0 \in Int
    BY DEF RowsInv, QueueTypeOK, Row, RunningPhases
  <1>4. CASE Start
    <2>1. sends' = {} /\ registering' = {run'} /\ uncounted' = 0 /\ FilesWith(files', "QUEUED") = File
      BY <1>4, StartsClean DEF Start, ResetRun, FilesWith
    <2> QED
      BY <2>1 DEF ApartInv, RunsDoNotOverlap, RegisterFirst, RowsWaitForRegistration
  <1>5. CASE Blocked
    <2>1. sends' = {} /\ registering' = {} /\ uncounted' = 0
      BY <1>5, StartsClean DEF Blocked, ResetRun
    <2> QED
      BY <2>1 DEF ApartInv, RunsDoNotOverlap, RegisterFirst, RowsWaitForRegistration
  <1>6. ASSUME NEW fs \in SUBSET File, RetryRegistered(fs)
        PROVE  ApartInv'
    <2> DEFINE rows == [f \in File |-> IF f \in fs THEN [status |-> "QUEUED", known |-> TRUE] ELSE NoRow]
    <2>1. rows \in [File -> Row]
      BY DEF Row, NoRow, Statuses
    <2>2. Pump(rows, sends, 0, "UPLOADING", TRUE)
      BY <1>6 DEF RetryRegistered
    <2> HIDE DEF rows
    <2>3. sends = {} /\ registering' = {} /\ uncounted' = 0
      BY <1>6, StartsClean DEF RetryRegistered, ResetRun
    <2> QED
      BY <1>3, <2>1, <2>2, <2>3, PumpKeepsApart
  <1>7. ASSUME NEW f \in File, Retry(f)
        PROVE  ApartInv'
    <2> DEFINE rows == WithStatus(files, {f}, "QUEUED")
    <2>1. run \notin registering
      BY <1>2, <1>7 DEF Retry, FilesWith
    <2>2. rows \in [File -> Row]
      BY <1>3, WithStatusEffect DEF Statuses
    <2>3. /\ Pump(rows, sends, active, "UPLOADING", TRUE)
          /\ ~cancelled /\ UNCHANGED <<run, registering, uncounted>>
      BY <1>7 DEF Retry
    <2> HIDE DEF rows
    <2> QED
      BY <1>1, <1>2, <1>3, <2>1, <2>2, <2>3, PumpKeepsApart
  <1>8. CASE Cancel
    <2> DEFINE Aborted(s) == [s EXCEPT !.aborted = s.aborted \/ s.run = run]
    <2>1. \A s \in Send : Aborted(s).run = s.run /\ (s.run = run => Aborted(s).aborted)
      BY DEF Send
    <2>2. sends' = {Aborted(s) : s \in sends} /\ UNCHANGED <<run, registering, files, uncounted>>
      BY <1>8 DEF Cancel
    <2>3. cancelled'
      BY <1>8 DEF Cancel
    <2> HIDE DEF Aborted
    <2>4. \A s \in sends' : s.run = run /\ s.aborted
      BY <1>1, <1>3, <2>1, <2>2
    <2>5. run \in registering => sends' = {}
      BY <1>2, <2>2
    <2> QED
      BY <1>1, <1>2, <2>2, <2>3, <2>4, <2>5
         DEF ApartInv, RunsDoNotOverlap, RegisterFirst, RowsWaitForRegistration
  <1>9. ASSUME NEW r \in registering, RegistrationSucceeds(r)
        PROVE  ApartInv'
    <2>1. sends = {} /\ registering' = {} /\ UNCHANGED <<cancelled, run, uncounted>>
      BY <1>2, <1>9 DEF RegistrationSucceeds
    <2>2. CASE cancelled
      <3>1. sends' = {}
        BY <1>9, <2>1, <2>2 DEF RegistrationSucceeds
      <3> QED
        BY <1>1, <2>1, <3>1 DEF ApartInv, RunsDoNotOverlap, RegisterFirst, RowsWaitForRegistration
    <2>3. CASE ~cancelled
      <3>1. Pump(Registration(r), sends, active, "UPLOADING", TRUE)
        BY <1>9, <2>3 DEF RegistrationSucceeds
      <3>2. Registration(r) \in [File -> Row]
        BY <1>3, RegistrationType
      <3> QED
        BY <1>1, <1>3, <2>1, <3>1, <3>2, PumpKeepsApart
    <2> QED
      BY <2>2, <2>3
  <1>10. ASSUME NEW r \in registering, RegistrationFails(r)
         PROVE  ApartInv'
    <2>1. sends' = {} /\ registering' = {} /\ uncounted' = uncounted
      BY <1>2, <1>10 DEF RegistrationFails
    <2> QED
      BY <1>1, <2>1 DEF ApartInv, RunsDoNotOverlap, RegisterFirst, RowsWaitForRegistration
  <1>11. ASSUME NEW s \in sends, NEW answer, EndSend(s, answer)
         PROVE  ApartInv'
    <2>1. run \notin registering /\ UNCHANGED <<run, registering, uncounted, cancelled>>
      BY <1>2, <1>11 DEF EndSend
    <2>2. CASE cancelled
      <3>1. sends' = sends \ {s} /\ phase' = phase
        BY <1>11, <2>2 DEF EndSend
      <3> QED
        BY <1>1, <1>2, <2>1, <2>2, <3>1
           DEF ApartInv, RunsDoNotOverlap, RegisterFirst, RowsWaitForRegistration
    <2>3. CASE ~cancelled
      <3>1. Pump(Settled(s, answer), sends \ {s}, active - 1, phase, idle)
        BY <1>11, <2>3 DEF EndSend
      <3>2. Settled(s, answer) \in [File -> Row]
        BY <1>3, SettledType DEF Send
      <3>3. phase \in RunningPhases /\ active - 1 \in Int
        BY <1>1, <1>3, <2>3
      <3>4. \A t \in sends \ {s} : t.run = run' /\ ~t.aborted
        BY <1>1, <2>1, <2>3
      <3> QED
        BY <1>1, <1>2, <1>3, <2>1, <3>1, <3>2, <3>3, <3>4, PumpKeepsApart
    <2> QED
      BY <2>2, <2>3
  <1>12. ASSUME NEW f \in File, ServerSettles(f)
         PROVE  ApartInv'
    BY <1>12 DEF ServerSettles, ApartInv, RunsDoNotOverlap, RegisterFirst, RowsWaitForRegistration
  <1>13. CASE UNCHANGED queueVars
    BY <1>13 DEF queueVars, ApartInv, RunsDoNotOverlap, RegisterFirst, RowsWaitForRegistration
  <1> QED
    BY <1>4, <1>5, <1>6, <1>7, <1>8, <1>9, <1>10, <1>11, <1>12, <1>13
       DEF QueueNext, Replies, SendEnds

\* If a run starts only when the one before it has ended, its registration
\* answered and its aborted PUTs over, the runs stay apart.
THEOREM RunsStayApart ==
  ASSUME RunsStartApart
  PROVE  QueueSpec => []ApartInv
  <1>1. QueueInit => ApartInv
    BY DEF QueueInit, ApartInv, RunsDoNotOverlap, RegisterFirst, RowsWaitForRegistration
  <1> QED
    BY <1>1, NextKeepsApart, RowsInvariant, PumpInvariant, PTL DEF QueueSpec

\* Then there are never more than Concurrency live PUTs (upload-queue.ts:12).
THEOREM NeverMoreAtOnceAlways ==
  ASSUME RunsStartApart
  PROVE  QueueSpec => []NeverMoreAtOnce
  <1>1. RowsInv /\ PumpInv /\ ApartInv => NeverMoreAtOnce
    BY LivePuts DEF ApartInv
  <1> QED
    BY <1>1, RowsInvariant, PumpInvariant, RunsStayApart, PTL

\* And then one registration comes first, and the PUTs after it.
THEOREM RowsWaitForRegistrationAlways ==
  ASSUME RunsStartApart
  PROVE  QueueSpec => []RowsWaitForRegistration
  <1>1. ApartInv => RowsWaitForRegistration
    BY DEF ApartInv, RegisterFirst
  <1> QED
    BY <1>1, RunsStayApart, PTL

-----------------------------------------------------------------------------
(* The session page.                                                       *)

Write == [content : 0..Foreign, mine : BOOLEAN]

SessionOK ==
  /\ session \in [part : [Part -> Seq(Write)], uploads : Nat, left : Nat,
                  advancing : BOOLEAN]
  /\ \A p \in Part : Revision(p) \in 1..MaxRevision

\* A session that was read is one the server has had.
ViewOK(view) ==
  /\ view \in [revision : [Part -> 1..MaxRevision], content : [Part -> 0..Foreign],
               uploads : 0..session.uploads, advancing : BOOLEAN]
  /\ \A p \in Part : view.revision[p] <= Revision(p)

SyncOK(read) == read = None \/ read = Waiting \/ (read = Served(read.view) /\ ViewOK(read.view))

ReadsOK ==
  /\ lifecycle \in [running : BOOLEAN, reading : {lifecycle.reading}, timer : BOOLEAN,
                    pending : BOOLEAN, gaveUp : BOOLEAN]
  /\ SyncOK(lifecycle.reading)
  /\ reads = [i \in 1..MaxReads |-> reads[i]]
  /\ \A i \in 1..MaxReads : SyncOK(reads[i])
  /\ ~ lifecycle.running =>
       lifecycle.reading = None /\ ~ lifecycle.timer /\ ~ lifecycle.pending

Form == [typed : 0..Foreign, saved : 0..Foreign, base : 0..MaxRevision]

\* Nothing is shown that the server has not had, and only what the operator typed
\* is unsaved.
PageOK ==
  /\ Part \subseteq {"group", "draft"}
  /\ shown \in [revision : [Part -> 0..MaxRevision], uploads : Int, advancing : BOOLEAN]
  /\ form \in [Part -> Form]
  /\ stale \subseteq {p \in Part : Dirty(form[p])}
  /\ blocked \in BOOLEAN /\ overtaken \in BOOLEAN
  /\ typed \in 0..MaxTyped
  /\ \A p \in Part : /\ shown.revision[p] <= Revision(p)
                     /\ Loaded => shown.revision[p] >= 1
                     /\ Dirty(form[p]) => /\ form[p].typed <= MaxTyped /\ form[p].base >= 1
                                          /\ shown.revision[p] >= 1

\* What was written from one revision on up to another is the operator's own.
Covered(p, base, revision) == \A i \in (base + 1)..revision : session.part[p][i].mine

\* The stale marks of the part can be relied on.
Trusted(p) == p = "group" => ~ overtaken

SaveRequest ==
  [step : {"sent", "applied"}, kind : {"save"}, content : 0..MaxTyped,
   revision : 1..MaxRevision, base : 1..MaxRevision]

MutateRequest == [step : {"sent", "applied"}, kind : {"mutate"}, revision : 1..MaxRevision]

Conflict == [step |-> "conflict"]

\* A submission has a revision the part has had; one that was applied wrote the next.
UnderWay(p, r) ==
  /\ r.revision <= Revision(p)
  /\ r.step = "applied" => r.revision < Revision(p) /\ session.part[p][r.revision + 1].mine

RequestOK(p, r) ==
  \/ r \in {None, Lost, Conflict}
  \/ r \in SaveRequest /\ UnderWay(p, r) /\ (Trusted(p) => Covered(p, r.base, r.revision))
  \/ r \in MutateRequest /\ UnderWay(p, r) /\ p = "group"

RequestsOK ==
  request = [p \in Part |-> request[p]] /\ \A p \in Part : RequestOK(p, request[p])

\* Unsaved work that is not marked stale hides nothing of another operator.
MarksHold ==
  \A p \in Part : Dirty(form[p]) /\ p \notin stale /\ Trusted(p) =>
                    Covered(p, form[p].base, shown.revision[p])

\* Nor does work that a group mutation under way will clear of its mark.
MutationHolds ==
  Mutating /\ ~ overtaken =>
    /\ request["group"].revision <= shown.revision["group"]
    /\ Dirty(form["group"]) =>
         Covered("group", form["group"].base, request["group"].revision)

ConsoleInv == SessionOK /\ ReadsOK /\ PageOK /\ RequestsOK /\ MarksHold /\ MutationHolds
-----------------------------------------------------------------------------
\* What a step does to the session: nothing that was written is lost.
Extended ==
  /\ Part' = Part
  /\ session.uploads <= session'.uploads
  /\ \A p \in Part :
       /\ Revision(p) <= Len(session'.part[p])
       /\ \A i \in 1..Revision(p) : session'.part[p][i] = session.part[p][i]

\* Writing to a part appends to it.
LEMMA Appended ==
  ASSUME SessionOK, NEW p \in Part, NEW w \in Write, Revision(p) < MaxRevision,
         Part' = Part,
         session' = [session EXCEPT !.part[p] = Append(@, w)]
  PROVE  /\ SessionOK' /\ Extended
         /\ session'.part[p] = Append(session.part[p], w)
         /\ Len(session'.part[p]) = Revision(p) + 1
         /\ session'.part[p][Revision(p) + 1] = w
<1>1. /\ session.part \in [Part -> Seq(Write)] /\ session.uploads \in Nat
      /\ \A q \in Part : session.part[q] \in Seq(Write) /\ Len(session.part[q]) \in 1..MaxRevision
  BY DEF SessionOK, Revision
<1>2. /\ session'.part = [session.part EXCEPT ![p] = Append(session.part[p], w)]
      /\ session'.uploads = session.uploads /\ session'.left = session.left
      /\ session'.advancing = session.advancing
      /\ session' \in [part : [Part -> Seq(Write)], uploads : Nat, left : Nat, advancing : BOOLEAN]
  <2>1. session \in [part : [Part -> Seq(Write)], uploads : Nat, left : Nat, advancing : BOOLEAN]
    BY DEF SessionOK
  <2>2. session' = [session EXCEPT !.part = [session.part EXCEPT ![p] = Append(session.part[p], w)]]
    OBVIOUS
  <2>3. [session.part EXCEPT ![p] = Append(session.part[p], w)] \in [Part -> Seq(Write)]
    BY <1>1
  <2> QED
    BY <2>1, <2>2, <2>3
<1>3. \A q \in Part : session'.part[q] = IF q = p THEN Append(session.part[p], w)
                                         ELSE session.part[q]
  BY <1>1, <1>2
<1>4. /\ Len(Append(session.part[p], w)) = Len(session.part[p]) + 1
      /\ \A i \in 1..Len(session.part[p]) : Append(session.part[p], w)[i] = session.part[p][i]
      /\ Append(session.part[p], w)[Len(session.part[p]) + 1] = w
  BY <1>1
<1>5. MaxRevision \in Nat
  BY ConsoleAssumption
<1>6. \A q \in Part : Len(session'.part[q]) \in 1..MaxRevision
  BY <1>1, <1>3, <1>4, <1>5 DEF Revision
<1>7. SessionOK'
  BY <1>2, <1>6 DEF SessionOK, Revision
<1>8. Extended
  BY <1>1, <1>2, <1>3, <1>4 DEF Extended, Revision
<1> QED
  BY <1>3, <1>4, <1>7, <1>8 DEF Revision

\* A step keeps the parts that are worked on.
LEMMA PartsStay ==
  ASSUME ConsoleInv, [ConsoleNext]_consoleVars
  PROVE  Part' = Part
<1>1. form = [q \in Part |-> form[q]]
  BY DEF ConsoleInv, PageOK, Form, Part
<1>2. CASE form' = form
  BY <1>2 DEF Part
<1>3. ASSUME NEW view, form' = Seeded(view)
      PROVE  Part' = Part
  BY <1>3 DEF Part, Seeded
<1>4. ASSUME NEW p, NEW e, form' = [form EXCEPT ![p] = e]
      PROVE  Part' = Part
  BY <1>4, <1>1 DEF Part
<1>5. CASE AcknowledgeConflict
  BY <1>5 DEF AcknowledgeConflict, Part
<1>6. ASSUME NEW p, Edit(p)
      PROVE  Part' = Part
  BY <1>6, <1>1 DEF Edit, Part
<1>7. CASE CurationSaveApplied
  BY <1>7, <1>4 DEF CurationSaveApplied, Part
<1>8. CASE ProductDraftSaved
  BY <1>8, <1>4 DEF ProductDraftSaved
<1>9. ASSUME NEW p, Reset(p)
      PROVE  Part' = Part
  BY <1>9, <1>4 DEF Reset
<1>10. CASE SessionRead
  BY <1>10, <1>3 DEF SessionRead, SyncSession
<1>11. ASSUME NEW i, SessionReread(i)
       PROVE  Part' = Part
  BY <1>11, <1>3 DEF SessionReread, SyncSession
<1>12. CASE ServeSession \/ SessionFailed \/ PollDue \/ FinishUpload \/ Leave \/ MutateGroup
            \/ ComeToRest \/ GroupMutationApplied
  BY <1>12, <1>2 DEF ServeSession, SessionFailed, PollDue, FinishUpload, Leave, MutateGroup,
                     ComeToRest, GroupMutationApplied, page
<1>13. ASSUME NEW p, Save(p) \/ ServeSubmission(p) \/ LoseSubmission(p) \/ WriteElsewhere(p)
                     \/ MutationConflict(p) \/ MutationFailed(p)
       PROVE  Part' = Part
  BY <1>13, <1>2 DEF Save, ServeSubmission, LoseSubmission, WriteElsewhere,
                     MutationConflict, MutationFailed, page
<1>14. ASSUME NEW i, ServeReread(i) \/ RereadFailed(i)
       PROVE  Part' = Part
  BY <1>14, <1>2 DEF ServeReread, RereadFailed, page
<1>15. CASE UNCHANGED consoleVars
  BY <1>15, <1>2 DEF consoleVars
<1> QED
  BY <1>5, <1>6, <1>7, <1>8, <1>9, <1>10, <1>11, <1>12, <1>13, <1>14, <1>15 DEF ConsoleNext
\* The session of a step that writes to no part.
LEMMA SessionKept ==
  ASSUME SessionOK, Part' = Part, session'.part = session.part,
         session' \in [part : [Part -> Seq(Write)], uploads : Nat, left : Nat,
                       advancing : BOOLEAN],
         session.uploads <= session'.uploads
  PROVE  SessionOK' /\ Extended
BY DEF SessionOK, Extended, Revision

\* What is appended by a submission that the server accepts.
Submitted(p) ==
  [content |-> IF request[p].kind = "save" THEN request[p].content
               ELSE Last(session.part[p]).content,
   mine |-> TRUE]

\* A submission that is sent has the shape of a save or of a mutation.
LEMMA SentShape ==
  ASSUME ConsoleInv, NEW p \in Part, Sent(p) \/ request[p].step = "applied"
  PROVE  /\ request[p] \in SaveRequest \/ (request[p] \in MutateRequest /\ p = "group")
         /\ request[p].revision \in 1..MaxRevision
         /\ request[p].revision <= Revision(p)
<1>1. RequestOK(p, request[p])
  BY DEF ConsoleInv, RequestsOK
<1>2. request[p] \notin {None, Lost, Conflict}
  BY DEF Sent, None, Lost, Conflict
<1> QED
  BY <1>1, <1>2 DEF RequestOK, UnderWay, SaveRequest, MutateRequest

\* What it writes is a write.
LEMMA SubmittedType ==
  ASSUME ConsoleInv, NEW p \in Part, Sent(p)
  PROVE  Submitted(p) \in Write
<1>1. request[p] \in SaveRequest \/ request[p] \in MutateRequest
  BY SentShape
<1>2. CASE request[p] \in SaveRequest
  BY <1>2, ConsoleAssumption DEF SaveRequest, Submitted, Write, Foreign
<1>3. CASE request[p] \in MutateRequest
  <2>1. session.part[p] \in Seq(Write) /\ Len(session.part[p]) \in 1..MaxRevision
    BY DEF ConsoleInv, SessionOK, Revision
  <2>2. Last(session.part[p]) \in Write
    BY <2>1 DEF Last
  <2> QED
    BY <1>3, <2>2 DEF MutateRequest, Submitted, Write
<1> QED
  BY <1>1, <1>2, <1>3

\* A submission is accepted exactly if it has the revision of its part.
LEMMA Served1 ==
  ASSUME ConsoleInv, NEW p \in Part, ServeSubmission(p)
  PROVE  \/ /\ request[p].revision = Revision(p) /\ Revision(p) < MaxRevision
            /\ session' = [session EXCEPT !.part[p] = Append(@, Submitted(p))]
            /\ request' = [request EXCEPT ![p] = [request[p] EXCEPT !.step = "applied"]]
         \/ /\ session' = session
            /\ request' = [request EXCEPT ![p] = Conflict]
BY DEF ServeSubmission, Submitted, Conflict

\* No step loses what was written.
LEMMA SessionGrows ==
  ASSUME ConsoleInv, [ConsoleNext]_consoleVars
  PROVE  SessionOK' /\ Extended
<1>0. Part' = Part
  BY PartsStay
<1>1. SessionOK
  BY DEF ConsoleInv
<1>2. session \in [part : [Part -> Seq(Write)], uploads : Nat, left : Nat, advancing : BOOLEAN]
  BY <1>1 DEF SessionOK
<1>3. CASE session' = session
  BY <1>0, <1>1, <1>2, <1>3, SessionKept
<1>4. CASE FinishUpload
  <2>1. /\ session'.part = session.part /\ session'.uploads = session.uploads + 1
        /\ session' \in [part : [Part -> Seq(Write)], uploads : Nat, left : Nat,
                         advancing : BOOLEAN]
    <3>1. session' = [session EXCEPT !.uploads = session.uploads + 1, !.left = session.left - 1,
                                     !.advancing = TRUE]
      BY <1>4 DEF FinishUpload
    <3>2. session.uploads + 1 \in Nat /\ session.left - 1 \in Nat
      BY <1>2, <1>4 DEF FinishUpload
    <3> QED
      BY <1>2, <3>1, <3>2
  <2>2. session.uploads \in Nat
    BY <1>2
  <2> QED
    BY <1>0, <1>1, <2>1, <2>2, SessionKept
<1>5. CASE ComeToRest
  <2>1. /\ session'.part = session.part /\ session'.uploads = session.uploads
        /\ session' \in [part : [Part -> Seq(Write)], uploads : Nat, left : Nat,
                         advancing : BOOLEAN]
    BY <1>2, <1>5 DEF ComeToRest
  <2> QED
    BY <1>0, <1>1, <1>2, <2>1, SessionKept
<1>6. ASSUME NEW p \in Part, WriteElsewhere(p)
      PROVE  SessionOK' /\ Extended
  <2>1. [content |-> Foreign, mine |-> FALSE] \in Write
    BY ConsoleAssumption DEF Write, Foreign
  <2> QED
    BY <1>0, <1>1, <1>6, <2>1, Appended DEF WriteElsewhere
<1>7. ASSUME NEW p \in Part, ServeSubmission(p)
      PROVE  SessionOK' /\ Extended
  <2>1. CASE session' = session
    BY <2>1, <1>3
  <2>2. CASE Revision(p) < MaxRevision
             /\ session' = [session EXCEPT !.part[p] = Append(@, Submitted(p))]
    <3>1. Sent(p)
      BY <1>7 DEF ServeSubmission
    <3>2. Submitted(p) \in Write
      BY <3>1, SubmittedType
    <3> QED
      BY <1>0, <1>1, <2>2, <3>2, Appended
  <2> QED
    BY <1>7, <2>1, <2>2, Served1
<1>8. CASE ServeSession \/ SessionRead \/ SessionFailed \/ PollDue \/ Leave \/ AcknowledgeConflict
           \/ MutateGroup \/ ProductDraftSaved \/ CurationSaveApplied \/ GroupMutationApplied
  BY <1>8, <1>3 DEF ServeSession, SessionRead, SessionFailed, PollDue, Leave,
     AcknowledgeConflict, MutateGroup, ProductDraftSaved, CurationSaveApplied, GroupMutationApplied
<1>9. ASSUME NEW p \in Part, Edit(p) \/ Reset(p) \/ Save(p) \/ LoseSubmission(p)
                              \/ MutationConflict(p) \/ MutationFailed(p)
      PROVE  SessionOK' /\ Extended
  BY <1>9, <1>3 DEF Edit, Reset, Save, LoseSubmission, MutationConflict, MutationFailed
<1>10. ASSUME NEW i, ServeReread(i) \/ SessionReread(i) \/ RereadFailed(i)
       PROVE  SessionOK' /\ Extended
  BY <1>10, <1>3 DEF ServeReread, SessionReread, RereadFailed
<1>11. CASE UNCHANGED consoleVars
  BY <1>11, <1>3 DEF consoleVars
<1> QED
  BY <1>4, <1>5, <1>6, <1>7, <1>8, <1>9, <1>10, <1>11 DEF ConsoleNext

\* What was read stays something the session has had.
LEMMA ViewStays ==
  ASSUME SessionOK, SessionOK', Extended, NEW view, ViewOK(view)
  PROVE  ViewOK(view)'
<1>1. Part' = Part /\ session.uploads \in Nat /\ session'.uploads \in Nat
      /\ 0..session.uploads \subseteq 0..session'.uploads
  BY DEF SessionOK, Extended
<1>2. \A p \in Part : Revision(p) \in Nat /\ Revision(p)' \in Nat /\ Revision(p) <= Revision(p)'
  BY DEF SessionOK, Extended, Revision
<1>3. \A p \in Part : view.revision[p] \in Nat
  BY DEF ViewOK
<1> QED
  BY <1>1, <1>2, <1>3 DEF ViewOK

\* The same of a read.
LEMMA SyncStays ==
  ASSUME SessionOK, SessionOK', Extended, NEW read, SyncOK(read)
  PROVE  SyncOK(read)'
BY ViewStays DEF SyncOK

\* What the operator covered stays covered.
LEMMA CoveredStays ==
  ASSUME SessionOK, SessionOK', Extended, NEW p \in Part, NEW base \in Nat,
         NEW revision \in Nat, revision <= Revision(p), Covered(p, base, revision)
  PROVE  Covered(p, base, revision)'
<1>1. Revision(p) \in Nat
  BY DEF SessionOK
<1>2. \A i \in (base + 1)..revision : i \in 1..Revision(p)
  BY <1>1
<1>3. \A i \in (base + 1)..revision : session'.part[p][i] = session.part[p][i]
  BY <1>2 DEF Extended
<1> QED
  BY <1>3 DEF Covered

\* A submission that nobody answers stays what it was.
LEMMA RequestStays ==
  ASSUME SessionOK, SessionOK', Extended, NEW p \in Part, NEW r, RequestOK(p, r),
         Trusted(p)' => Trusted(p)
  PROVE  RequestOK(p, r)'
<1>1. CASE r \in {None, Lost, Conflict}
  BY <1>1 DEF RequestOK, None, Lost, Conflict
<1>2. Revision(p) \in Nat /\ Revision(p)' \in Nat /\ Revision(p) <= Revision(p)'
  BY DEF SessionOK, Extended, Revision
<1>3. ASSUME r.revision \in 1..MaxRevision, UnderWay(p, r)
      PROVE  UnderWay(p, r)' /\ r.revision <= Revision(p)
  <2>1. r.revision <= Revision(p)' /\ r.revision <= Revision(p)
    BY <1>2, <1>3 DEF UnderWay
  <2>2. ASSUME r.step = "applied"
        PROVE  r.revision < Revision(p)' /\ session'.part[p][r.revision + 1].mine
    <3>1. r.revision + 1 \in 1..Revision(p)
      BY <2>2, <1>2, <1>3 DEF UnderWay
    <3> QED
      <4>1. session'.part[p][r.revision + 1] = session.part[p][r.revision + 1]
        BY <3>1 DEF Extended
      <4>2. r.revision < Revision(p) /\ session.part[p][r.revision + 1].mine
        BY <2>2, <1>3 DEF UnderWay
      <4> QED
        BY <4>1, <4>2, <1>2, <1>3
  <2> QED
    BY <2>1, <2>2 DEF UnderWay
<1>4. CASE r \in SaveRequest /\ UnderWay(p, r)
           /\ (Trusted(p) => Covered(p, r.base, r.revision))
  <2>1. r.revision \in 1..MaxRevision /\ r.base \in Nat /\ r.revision \in Nat
    BY <1>4 DEF SaveRequest
  <2>2. UnderWay(p, r)' /\ r.revision <= Revision(p)
    BY <1>4, <2>1, <1>3
  <2>3. Trusted(p)' => Covered(p, r.base, r.revision)'
    BY <1>4, <2>1, <2>2, CoveredStays
  <2> QED
    BY <1>4, <2>2, <2>3 DEF RequestOK, SaveRequest
<1>5. CASE r \in MutateRequest /\ UnderWay(p, r) /\ p = "group"
  BY <1>5, <1>3 DEF RequestOK, MutateRequest
<1> QED
  BY <1>1, <1>4, <1>5 DEF RequestOK

\* What a read finds now.
LEMMA ViewIsOK ==
  ASSUME SessionOK
  PROVE  ViewOK(View)
<1>1. /\ session.uploads \in 0..session.uploads /\ session.advancing \in BOOLEAN
      /\ \A p \in Part : session.part[p] \in Seq(Write) /\ Len(session.part[p]) \in 1..MaxRevision
  BY DEF SessionOK, Revision
<1>2. \A p \in Part : Last(session.part[p]).content \in 0..Foreign
  <2>1. \A p \in Part : session.part[p][Len(session.part[p])] \in Write
    BY <1>1
  <2> QED
    BY <2>1 DEF Last, Write
<1>3. [p \in Part |-> Revision(p)] \in [Part -> 1..MaxRevision]
  BY <1>1 DEF Revision
<1>4. \A p \in Part : Revision(p) \in Nat
  BY <1>1 DEF Revision
<1> QED
  BY <1>1, <1>2, <1>3, <1>4 DEF ViewOK, View

Lifecycle(reading) ==
  [running : BOOLEAN, reading : {reading}, timer : BOOLEAN, pending : BOOLEAN, gaveUp : BOOLEAN]

\* A controller that stopped neither reads nor waits for anything.
StopsClean(l) == ~ l.running => l.reading = None /\ ~ l.timer /\ ~ l.pending

\* A refresh begins a read or asks for one.
LEMMA LifecycleMoves ==
  ASSUME NEW l, l \in Lifecycle(l.reading), StopsClean(l)
  PROVE  /\ l.running => /\ Reading(l) \in Lifecycle(Waiting)
                         /\ StopsClean(Reading(l))
                         /\ Drained(l) \in Lifecycle(Drained(l).reading)
                         /\ Drained(l).reading \in {l.reading, Waiting}
                         /\ StopsClean(Drained(l))
BY DEF Lifecycle, StopsClean, Reading, Drained

\* Every read the page waits for brings what the session has had.
LEMMA ReadsStep ==
  ASSUME ConsoleInv, [ConsoleNext]_consoleVars, SessionOK', Extended
  PROVE  ReadsOK'
<1>0. /\ lifecycle \in Lifecycle(lifecycle.reading) /\ StopsClean(lifecycle)
      /\ SyncOK(lifecycle.reading) /\ reads = [i \in 1..MaxReads |-> reads[i]]
      /\ \A i \in 1..MaxReads : SyncOK(reads[i])
      /\ SessionOK
  BY DEF ConsoleInv, ReadsOK, Lifecycle, StopsClean
<1>1. ASSUME NEW r, \/ r \in {None, Waiting, Served(View), lifecycle.reading}
                    \/ \E i \in 1..MaxReads : r = reads[i]
      PROVE  SyncOK(r)'
  <2>1. SyncOK(r)
    BY <1>0, <1>1, ViewIsOK DEF SyncOK, Served
  <2> QED
    BY <1>0, <2>1, SyncStays
<1> DEFINE LifecycleOK ==
             /\ lifecycle' \in Lifecycle(lifecycle'.reading) /\ StopsClean(lifecycle')
             /\ lifecycle'.reading \in {None, Waiting, Served(View), lifecycle.reading}
           RereadsOK ==
             /\ reads' = [i \in 1..MaxReads |-> reads'[i]]
             /\ \A i \in 1..MaxReads : reads'[i] \in {None, Waiting, Served(View), reads[i]}
<1>2. ASSUME LifecycleOK, RereadsOK
      PROVE  ReadsOK'
  <2>1. SyncOK(lifecycle.reading)'
    <3>1. PICK r : r = lifecycle'.reading
      OBVIOUS
    <3>2. SyncOK(r)'
      BY <1>1, <1>2, <3>1
    <3> QED
      BY <3>1, <3>2 DEF SyncOK
  <2>2. ASSUME NEW i \in 1..MaxReads
        PROVE  SyncOK(reads[i])'
    <3>1. PICK r : r = reads'[i]
      OBVIOUS
    <3>2. SyncOK(r)'
      BY <1>1, <1>2, <3>1
    <3> QED
      BY <3>1, <3>2 DEF SyncOK
  <2> QED
    BY <1>2, <2>1, <2>2 DEF ReadsOK, Lifecycle, StopsClean
<1>3. lifecycle' = lifecycle => LifecycleOK
  BY <1>0
<1>4. reads' = reads => RereadsOK
  BY <1>0
<1>5. Reread => RereadsOK
  BY <1>0 DEF Reread
<1>6. ASSUME NEW l \in Lifecycle(None), l.running, lifecycle' = Drained(l)
      PROVE  LifecycleOK
  <2>1. l \in Lifecycle(l.reading) /\ l.reading = None /\ StopsClean(l)
    BY <1>6 DEF Lifecycle, StopsClean
  <2> QED
    BY <1>6, <2>1, LifecycleMoves
<1>7. CASE SessionRead
  <2> DEFINE l == [lifecycle EXCEPT !.reading = None, !.gaveUp = FALSE,
                     !.timer = lifecycle.reading.view.advancing \/ lifecycle.timer]
  <2>1. lifecycle' = Drained(l) /\ reads' = reads
    BY <1>7 DEF SessionRead
  <2>2. lifecycle.running /\ lifecycle.reading.view.advancing \in BOOLEAN
    BY <1>0, <1>7 DEF SessionRead, StopsClean, SyncOK, None, Waiting, ViewOK
  <2>3. l \in Lifecycle(None) /\ l.running
    BY <1>0, <2>2 DEF Lifecycle
  <2> HIDE DEF l
  <2> QED
    BY <2>1, <2>3, <1>2, <1>4, <1>6
<1>8. CASE SessionFailed
  <2>1. PICK retryable \in BOOLEAN :
          lifecycle' = Drained([lifecycle EXCEPT !.reading = None, !.gaveUp = ~ retryable,
                                                 !.timer = retryable \/ lifecycle.timer])
    BY <1>8 DEF SessionFailed
  <2> DEFINE l == [lifecycle EXCEPT !.reading = None, !.gaveUp = ~ retryable,
                                    !.timer = retryable \/ lifecycle.timer]
  <2>2. lifecycle.running /\ reads' = reads
    BY <1>0, <1>8 DEF SessionFailed, StopsClean
  <2>3. l \in Lifecycle(None) /\ l.running
    BY <1>0, <2>2 DEF Lifecycle
  <2>4. lifecycle' = Drained(l)
    BY <2>1
  <2> HIDE DEF l
  <2> QED
    BY <2>2, <2>3, <2>4, <1>2, <1>4, <1>6
<1>9. CASE ServeSession
  <2>1. LifecycleOK /\ reads' = reads
    BY <1>0, <1>9 DEF ServeSession, Lifecycle, StopsClean, None, Waiting, Served
  <2> QED
    BY <2>1, <1>2, <1>4
<1>10. CASE PollDue
  <2>1. LifecycleOK /\ reads' = reads
    BY <1>0, <1>10 DEF PollDue, Reading, Lifecycle, StopsClean, None, Waiting
  <2> QED
    BY <2>1, <1>2, <1>4
<1>11. CASE FinishUpload
  <2>1. LifecycleOK /\ reads' = reads
    BY <1>0, <1>11 DEF FinishUpload, Refreshed, Reading, Lifecycle, StopsClean, None, Waiting
  <2> QED
    BY <2>1, <1>2, <1>4
<1>12. CASE Leave
  <2>1. LifecycleOK /\ RereadsOK
    BY <1>0, <1>12 DEF Leave, Lifecycle, StopsClean
  <2> QED
    BY <2>1, <1>2
<1>13. CASE AcknowledgeConflict \/ MutateGroup \/ ComeToRest \/ ProductDraftSaved
            \/ CurationSaveApplied \/ UNCHANGED consoleVars
  BY <1>13, <1>2, <1>3, <1>4 DEF AcknowledgeConflict, MutateGroup, ComeToRest,
     ProductDraftSaved, CurationSaveApplied, consoleVars
<1>14. CASE GroupMutationApplied
  BY <1>14, <1>2, <1>3, <1>5 DEF GroupMutationApplied
<1>15. ASSUME NEW p \in Part, Edit(p) \/ Reset(p) \/ Save(p) \/ ServeSubmission(p)
                     \/ LoseSubmission(p) \/ WriteElsewhere(p) \/ MutationFailed(p)
       PROVE  ReadsOK'
  BY <1>15, <1>2, <1>3, <1>4 DEF Edit, Reset, Save, ServeSubmission, LoseSubmission,
     WriteElsewhere, MutationFailed
<1>16. ASSUME NEW p \in Part, MutationConflict(p)
       PROVE  ReadsOK'
  BY <1>16, <1>2, <1>3, <1>5 DEF MutationConflict
<1>17. ASSUME NEW i \in 1..MaxReads, ServeReread(i) \/ SessionReread(i) \/ RereadFailed(i)
       PROVE  ReadsOK'
  <2>1. lifecycle' = lifecycle
    BY <1>17 DEF ServeReread, SessionReread, RereadFailed
  <2>2. RereadsOK
    BY <1>0, <1>17 DEF ServeReread, SessionReread, RereadFailed
  <2> QED
    BY <2>1, <2>2, <1>2, <1>3
<1> QED
  BY <1>7, <1>8, <1>9, <1>10, <1>11, <1>12, <1>13, <1>14, <1>15, <1>16, <1>17 DEF ConsoleNext
-----------------------------------------------------------------------------
(* The page and the submissions.                                           *)

\* What else the invariant says of the request of a part.
LEMMA RequestShape ==
  ASSUME ConsoleInv, NEW p \in Part
  PROVE  /\ request[p] \in {None, Lost, Conflict} \cup SaveRequest \cup MutateRequest
         /\ request[p] \in MutateRequest => p = "group"
BY DEF ConsoleInv, RequestsOK, RequestOK, SaveRequest, MutateRequest, None, Lost, Conflict

\* The part and the history of a step.
LEMMA TrustStays ==
  ASSUME ConsoleInv, [ConsoleNext]_consoleVars, NEW p
  PROVE  /\ overtaken' \in BOOLEAN
         /\ overtaken => overtaken'
         /\ Trusted(p)' => Trusted(p)
<1>1. overtaken \in BOOLEAN
  BY DEF ConsoleInv, PageOK
<1>2. overtaken' \in BOOLEAN /\ (overtaken => overtaken')
  <2>1. CASE overtaken' = overtaken
    BY <1>1, <2>1
  <2>2. ASSUME NEW view, SyncSession(view)
        PROVE  overtaken' \in BOOLEAN /\ (overtaken => overtaken')
    BY <1>1, <2>2 DEF SyncSession
  <2>3. CASE SessionRead
    BY <2>3, <2>2 DEF SessionRead
  <2>4. ASSUME NEW i, SessionReread(i)
        PROVE  overtaken' \in BOOLEAN /\ (overtaken => overtaken')
    BY <2>4, <2>2 DEF SessionReread
  <2>5. CASE ServeSession \/ SessionFailed \/ PollDue \/ FinishUpload \/ Leave
             \/ AcknowledgeConflict \/ MutateGroup \/ ComeToRest \/ ProductDraftSaved
             \/ CurationSaveApplied \/ GroupMutationApplied \/ UNCHANGED consoleVars
    BY <2>5, <2>1 DEF ServeSession, SessionFailed, PollDue, FinishUpload, Leave,
       AcknowledgeConflict, MutateGroup, ComeToRest, ProductDraftSaved, CurationSaveApplied,
       GroupMutationApplied, consoleVars, history
  <2>6. ASSUME NEW q, Edit(q) \/ Reset(q) \/ Save(q) \/ ServeSubmission(q)
                      \/ LoseSubmission(q) \/ WriteElsewhere(q) \/ MutationConflict(q)
                      \/ MutationFailed(q)
        PROVE  overtaken' \in BOOLEAN /\ (overtaken => overtaken')
    BY <2>6, <2>1 DEF Edit, Reset, Save, ServeSubmission, LoseSubmission, WriteElsewhere,
       MutationConflict, MutationFailed, history
  <2>7. ASSUME NEW i, ServeReread(i) \/ RereadFailed(i)
        PROVE  overtaken' \in BOOLEAN /\ (overtaken => overtaken')
    BY <2>7, <2>1 DEF ServeReread, RereadFailed, history
  <2> QED
    BY <2>3, <2>4, <2>5, <2>6, <2>7 DEF ConsoleNext
<1> QED
  BY <1>2 DEF Trusted

\* A submission that is begun carries the revision that is shown.
LEMMA BegunIsOK ==
  ASSUME ConsoleInv, NEW p \in Part, MaySubmit(p)
  PROVE  /\ shown.revision[p] \in 1..MaxRevision
         /\ shown.revision[p] <= Revision(p)
BY DEF ConsoleInv, PageOK, MaySubmit, CanOperate

\* Only Save and MutateGroup begin a submission and only ServeSubmission applies one.
LEMMA RequestsStep ==
  ASSUME ConsoleInv, [ConsoleNext]_consoleVars, SessionOK', Extended
  PROVE  RequestsOK'
<1>1. /\ SessionOK /\ Part' = Part /\ request = [p \in Part |-> request[p]]
      /\ \A p \in Part : RequestOK(p, request[p])
      /\ MaxRevision \in Nat
  BY ConsoleAssumption DEF ConsoleInv, RequestsOK, Extended
<1>2. ASSUME NEW p \in Part, NEW r, RequestOK(p, r)
      PROVE  RequestOK(p, r)'
  BY <1>1, <1>2, TrustStays, RequestStays
<1> DEFINE Ok(p) == \E r : r = request'[p] /\ RequestOK(p, r)'
<1>3. ASSUME request' = [p \in Part |-> request'[p]], \A p \in Part : Ok(p)
      PROVE  RequestsOK'
  <2>1. ASSUME NEW p \in Part
        PROVE  RequestOK(p, request[p])'
    <3>1. PICK r : r = request'[p] /\ RequestOK(p, r)'
      BY <1>3
    <3> QED
      BY <3>1 DEF RequestOK, UnderWay
  <2> QED
    BY <1>1, <1>3, <2>1 DEF RequestsOK
<1>4. CASE request' = request
  <2>1. \A p \in Part : Ok(p)
    BY <1>1, <1>2, <1>4
  <2> QED
    BY <1>1, <1>3, <1>4, <2>1
<1>5. ASSUME NEW p \in Part, NEW r, RequestOK(p, r)', request' = [request EXCEPT ![p] = r]
      PROVE  RequestsOK'
  <2>1. \A q \in Part : Ok(q)
    BY <1>1, <1>2, <1>5
  <2> QED
    BY <1>1, <1>3, <1>5, <2>1
<1>6. ASSUME NEW p \in Part, NEW r \in {None, Lost, Conflict}, request' = [request EXCEPT ![p] = r]
      PROVE  RequestsOK'
  <2>1. RequestOK(p, r)
    BY DEF RequestOK
  <2> QED
    BY <2>1, <1>2, <1>5, <1>6
<1>7. ASSUME NEW p \in Part, Save(p)
      PROVE  RequestsOK'
  <2> DEFINE r == [step |-> "sent", kind |-> "save", content |-> form[p].typed,
                   revision |-> shown.revision[p], base |-> form[p].base]
  <2>1. /\ shown.revision[p] \in 1..MaxRevision /\ shown.revision[p] <= Revision(p)
        /\ p \notin stale /\ Dirty(form[p])
    BY <1>7, BegunIsOK DEF Save, MaySubmit
  <2>2. form[p].typed \in 0..MaxTyped /\ form[p].base \in 1..MaxRevision
    BY <2>1, ConsoleAssumption DEF ConsoleInv, PageOK, Form
  <2>3. Trusted(p) => Covered(p, form[p].base, shown.revision[p])
    BY <2>1 DEF ConsoleInv, MarksHold
  <2>4. r \in SaveRequest /\ r.step = "sent" /\ r.revision = shown.revision[p] /\ r.base = form[p].base
    BY <2>1, <2>2 DEF SaveRequest
  <2>5. request' = [request EXCEPT ![p] = r]
    BY <1>7 DEF Save
  <2> HIDE DEF r
  <2>6. RequestOK(p, r)
    BY <2>1, <2>3, <2>4 DEF RequestOK, UnderWay
  <2> QED
    BY <2>5, <2>6, <1>2, <1>5
<1>8. CASE MutateGroup
  <2> DEFINE r == [step |-> "sent", kind |-> "mutate", revision |-> shown.revision["group"]]
  <2>1. /\ "group" \in Part
        /\ shown.revision["group"] \in 1..MaxRevision
        /\ shown.revision["group"] <= Revision("group")
    BY <1>8, BegunIsOK DEF MutateGroup
  <2>2. r \in MutateRequest /\ r.step = "sent" /\ r.revision = shown.revision["group"]
    BY <2>1 DEF MutateRequest
  <2>3. request' = [request EXCEPT !["group"] = r]
    BY <1>8 DEF MutateGroup
  <2> HIDE DEF r
  <2>4. RequestOK("group", r)
    BY <2>1, <2>2 DEF RequestOK, UnderWay
  <2> QED
    BY <2>1, <2>3, <2>4, <1>2, <1>5
<1>9. ASSUME NEW p \in Part, ServeSubmission(p)
      PROVE  RequestsOK'
  <2>1. CASE request' = [request EXCEPT ![p] = Conflict]
    BY <1>6, <2>1
  <2>2. CASE /\ request[p].revision = Revision(p) /\ Revision(p) < MaxRevision
             /\ session' = [session EXCEPT !.part[p] = Append(@, Submitted(p))]
             /\ request' = [request EXCEPT ![p] = [request[p] EXCEPT !.step = "applied"]]
    <3> DEFINE r == [request[p] EXCEPT !.step = "applied"]
    <3>1. Sent(p)
      BY <1>9 DEF ServeSubmission
    <3>2. /\ Submitted(p) \in Write /\ Submitted(p).mine
          /\ request[p] \in SaveRequest \/ (request[p] \in MutateRequest /\ p = "group")
          /\ request[p].revision \in 1..MaxRevision
      BY <3>1, SubmittedType, SentShape DEF Submitted
    <3>3. /\ Revision(p)' = Revision(p) + 1
          /\ session'.part[p][Revision(p) + 1].mine
      BY <1>1, <2>2, <3>2, Appended DEF Revision
    <3>4. Revision(p) \in Nat
      BY <1>1 DEF SessionOK
    <3>5. r.revision = request[p].revision /\ r.step = "applied"
      BY <3>2 DEF SaveRequest, MutateRequest
    <3>6. PICK s : s = request[p]
      OBVIOUS
    <3>7. RequestOK(p, s)'
      BY <1>1, <1>2, <3>6
    <3>8. PICK t : t = r
      OBVIOUS
    <3>9. UnderWay(p, t)'
      <4>1. t.revision = Revision(p)
        BY <2>2, <3>5, <3>8
      <4>2. session'.part[p][t.revision + 1].mine
        BY <4>1, <3>3
      <4>3. t.revision < Revision(p)' /\ t.revision <= Revision(p)'
        BY <4>1, <3>3, <3>4
      <4> QED
        BY <4>2, <4>3 DEF UnderWay
    <3>10. CASE request[p] \in SaveRequest
      <4>1. t \in SaveRequest /\ t.base = s.base /\ t.revision = s.revision
        BY <3>6, <3>8, <3>10 DEF SaveRequest
      <4>2. s \notin {None, Lost, Conflict} /\ s \notin MutateRequest
        BY <3>6, <3>10 DEF SaveRequest, MutateRequest, None, Lost, Conflict
      <4>3. Trusted(p)' => Covered(p, s.base, s.revision)'
        BY <3>7, <4>2 DEF RequestOK, None, Lost, Conflict, MutateRequest
      <4>4. RequestOK(p, t)'
        BY <3>9, <4>1, <4>3 DEF RequestOK, SaveRequest
      <4> QED
        BY <1>5, <2>2, <3>8, <4>4
    <3>11. CASE request[p] \in MutateRequest /\ p = "group"
      <4>1. t \in MutateRequest
        BY <3>8, <3>11 DEF MutateRequest
      <4>2. RequestOK(p, t)'
        BY <3>9, <3>11, <4>1 DEF RequestOK, MutateRequest
      <4> QED
        BY <1>5, <2>2, <3>8, <4>2
    <3> QED
      BY <3>2, <3>10, <3>11
  <2> QED
    BY <1>9, <2>1, <2>2, Served1
<1>10. CASE Leave
  <2>1. request' = [p \in Part |-> None] /\ \A p \in Part : RequestOK(p, None)
    BY <1>10 DEF Leave, RequestOK
  <2>2. \A p \in Part : RequestOK(p, None)'
    BY <2>1 DEF RequestOK, None
  <2>3. \A p \in Part : Ok(p)
    BY <2>1, <2>2, <1>2
  <2> QED
    BY <1>3, <2>1, <2>3
<1>11. CASE ProductDraftSaved \/ CurationSaveApplied \/ GroupMutationApplied
  BY <1>11, <1>6 DEF ProductDraftSaved, CurationSaveApplied, GroupMutationApplied, Answered
<1>12. ASSUME NEW p \in Part, LoseSubmission(p) \/ MutationConflict(p) \/ MutationFailed(p)
       PROVE  RequestsOK'
  BY <1>12, <1>6 DEF LoseSubmission, MutationConflict, MutationFailed, Answered
<1>13. CASE ServeSession \/ SessionRead \/ SessionFailed \/ PollDue \/ FinishUpload
            \/ AcknowledgeConflict \/ ComeToRest \/ UNCHANGED consoleVars
  BY <1>13, <1>4 DEF ServeSession, SessionRead, SessionFailed, PollDue, FinishUpload,
     AcknowledgeConflict, ComeToRest, consoleVars
<1>14. ASSUME NEW p \in Part, Edit(p) \/ Reset(p) \/ WriteElsewhere(p)
       PROVE  RequestsOK'
  BY <1>14, <1>4 DEF Edit, Reset, WriteElsewhere
<1>15. ASSUME NEW i, ServeReread(i) \/ SessionReread(i) \/ RereadFailed(i)
       PROVE  RequestsOK'
  BY <1>15, <1>4 DEF ServeReread, SessionReread, RereadFailed
<1> QED
  BY <1>7, <1>8, <1>9, <1>10, <1>11, <1>12, <1>13, <1>14, <1>15 DEF ConsoleNext
-----------------------------------------------------------------------------
\* A form and what is shown of its part.
FormOK(p, f, revision) ==
  /\ f \in Form /\ revision \in 0..MaxRevision /\ revision <= Revision(p)
  /\ Loaded => revision >= 1
  /\ Dirty(f) => f.typed <= MaxTyped /\ f.base >= 1 /\ revision >= 1

\* What the invariant says of the page, part by part.
LEMMA PartFacts ==
  ASSUME ConsoleInv
  PROVE  /\ Part \subseteq {"group", "draft"}
         /\ DOMAIN shown.revision = Part
         /\ shown = [revision |-> shown.revision, uploads |-> shown.uploads,
                     advancing |-> shown.advancing]
         /\ shown.uploads \in Int /\ shown.advancing \in BOOLEAN
         /\ form = [p \in Part |-> form[p]]
         /\ shown.revision = [p \in Part |-> shown.revision[p]]
         /\ \A p \in Part : FormOK(p, form[p], shown.revision[p])
         /\ stale \subseteq Part /\ \A p \in stale : Dirty(form[p])
         /\ blocked \in BOOLEAN /\ overtaken \in BOOLEAN /\ typed \in 0..MaxTyped
<1>1. PageOK
  BY DEF ConsoleInv
<1>2. shown \in [revision : [Part -> 0..MaxRevision], uploads : Int, advancing : BOOLEAN]
  BY <1>1 DEF PageOK
<1>3. form \in [Part -> Form]
  BY <1>1 DEF PageOK
<1>4. \A p \in Part : FormOK(p, form[p], shown.revision[p])
  BY <1>1, <1>2, <1>3 DEF PageOK, FormOK
<1>5. stale \subseteq Part /\ \A p \in stale : Dirty(form[p])
  BY <1>1 DEF PageOK
<1>6. /\ Part \subseteq {"group", "draft"} /\ blocked \in BOOLEAN /\ overtaken \in BOOLEAN
      /\ typed \in 0..MaxTyped
  BY <1>1 DEF PageOK
<1> QED
  BY <1>2, <1>3, <1>4, <1>5, <1>6

\* A page that is left alone.
LEMMA PageKept ==
  ASSUME ConsoleInv, SessionOK', Extended, overtaken' \in BOOLEAN,
         UNCHANGED <<shown, form, stale, typed>>, blocked' \in BOOLEAN
  PROVE  PageOK'
<1>1. Part' = Part /\ \A p \in Part : Revision(p) \in Nat /\ Revision(p)' \in Nat
                                      /\ Revision(p) <= Revision(p)'
  BY DEF ConsoleInv, SessionOK, Extended, Revision
<1>2. shown' = shown /\ form' = form /\ stale' = stale /\ typed' = typed
  OBVIOUS
<1>3. Loaded' <=> Loaded
  BY <1>2 DEF Loaded
<1>4. PageOK
  BY DEF ConsoleInv
<1>5. \A p \in Part : shown.revision[p] \in 0..MaxRevision
  BY <1>4 DEF PageOK
<1>6. \A p \in Part : shown.revision[p] <= Revision(p)'
  BY <1>1, <1>4, <1>5 DEF PageOK
<1> QED
  BY <1>1, <1>2, <1>3, <1>4, <1>6 DEF PageOK

\* Its marks.
LEMMA MarksKept ==
  ASSUME ConsoleInv, SessionOK', Extended, overtaken => overtaken',
         UNCHANGED <<shown, form, stale>>
  PROVE  MarksHold'
<1>1. form' = form /\ stale' = stale /\ shown' = shown
  OBVIOUS
<1>2. Part' = Part
  BY DEF Extended
<1> SUFFICES ASSUME NEW p \in Part, Dirty(form[p]), p \notin stale, Trusted(p)'
             PROVE  Covered(p, form[p].base, shown.revision[p])'
  BY <1>1, <1>2 DEF MarksHold
<1>3. Covered(p, form[p].base, shown.revision[p])
  BY DEF ConsoleInv, MarksHold, Trusted
<1>4. form[p].base \in Nat /\ shown.revision[p] \in Nat /\ shown.revision[p] <= Revision(p)
  BY DEF ConsoleInv, PageOK, Form
<1>5. PICK b : b = form[p].base
  OBVIOUS
<1>6. PICK n : n = shown.revision[p]
  OBVIOUS
<1>7. Covered(p, b, n)'
  BY <1>3, <1>4, <1>5, <1>6, CoveredStays DEF ConsoleInv
<1> QED
  BY <1>1, <1>5, <1>6, <1>7 DEF Covered

\* A mutation that was under way before and the page that was left alone.
LEMMA MutationKept ==
  ASSUME ConsoleInv, SessionOK', Extended, overtaken => overtaken',
         UNCHANGED <<shown, form>>,
         Mutating' => Mutating /\ request'["group"].revision = request["group"].revision
  PROVE  MutationHolds'
<1> SUFFICES ASSUME Mutating', ~ overtaken'
             PROVE  /\ request'["group"].revision <= shown'["revision"]["group"]
                    /\ Dirty(form'["group"]) =>
                         Covered("group", form["group"].base, request["group"].revision)'
  BY DEF MutationHolds
<1>1. /\ Mutating /\ ~ overtaken /\ "group" \in Part
      /\ request'["group"].revision = request["group"].revision
  BY DEF Mutating
<1>2. /\ request["group"].revision <= shown.revision["group"]
      /\ Dirty(form["group"]) =>
           Covered("group", form["group"].base, request["group"].revision)
  BY <1>1 DEF ConsoleInv, MutationHolds
<1>3. request["group"].revision \in Nat /\ request["group"].revision <= Revision("group")
  BY <1>1, SentShape DEF Mutating, Sent
<1>4. form["group"].base \in Nat
  BY <1>1 DEF ConsoleInv, PageOK, Form
<1>5. PICK b : b = form["group"].base
  OBVIOUS
<1>6. PICK n : n = request["group"].revision
  OBVIOUS
<1>7. Dirty(form["group"]) => Covered("group", b, n)'
  BY <1>1, <1>2, <1>3, <1>4, <1>5, <1>6, CoveredStays DEF ConsoleInv
<1> QED
  BY <1>1, <1>2, <1>5, <1>6, <1>7 DEF Covered
-----------------------------------------------------------------------------
\* A part of the page after a step that leaves the session and the history alone.
LEMMA PageChanged ==
  ASSUME ConsoleInv, SessionOK', Extended, session' = session, overtaken' \in BOOLEAN,
         DOMAIN shown'.revision = Part,
         shown' = [revision |-> shown'.revision, uploads |-> shown'.uploads,
                   advancing |-> shown'.advancing],
         shown'.uploads \in Int, shown'.advancing \in BOOLEAN,
         form' = [p \in Part |-> form'[p]], shown'.revision = [p \in Part |-> shown'.revision[p]],
         \A p \in Part :
           /\ form'[p] \in Form /\ shown'.revision[p] \in 1..MaxRevision
           /\ shown'.revision[p] <= Revision(p)
           /\ Dirty(form'[p]) => form'[p].typed <= MaxTyped /\ form'[p].base >= 1,
         stale' \subseteq Part, \A p \in stale' : Dirty(form'[p]),
         blocked' \in BOOLEAN, typed' \in 0..MaxTyped
  PROVE  PageOK'
<1>1. Part \subseteq {"group", "draft"} /\ Part' = Part
  BY PartFacts DEF Extended
<1>2. \A p \in Part : Revision(p)' = Revision(p)
  BY DEF Revision
<1>3. shown'.revision \in [Part -> 0..MaxRevision]
  OBVIOUS
<1>4. form' \in [Part -> Form]
  OBVIOUS
<1>5. shown' \in [revision : [Part -> 0..MaxRevision], uploads : Int, advancing : BOOLEAN]
  BY <1>3
<1>6. stale' \subseteq {p \in Part : Dirty(form'[p])}
  OBVIOUS
<1>7. \A p \in Part : shown'.revision[p] >= 1
  BY ConsoleAssumption
<1> QED
  BY <1>1, <1>2, <1>4, <1>5, <1>6, <1>7 DEF PageOK, Dirty

\* syncSession: unsaved work is marked exactly if it is based on another revision.
LEMMA SyncStep ==
  ASSUME ConsoleInv, SessionOK', Extended, overtaken' \in BOOLEAN,
         NEW view, ViewOK(view), SyncSession(view),
         UNCHANGED <<session, request, typed>>
  PROVE  PageOK' /\ MarksHold' /\ MutationHolds'
<1>1. /\ view.revision \in [Part -> 1..MaxRevision] /\ view.content \in [Part -> 0..Foreign]
      /\ view.uploads \in Int /\ view.advancing \in BOOLEAN
      /\ \A p \in Part : view.revision[p] <= Revision(p)
  BY DEF ViewOK, ConsoleInv, SessionOK
<1>2. /\ shown' = [revision |-> view.revision, uploads |-> view.uploads,
                   advancing |-> view.advancing]
      /\ form' = Seeded(view) /\ stale' = StaleParts(form', view.revision)
      /\ blocked' = blocked
      /\ overtaken' = (\/ overtaken
                       \/ Mutating /\ view.revision["group"] < request["group"].revision)
  BY DEF SyncSession
<1>3. Part' = Part
  BY DEF Extended
<1>4. \A p \in Part : FormOK(p, form[p], shown.revision[p]) /\ form[p] \in Form
  BY PartFacts DEF FormOK
<1>5. \A p \in Part :
        form'[p] = IF Dirty(form[p]) THEN form[p]
                   ELSE [typed |-> view.content[p], saved |-> view.content[p],
                         base |-> view.revision[p]]
  BY <1>2 DEF Seeded
<1>6. \A p \in Part : Dirty(form'[p]) => Dirty(form[p]) /\ form'[p] = form[p]
  <2> SUFFICES ASSUME NEW p \in Part, Dirty(form'[p])
               PROVE  Dirty(form[p]) /\ form'[p] = form[p]
    OBVIOUS
  <2>1. CASE Dirty(form[p])
    BY <1>5, <2>1
  <2>2. CASE ~ Dirty(form[p])
    <3>1. form'[p] = [typed |-> view.content[p], saved |-> view.content[p],
                      base |-> view.revision[p]]
      BY <1>5, <2>2
    <3>2. form'[p].typed = form'[p].saved
      BY <3>1
    <3> QED
      BY <3>2 DEF Dirty
  <2> QED
    BY <2>1, <2>2
<1>7. \A p \in Part : form'[p] \in Form
  <2> SUFFICES ASSUME NEW p \in Part
               PROVE  form'[p] \in Form
    OBVIOUS
  <2>1. [typed |-> view.content[p], saved |-> view.content[p], base |-> view.revision[p]] \in Form
    BY <1>1, ConsoleAssumption DEF Form
  <2> QED
    BY <1>4, <1>5, <2>1
<1>8. form' = [p \in Part |-> form'[p]]
  BY <1>2 DEF Seeded
<1>9. stale' = {p \in Part : Dirty(form'[p]) /\ form'[p].base # view.revision[p]}
  BY <1>2 DEF StaleParts
<1>10. PageOK'
  <2>1. /\ DOMAIN shown'.revision = Part /\ shown'.revision = view.revision
        /\ shown'.uploads \in Int /\ shown'.advancing \in BOOLEAN
        /\ shown'.revision = [p \in Part |-> shown'.revision[p]]
        /\ shown' = [revision |-> shown'.revision, uploads |-> shown'.uploads,
                     advancing |-> shown'.advancing]
    BY <1>1, <1>2
  <2>2. \A p \in Part : Dirty(form'[p]) => form'[p].typed <= MaxTyped /\ form'[p].base >= 1
    BY <1>4, <1>6 DEF FormOK
  <2>3. stale' \subseteq Part /\ \A p \in stale' : Dirty(form'[p])
    BY <1>9
  <2>4. blocked' \in BOOLEAN /\ typed' \in 0..MaxTyped
    BY <1>2, PartFacts
  <2>5. \A p \in Part : /\ form'[p] \in Form /\ shown'.revision[p] \in 1..MaxRevision
                        /\ shown'.revision[p] <= Revision(p)
    BY <1>1, <1>7, <2>1
  <2>6. \A p \in Part : /\ form'[p] \in Form /\ shown'.revision[p] \in 1..MaxRevision
                        /\ shown'.revision[p] <= Revision(p)
                        /\ Dirty(form'[p]) => form'[p].typed <= MaxTyped /\ form'[p].base >= 1
    BY <2>2, <2>5
  <2> QED
    BY <1>8, <2>1, <2>3, <2>4, <2>6, PageChanged
<1>11. MarksHold'
  <2> SUFFICES ASSUME NEW p \in Part, Dirty(form'[p]), p \notin stale'
               PROVE  Covered(p, form[p].base, shown.revision[p])'
    BY <1>3 DEF MarksHold, Dirty
  <2>1. form'[p].base = shown'.revision[p]
    BY <1>2, <1>9
  <2>2. shown'.revision[p] \in Nat
    BY <1>1, <1>2
  <2> QED
    BY <2>1, <2>2 DEF Covered
<1>12. MutationHolds'
  <2> SUFFICES ASSUME Mutating', ~ overtaken'
               PROVE  /\ request["group"].revision <= shown'.revision["group"]
                      /\ Dirty(form'["group"]) =>
                           Covered("group", form["group"].base, request["group"].revision)'
    BY DEF MutationHolds, Dirty
  <2>1. /\ Mutating /\ "group" \in Part /\ ~ overtaken
        /\ ~ (view.revision["group"] < request["group"].revision)
    BY <1>2, <1>3 DEF Mutating
  <2>2. request["group"].revision \in Nat /\ view.revision["group"] \in Nat
    BY <1>1, <2>1, SentShape DEF Mutating, Sent
  <2>3. request["group"].revision <= shown'.revision["group"]
    BY <1>2, <2>1, <2>2
  <2>4. Dirty(form'["group"]) => Covered("group", form["group"].base, request["group"].revision)
    BY <1>6, <2>1 DEF ConsoleInv, MutationHolds
  <2>5. Dirty(form'["group"]) =>
          Covered("group", form["group"].base, request["group"].revision)'
    BY <1>6, <2>1, <2>4 DEF Covered
  <2> QED
    BY <2>3, <2>5
<1> QED
  BY <1>10, <1>11, <1>12

\* The form of one part changes to f, and what is shown of the part to n.
FormBecomes(p, f, n) ==
  /\ session' = session /\ overtaken' = overtaken
  /\ form' = [form EXCEPT ![p] = f] /\ shown' = [shown EXCEPT !.revision[p] = n]
  /\ f \in Form /\ n \in 1..MaxRevision /\ n <= Revision(p)
  /\ Dirty(f) => f.typed <= MaxTyped /\ f.base >= 1
  /\ stale' \subseteq Part /\ \A q \in stale' : Dirty(form'[q])
  /\ blocked' \in BOOLEAN
  /\ typed' \in 0..MaxTyped

\* The page after such a step.
LEMMA FormChanged ==
  ASSUME ConsoleInv, SessionOK', Extended, NEW p \in Part, NEW f, NEW n, FormBecomes(p, f, n)
  PROVE  /\ PageOK'
         /\ \A q \in Part : /\ form'[q] = IF q = p THEN f ELSE form[q]
                            /\ shown'.revision[q] = IF q = p THEN n ELSE shown.revision[q]
<1>0. /\ session' = session /\ overtaken' = overtaken
      /\ form' = [form EXCEPT ![p] = f] /\ shown' = [shown EXCEPT !.revision[p] = n]
      /\ f \in Form /\ n \in 1..MaxRevision /\ n \in 0..MaxRevision /\ n >= 1 /\ n <= Revision(p)
      /\ Dirty(f) => f.typed <= MaxTyped /\ f.base >= 1
      /\ stale' \subseteq Part /\ \A q \in stale' : Dirty(form'[q])
      /\ blocked' \in BOOLEAN /\ typed' \in 0..MaxTyped
  BY DEF FormBecomes
<1>1. /\ Part \subseteq {"group", "draft"} /\ Part' = Part
      /\ form \in [Part -> Form] /\ overtaken' \in BOOLEAN
      /\ shown \in [revision : [Part -> 0..MaxRevision], uploads : Int, advancing : BOOLEAN]
  BY <1>0 DEF Extended, ConsoleInv, PageOK
<1>2. form' \in [Part -> Form] /\ \A q \in Part : form'[q] = IF q = p THEN f ELSE form[q]
  BY <1>0, <1>1
<1>3. /\ shown'.revision = [shown.revision EXCEPT ![p] = n] /\ shown'.uploads = shown.uploads
      /\ shown' \in [revision : [Part -> 0..MaxRevision], uploads : Int, advancing : BOOLEAN]
  BY <1>0, <1>1
<1>4. \A q \in Part : shown'.revision[q] = IF q = p THEN n ELSE shown.revision[q]
  BY <1>1, <1>3
<1>5. \A q \in Part : Revision(q)' = Revision(q)
  BY <1>0 DEF Revision
<1>6. Loaded' <=> Loaded
  BY <1>3 DEF Loaded
<1>7. stale' \subseteq {q \in Part : Dirty(form'[q])}
  BY <1>0
<1>8. ASSUME NEW q \in Part
      PROVE  /\ shown'.revision[q] <= Revision(q)
             /\ Loaded => shown'.revision[q] >= 1
             /\ Dirty(form'[q]) => /\ form'[q].typed <= MaxTyped /\ form'[q].base >= 1
                                   /\ shown'.revision[q] >= 1
  BY <1>0, <1>2, <1>4 DEF ConsoleInv, PageOK
<1>9. PageOK'
  BY <1>0, <1>1, <1>2, <1>3, <1>5, <1>6, <1>7, <1>8 DEF PageOK, Dirty
<1> QED
  BY <1>2, <1>4, <1>9

\* The marks after such a step, if the other parts keep theirs.
LEMMA MarksChanged ==
  ASSUME ConsoleInv, Extended, session' = session, overtaken' = overtaken,
         NEW p \in Part, NEW f, NEW n,
         \A q \in Part : /\ form'[q] = IF q = p THEN f ELSE form[q]
                         /\ shown'.revision[q] = IF q = p THEN n ELSE shown.revision[q],
         Dirty(f) /\ p \notin stale' /\ Trusted(p) => Covered(p, f.base, n),
         \A q \in Part \ {p} :
           q \notin stale' => q \notin stale \/ ~ Dirty(form[q]) \/ form[q].base = shown.revision[q]
  PROVE  MarksHold'
<1> SUFFICES ASSUME NEW q \in Part, Dirty(form'[q]), q \notin stale', Trusted(q)
             PROVE  Covered(q, form[q].base, shown.revision[q])'
  BY DEF MarksHold, Extended, Trusted, Dirty
<1>1. CASE q = p
  <2>1. Covered(p, f.base, n)
    BY <1>1
  <2> QED
    BY <1>1, <2>1 DEF Covered
<1>2. CASE q # p
  <2>1. form'[q] = form[q] /\ shown'.revision[q] = shown.revision[q]
    BY <1>2
  <2>2. Covered(q, form[q].base, shown.revision[q])
    <3>1. CASE q \notin stale
      BY <3>1, <2>1 DEF ConsoleInv, MarksHold
    <3>2. CASE form[q].base = shown.revision[q]
      <4>1. shown.revision[q] \in Nat
        BY DEF ConsoleInv, PageOK
      <4> QED
        BY <3>2, <4>1 DEF Covered
    <3> QED
      BY <1>2, <2>1, <3>1, <3>2
  <2> QED
    BY <2>1, <2>2 DEF Covered
<1> QED
  BY <1>1, <1>2

\* A mutation under way while forms are rebased: nothing is left to hide.
LEMMA MutationRebased ==
  ASSUME ConsoleInv, Extended, session' = session, overtaken' = overtaken,
         request' = request,
         "group" \in Part => /\ shown'.revision["group"] = shown.revision["group"]
                             /\ \/ form'["group"] = form["group"]
                                \/ form'["group"].base = shown.revision["group"]
  PROVE  MutationHolds'
<1> SUFFICES ASSUME Mutating', ~ overtaken'
             PROVE  /\ request["group"].revision <= shown'.revision["group"]
                    /\ Dirty(form'["group"]) =>
                         Covered("group", form["group"].base, request["group"].revision)'
  BY DEF MutationHolds, Dirty
<1>1. Mutating /\ ~ overtaken /\ "group" \in Part
  BY DEF Mutating, Extended
<1>2. /\ request["group"].revision <= shown.revision["group"]
      /\ Dirty(form["group"]) =>
           Covered("group", form["group"].base, request["group"].revision)
  BY <1>1 DEF ConsoleInv, MutationHolds
<1>3. request["group"].revision \in Nat /\ shown.revision["group"] \in Nat
  BY <1>1, SentShape DEF Mutating, Sent, ConsoleInv, PageOK
<1>4. CASE form'["group"] = form["group"]
  BY <1>1, <1>2, <1>4 DEF Covered
<1>5. CASE form'["group"].base = shown.revision["group"]
  BY <1>1, <1>2, <1>3, <1>5 DEF Covered
<1> QED
  BY <1>1, <1>4, <1>5

\* Edit and Reset base the form on what is shown.
LEMMA EditStep ==
  ASSUME ConsoleInv, SessionOK', Extended, NEW p \in Part, Edit(p) \/ Reset(p)
  PROVE  PageOK' /\ MarksHold' /\ MutationHolds'
<1>1. /\ session' = session /\ overtaken' = overtaken /\ shown' = shown /\ request' = request
      /\ blocked' = blocked /\ stale' = stale \ {p} /\ Loaded
  BY DEF Edit, Reset, history, CanOperate
<1>2. /\ form[p] \in Form /\ form \in [Part -> Form] /\ typed \in 0..MaxTyped
      /\ \A q \in stale : Dirty(form[q]) /\ q \in Part
      /\ blocked \in BOOLEAN
      /\ shown.revision[p] \in 1..MaxRevision /\ shown.revision[p] <= Revision(p)
      /\ shown \in [revision : [Part -> 0..MaxRevision], uploads : Int, advancing : BOOLEAN]
      /\ MaxTyped \in Nat /\ MaxRevision \in Nat
  BY <1>1, ConsoleAssumption DEF ConsoleInv, PageOK
<1>3. shown' = [shown EXCEPT !.revision[p] = shown.revision[p]]
  <2>1. [shown.revision EXCEPT ![p] = shown.revision[p]] = shown.revision
    BY <1>2
  <2> QED
    BY <1>1, <1>2, <2>1
<1>4. \E f \in Form : /\ form' = [form EXCEPT ![p] = f] /\ f.base = shown.revision[p]
                      /\ Dirty(f) => f.typed <= MaxTyped
                      /\ typed' \in 0..MaxTyped
  <2>1. CASE Edit(p)
    <3> DEFINE f == [form[p] EXCEPT !.typed = typed + 1, !.base = shown.revision[p]]
    <3>1. f \in Form /\ f.base = shown.revision[p] /\ f.typed = typed + 1
      <4>1. typed + 1 \in 0..Foreign
        BY <1>2 DEF Foreign
      <4>2. form[p] \in [typed : 0..Foreign, saved : 0..Foreign, base : 0..MaxRevision]
        BY <1>2 DEF Form
      <4>3. shown.revision[p] \in 0..MaxRevision
        BY <1>2
      <4> QED
        BY <4>1, <4>2, <4>3 DEF Form
    <3>2. form' = [form EXCEPT ![p] = f]
      BY <1>2, <2>1 DEF Edit
    <3>3. typed' = typed + 1 /\ typed + 1 <= MaxTyped /\ typed' \in 0..MaxTyped
      BY <1>2, <2>1 DEF Edit
    <3> QED
      BY <3>1, <3>2, <3>3
  <2>2. CASE Reset(p)
    <3> DEFINE f == [typed |-> 0, saved |-> 0, base |-> shown.revision[p]]
    <3>1. f \in Form /\ f.base = shown.revision[p] /\ ~ Dirty(f)
      BY <1>2 DEF Form, Foreign, Dirty
    <3>2. form' = [form EXCEPT ![p] = f] /\ typed' = typed
      BY <2>2 DEF Reset
    <3> QED
      BY <1>2, <3>1, <3>2
  <2> QED
    BY <2>1, <2>2
<1>5. PICK f \in Form : /\ form' = [form EXCEPT ![p] = f] /\ f.base = shown.revision[p]
                        /\ Dirty(f) => f.typed <= MaxTyped
                        /\ typed' \in 0..MaxTyped
  BY <1>4
<1>6. \A q \in stale' : Dirty(form'[q]) /\ q \in Part
  BY <1>1, <1>2, <1>5
<1>7. /\ PageOK'
      /\ \A q \in Part :
           /\ form'[q] = IF q = p THEN f ELSE form[q]
           /\ shown'.revision[q] = IF q = p THEN shown.revision[p] ELSE shown.revision[q]
  <2> DEFINE n == shown.revision[p]
  <2>1. n \in 1..MaxRevision /\ n <= Revision(p) /\ f.base >= 1
    BY <1>2, <1>5
  <2>2. FormBecomes(p, f, n)
    BY <1>1, <1>2, <1>3, <1>5, <1>6, <2>1 DEF FormBecomes
  <2> QED
    BY <2>2, FormChanged
<1>8. Covered(p, f.base, shown.revision[p])
  BY <1>2, <1>5 DEF Covered
<1>9. MarksHold'
  BY <1>1, <1>7, <1>8, MarksChanged
<1>10. MutationHolds'
  BY <1>1, <1>5, <1>7, MutationRebased
<1> QED
  BY <1>7, <1>9, <1>10

\* Acknowledging a conflict bases every form on what is shown.
LEMMA AcknowledgeStep ==
  ASSUME ConsoleInv, SessionOK', Extended, AcknowledgeConflict
  PROVE  PageOK' /\ MarksHold' /\ MutationHolds'
<1>1. /\ session' = session /\ overtaken' = overtaken /\ shown' = shown /\ request' = request
      /\ blocked' = FALSE /\ stale' = {} /\ typed' = typed
      /\ form' = [p \in Part |-> [form[p] EXCEPT !.base = shown.revision[p]]]
  BY DEF AcknowledgeConflict, history
<1>2. Part' = Part
  BY DEF Extended
<1>3. PageOK
  BY DEF ConsoleInv
<1>4. ASSUME NEW p \in Part
      PROVE  /\ form'[p] \in Form /\ form'[p].base = shown.revision[p]
             /\ shown.revision[p] \in 0..MaxRevision
             /\ Dirty(form'[p]) => /\ form'[p].typed <= MaxTyped /\ form'[p].base >= 1
                                   /\ shown.revision[p] >= 1
             /\ Revision(p)' = Revision(p)
  <2>1. form[p] \in [typed : 0..Foreign, saved : 0..Foreign, base : 0..MaxRevision]
    BY <1>3 DEF PageOK, Form
  <2>2. shown.revision[p] \in 0..MaxRevision
    BY <1>3 DEF PageOK
  <2>3. form'[p] = [form[p] EXCEPT !.base = shown.revision[p]]
    BY <1>1
  <2>4. /\ form'[p].typed = form[p].typed /\ form'[p].saved = form[p].saved
        /\ form'[p].base = shown.revision[p] /\ form'[p] \in Form
    BY <2>1, <2>2, <2>3 DEF Form
  <2>5. Dirty(form'[p]) => form[p].typed <= MaxTyped /\ shown.revision[p] >= 1
    BY <1>3, <2>4 DEF PageOK, Dirty
  <2> QED
    BY <1>1, <2>2, <2>4, <2>5 DEF Revision
<1>5. form' \in [Part -> Form]
  BY <1>1, <1>4
<1>6. Loaded' <=> Loaded
  BY <1>1 DEF Loaded
<1>7. PageOK'
  <2>1. stale' \subseteq {p \in Part : Dirty(form'[p])} /\ blocked' \in BOOLEAN
    BY <1>1
  <2>2. \A p \in Part : /\ shown.revision[p] <= Revision(p)
                        /\ Loaded => shown.revision[p] >= 1
    BY <1>3 DEF PageOK
  <2> QED
    BY <1>1, <1>2, <1>3, <1>4, <1>5, <1>6, <2>1, <2>2 DEF PageOK, Dirty
<1>8. MarksHold'
  <2> SUFFICES ASSUME NEW p \in Part
               PROVE  Covered(p, form[p].base, shown.revision[p])'
    BY <1>2 DEF MarksHold
  <2>1. form'[p].base = shown'.revision[p] /\ shown'.revision[p] \in Nat
    <3>1. shown.revision[p] \in 0..MaxRevision /\ form'[p].base = shown.revision[p]
      BY <1>4
    <3> QED
      BY <1>1, <3>1, ConsoleAssumption
  <2> QED
    BY <2>1 DEF Covered
<1>9. MutationHolds'
  BY <1>1, <1>4, MutationRebased
<1> QED
  BY <1>7, <1>8, <1>9

\* What an applied submission tells the page: the revision it wrote.
LEMMA AppliedFacts ==
  ASSUME ConsoleInv, NEW p \in Part, request[p].step = "applied"
  PROVE  /\ request[p] \in SaveRequest \/ (request[p] \in MutateRequest /\ p = "group")
         /\ request[p].revision \in Nat /\ request[p].revision + 1 \in 1..MaxRevision
         /\ request[p].revision + 1 <= Revision(p)
         /\ session.part[p][request[p].revision + 1].mine
<1>1. request[p] \in SaveRequest \/ (request[p] \in MutateRequest /\ p = "group")
  BY SentShape
<1>2. RequestOK(p, request[p]) /\ request[p] \notin {None, Lost, Conflict}
  BY DEF ConsoleInv, RequestsOK, None, Lost, Conflict
<1>3. UnderWay(p, request[p])
  BY <1>2 DEF RequestOK
<1>4. request[p].revision \in 1..MaxRevision /\ Revision(p) \in 1..MaxRevision
  BY SentShape DEF ConsoleInv, SessionOK
<1> QED
  BY <1>1, <1>3, <1>4, ConsoleAssumption DEF UnderWay

\* PRODUCT_DRAFT_SAVED leaves a form without unsaved work and marks anew.
LEMMA ProductSavedStep ==
  ASSUME ConsoleInv, SessionOK', Extended, ProductDraftSaved
  PROVE  PageOK' /\ MarksHold' /\ MutationHolds'
<1> DEFINE r == request["group"]
           n == r.revision + 1
           f == [typed |-> r.content, saved |-> r.content, base |-> n]
<1>1. /\ "group" \in Part /\ r.step = "applied" /\ r.kind = "save"
      /\ session' = session /\ overtaken' = overtaken /\ blocked' = blocked /\ typed' = typed
      /\ form' = [form EXCEPT !["group"] = f] /\ shown' = [shown EXCEPT !.revision["group"] = n]
      /\ stale' = StaleParts(form', shown'.revision)
      /\ request' = [request EXCEPT !["group"] = None]
  BY DEF ProductDraftSaved, Answered, history
<1>2. n \in 1..MaxRevision /\ n <= Revision("group") /\ r \in SaveRequest
  BY <1>1, AppliedFacts DEF MutateRequest
<1>3. f \in Form /\ ~ Dirty(f)
  <2>1. r.content \in 0..Foreign
    BY <1>2, ConsoleAssumption DEF SaveRequest, Foreign
  <2> QED
    BY <1>2, <2>1 DEF Form, Dirty
<1>4. /\ stale' = {p \in Part : Dirty(form'[p]) /\ form'[p].base # shown'.revision[p]}
      /\ blocked' \in BOOLEAN /\ typed' \in 0..MaxTyped
  BY <1>1, PartFacts DEF StaleParts
<1>5. "group" \in Part
  BY <1>1
<1> HIDE DEF f, n
<1>6. /\ PageOK'
      /\ \A q \in Part : /\ form'[q] = IF q = "group" THEN f ELSE form[q]
                         /\ shown'.revision[q] = IF q = "group" THEN n ELSE shown.revision[q]
  <2>1. stale' \subseteq Part /\ \A q \in stale' : Dirty(form'[q])
    BY <1>4
  <2>2. FormBecomes("group", f, n)
    BY <1>1, <1>2, <1>3, <1>4, <2>1 DEF FormBecomes
  <2> QED
    BY <1>5, <2>2, FormChanged
<1>7. MarksHold'
  <2>1. \A q \in Part \ {"group"} :
          q \notin stale' => q \notin stale \/ ~ Dirty(form[q]) \/ form[q].base = shown.revision[q]
    BY <1>4, <1>6
  <2>2. session' = session /\ overtaken' = overtaken
    BY <1>1
  <2> HIDE DEF r
  <2> QED
    BY <1>3, <1>5, <1>6, <2>1, <2>2, MarksChanged
<1>8. MutationHolds'
  BY <1>1 DEF MutationHolds, Mutating, None, ConsoleInv, RequestsOK
<1> QED
  BY <1>6, <1>7, <1>8

\* CURATION_SAVE_APPLIED likewise, of the form as it is now.
LEMMA CurationSavedStep ==
  ASSUME ConsoleInv, SessionOK', Extended, CurationSaveApplied
  PROVE  PageOK' /\ MarksHold' /\ MutationHolds'
<1> DEFINE r == request["draft"]
           n == r.revision + 1
           f == [typed |-> form["draft"].typed, saved |-> form["draft"].typed, base |-> n]
<1>1. /\ "draft" \in Part /\ r.step = "applied"
      /\ session' = session /\ overtaken' = overtaken /\ blocked' = blocked /\ typed' = typed
      /\ shown' = [shown EXCEPT !.revision["draft"] = n]
      /\ stale' = (stale \ {"draft"}) \cup (StaleParts(form', shown'.revision) \cap {"draft"})
      /\ request' = [request EXCEPT !["draft"] = None]
  BY DEF CurationSaveApplied, Answered, history
<1>2. form' = [form EXCEPT !["draft"] = f]
  BY <1>1, PartFacts DEF CurationSaveApplied
<1>3. n \in 1..MaxRevision /\ n <= Revision("draft")
  BY <1>1, AppliedFacts
<1>4. f \in Form /\ ~ Dirty(f)
  BY <1>1, <1>3 DEF Form, Dirty, ConsoleInv, PageOK
<1>5. /\ stale \subseteq Part /\ \A q \in stale : Dirty(form[q])
      /\ blocked' \in BOOLEAN /\ typed' \in 0..MaxTyped
      /\ form \in [Part -> Form]
  BY <1>1, PartFacts DEF ConsoleInv, PageOK
<1>6. "draft" \in Part
  BY <1>1
<1> HIDE DEF f, n
<1>7. form'["draft"] = f /\ \A q \in Part \ {"draft"} : form'[q] = form[q]
  BY <1>2, <1>5, <1>6
<1>8. stale' = stale \ {"draft"}
  BY <1>1, <1>4, <1>7 DEF StaleParts
<1>9. stale' \subseteq Part /\ \A q \in stale' : Dirty(form'[q])
  BY <1>5, <1>7, <1>8
<1>10. /\ PageOK'
       /\ \A q \in Part : /\ form'[q] = IF q = "draft" THEN f ELSE form[q]
                          /\ shown'.revision[q] = IF q = "draft" THEN n ELSE shown.revision[q]
  <2>1. FormBecomes("draft", f, n)
    BY <1>1, <1>2, <1>3, <1>4, <1>5, <1>9 DEF FormBecomes
  <2> QED
    BY <1>6, <2>1, FormChanged
<1>11. MarksHold'
  BY <1>1, <1>4, <1>6, <1>8, <1>10, MarksChanged
<1>12. MutationHolds'
  <2>1. "group" \in Part => /\ request'["group"] = request["group"]
                            /\ form'["group"] = form["group"]
                            /\ shown'.revision["group"] = shown.revision["group"]
    BY <1>1, <1>10 DEF ConsoleInv, RequestsOK
  <2>2. Part' = Part
    BY DEF Extended
  <2>3. Mutating' => Mutating
    BY <2>1, <2>2 DEF Mutating
  <2> QED
    BY <1>1, <2>1, <2>3 DEF MutationHolds, Mutating, Covered, ConsoleInv, Dirty
<1> QED
  BY <1>10, <1>11, <1>12

\* GROUP_MUTATION_APPLIED clears the mark and keeps the form: what the form was
\* based on and what the mutation wrote are the operator's own.
LEMMA MutationAppliedStep ==
  ASSUME ConsoleInv, SessionOK', Extended, GroupMutationApplied
  PROVE  PageOK' /\ MarksHold' /\ MutationHolds'
<1> DEFINE r == request["group"]
           n == r.revision + 1
           f == form["group"]
<1>1. /\ "group" \in Part /\ r.step = "applied" /\ r.kind = "mutate"
      /\ session' = session /\ overtaken' = overtaken /\ blocked' = blocked /\ typed' = typed
      /\ form' = form /\ shown' = [shown EXCEPT !.revision["group"] = n]
      /\ stale' = stale \ {"group"}
      /\ request' = [request EXCEPT !["group"] = None]
  BY DEF GroupMutationApplied, Answered, history
<1>2. /\ n \in 1..MaxRevision /\ n <= Revision("group") /\ r.revision \in Nat
      /\ session.part["group"][n].mine
  BY <1>1, AppliedFacts
<1>3. /\ f \in Form /\ form \in [Part -> Form] /\ form' = [form EXCEPT !["group"] = f]
      /\ stale \subseteq Part /\ \A q \in stale : Dirty(form[q])
      /\ blocked' \in BOOLEAN /\ typed' \in 0..MaxTyped
      /\ Dirty(f) => f.typed <= MaxTyped /\ f.base >= 1
      /\ f.base \in Nat
  <2>1. form \in [Part -> Form] /\ f \in Form
    BY <1>1 DEF ConsoleInv, PageOK
  <2>2. form' = [form EXCEPT !["group"] = f]
    BY <1>1, <2>1
  <2>3. stale \subseteq Part /\ \A q \in stale : Dirty(form[q])
    BY PartFacts
  <2>4. Dirty(f) => f.typed <= MaxTyped /\ f.base >= 1
    BY <1>1 DEF ConsoleInv, PageOK
  <2>5. f.base \in Nat
    BY <2>1 DEF Form
  <2> QED
    BY <1>1, <2>1, <2>2, <2>3, <2>4, <2>5, PartFacts
<1>4. Dirty(f) /\ ~ overtaken => Covered("group", f.base, r.revision)
  BY <1>1 DEF ConsoleInv, MutationHolds, Mutating
<1>5. Dirty(f) /\ Trusted("group") => Covered("group", f.base, n)
  BY <1>2, <1>3, <1>4 DEF Covered, Trusted
<1>6. "group" \in Part
  BY <1>1
<1> HIDE DEF f, n
<1>7. /\ PageOK'
      /\ \A q \in Part : /\ form'[q] = IF q = "group" THEN f ELSE form[q]
                         /\ shown'.revision[q] = IF q = "group" THEN n ELSE shown.revision[q]
  <2>1. stale' \subseteq Part /\ \A q \in stale' : Dirty(form'[q])
    BY <1>1, <1>3
  <2>2. FormBecomes("group", f, n)
    BY <1>1, <1>2, <1>3, <2>1 DEF FormBecomes
  <2> QED
    BY <1>6, <2>2, FormChanged
<1>8. MarksHold'
  BY <1>1, <1>5, <1>6, <1>7, MarksChanged
<1>9. MutationHolds'
  BY <1>1 DEF MutationHolds, Mutating, None, ConsoleInv, RequestsOK
<1> QED
  BY <1>7, <1>8, <1>9

\* MutateGroup: what is unsaved then is based on what is the operator's own.
LEMMA MutateStep ==
  ASSUME ConsoleInv, Extended, MutateGroup
  PROVE  MutationHolds'
<1>1. /\ "group" \in Part /\ "group" \notin stale
      /\ session' = session /\ overtaken' = overtaken /\ form' = form /\ shown' = shown
      /\ request' = [request EXCEPT !["group"] =
           [step |-> "sent", kind |-> "mutate", revision |-> shown.revision["group"]]]
  BY DEF MutateGroup, MaySubmit, page, history
<1>2. request'["group"].revision = shown.revision["group"]
  BY <1>1 DEF ConsoleInv, RequestsOK
<1>3. shown.revision["group"] \in Nat
  BY <1>1 DEF ConsoleInv, PageOK
<1>4. Dirty(form["group"]) /\ ~ overtaken =>
        Covered("group", form["group"].base, shown.revision["group"])
  BY <1>1 DEF ConsoleInv, MarksHold, Trusted
<1> QED
  BY <1>1, <1>2, <1>3, <1>4 DEF MutationHolds, Covered, Dirty

\* The page, its marks and the mutation under way, after any step.
LEMMA PageStep ==
  ASSUME ConsoleInv, [ConsoleNext]_consoleVars, SessionOK', Extended
  PROVE  PageOK' /\ MarksHold' /\ MutationHolds'
<1>1. overtaken' \in BOOLEAN /\ (overtaken => overtaken')
  BY TrustStays
<1>2. /\ DOMAIN request = Part /\ blocked \in BOOLEAN /\ Part' = Part
      /\ SyncOK(lifecycle.reading) /\ \A i \in 1..MaxReads : SyncOK(reads[i])
  BY DEF ConsoleInv, RequestsOK, PageOK, ReadsOK, Extended
<1> DEFINE KeepsMutation ==
             Mutating' => Mutating /\ request'["group"].revision = request["group"].revision
<1>3. ASSUME UNCHANGED <<shown, form, stale, typed>>, blocked' \in BOOLEAN, KeepsMutation
      PROVE  PageOK' /\ MarksHold' /\ MutationHolds'
  <2>1. PageOK'
    BY <1>1, <1>3, PageKept
  <2>2. MarksHold'
    BY <1>1, <1>3, MarksKept
  <2>3. MutationHolds'
    BY <1>1, <1>3, MutationKept
  <2> QED
    BY <2>1, <2>2, <2>3
<1>4. request' = request => KeepsMutation
  BY <1>2 DEF Mutating
<1>5. ASSUME NEW p \in Part, NEW r, request' = [request EXCEPT ![p] = r],
             r.step \notin {"sent", "applied"} \/ r.kind # "mutate"
      PROVE  KeepsMutation
  BY <1>2, <1>5 DEF Mutating
<1>6. None.step = "none" /\ Lost.step = "lost" /\ Conflict.step = "conflict"
  BY DEF None, Lost, Conflict
<1>7. ASSUME NEW p \in Part, request' = [request EXCEPT ![p] = None]
                          \/ request' = [request EXCEPT ![p] = Lost]
                          \/ request' = [request EXCEPT ![p] = Conflict]
      PROVE  KeepsMutation
  BY <1>5, <1>6, <1>7
<1>8. CASE ServeSession \/ SessionFailed \/ PollDue \/ FinishUpload \/ ComeToRest
           \/ UNCHANGED consoleVars
  <2>1. UNCHANGED <<shown, form, stale, typed, blocked, request>>
    BY <1>8 DEF ServeSession, SessionFailed, PollDue, FinishUpload, ComeToRest, consoleVars, page
  <2> QED
    BY <2>1, <1>2, <1>3, <1>4
<1>9. ASSUME NEW p \in Part, WriteElsewhere(p)
      PROVE  PageOK' /\ MarksHold' /\ MutationHolds'
  BY <1>9, <1>2, <1>3, <1>4 DEF WriteElsewhere, page
<1>10. ASSUME NEW i, ServeReread(i) \/ RereadFailed(i)
       PROVE  PageOK' /\ MarksHold' /\ MutationHolds'
  BY <1>10, <1>2, <1>3, <1>4 DEF ServeReread, RereadFailed, page
<1>11. CASE Leave
  <2>1. KeepsMutation
    BY <1>2, <1>6, <1>11 DEF Leave, Mutating
  <2> QED
    BY <2>1, <1>2, <1>3, <1>11 DEF Leave, page
<1>12. ASSUME NEW p \in Part, Save(p)
       PROVE  PageOK' /\ MarksHold' /\ MutationHolds'
  <2>1. KeepsMutation
    BY <1>5, <1>12 DEF Save
  <2> QED
    BY <2>1, <1>2, <1>3, <1>12 DEF Save, page
<1>13. ASSUME NEW p \in Part, LoseSubmission(p) \/ MutationFailed(p) \/ MutationConflict(p)
       PROVE  PageOK' /\ MarksHold' /\ MutationHolds'
  <2>1. KeepsMutation
    BY <1>7, <1>13 DEF LoseSubmission, MutationFailed, MutationConflict, Answered
  <2>2. UNCHANGED <<shown, form, stale, typed>> /\ blocked' \in BOOLEAN
    BY <1>2, <1>13 DEF LoseSubmission, MutationFailed, MutationConflict, page
  <2> QED
    BY <2>1, <2>2, <1>3
<1>14. ASSUME NEW p \in Part, ServeSubmission(p)
       PROVE  PageOK' /\ MarksHold' /\ MutationHolds'
  <2>1. KeepsMutation
    <3>1. CASE request' = [request EXCEPT ![p] = Conflict]
      BY <1>7, <3>1
    <3>2. CASE request' = [request EXCEPT ![p] = [request[p] EXCEPT !.step = "applied"]]
      <4>1. request[p].step = "sent"
        BY <1>14 DEF ServeSubmission, Sent
      <4>2. request[p] \in SaveRequest \/ request[p] \in MutateRequest
        BY <4>1, SentShape DEF Sent
      <4>3. /\ request'[p].kind = request[p].kind
            /\ request'[p].revision = request[p].revision
            /\ \A q \in Part \ {p} : request'[q] = request[q]
        BY <1>2, <3>2, <4>2 DEF SaveRequest, MutateRequest
      <4> QED
        BY <1>2, <4>1, <4>3 DEF Mutating
    <3> QED
      BY <1>14, <3>1, <3>2, Served1
  <2> QED
    BY <2>1, <1>2, <1>3, <1>14 DEF ServeSubmission, page
<1>15. CASE MutateGroup
  <2>1. UNCHANGED <<shown, form, stale, typed, blocked>>
    BY <1>15 DEF MutateGroup, page
  <2>2. PageOK' /\ MarksHold'
    BY <1>1, <1>2, <2>1, PageKept, MarksKept
  <2> QED
    BY <1>15, <2>2, MutateStep
<1>16. CASE SessionRead
  <2>1. PICK view : view = lifecycle.reading.view
    OBVIOUS
  <2>2. ViewOK(view) /\ SyncSession(view) /\ UNCHANGED <<session, request, typed>>
    BY <1>2, <1>16, <2>1 DEF SessionRead, SyncOK, None, Waiting
  <2> QED
    BY <1>1, <2>2, SyncStep
<1>17. ASSUME NEW i \in 1..MaxReads, SessionReread(i)
       PROVE  PageOK' /\ MarksHold' /\ MutationHolds'
  <2>1. PICK view : view = reads[i].view
    OBVIOUS
  <2>2. ViewOK(view) /\ SyncSession(view) /\ UNCHANGED <<session, request, typed>>
    BY <1>2, <1>17, <2>1 DEF SessionReread, SyncOK, None, Waiting
  <2> QED
    BY <1>1, <2>2, SyncStep
<1> QED
  BY <1>8, <1>9, <1>10, <1>11, <1>12, <1>13, <1>14, <1>15, <1>16, <1>17, EditStep,
     AcknowledgeStep, ProductSavedStep, CurationSavedStep, MutationAppliedStep DEF ConsoleNext

-----------------------------------------------------------------------------
\* The page before its first read.
LEMMA ConsoleInvInit == ConsoleInit => ConsoleInv
<1> SUFFICES ASSUME ConsoleInit
             PROVE  ConsoleInv
  OBVIOUS
<1>1. PICK work \in Works :
        /\ session = [part |-> [p \in work.parts |-> <<[content |-> 0, mine |-> FALSE]>>],
                      uploads |-> 0, left |-> work.uploads, advancing |-> TRUE]
        /\ shown = [revision |-> [p \in work.parts |-> 0], uploads |-> -1, advancing |-> FALSE]
        /\ form = [p \in work.parts |-> [typed |-> 0, saved |-> 0, base |-> 0]]
        /\ request = [p \in work.parts |-> None]
  BY DEF ConsoleInit
<1>2. work.parts \subseteq {"group", "draft"} /\ work.uploads \in Nat
  BY ConsoleAssumption
<1>3. Part = work.parts
  BY <1>1 DEF Part
<1>4. MaxTyped \in Nat /\ MaxRevision \in Nat \ {0} /\ MaxReads \in Nat \ {0} /\ Foreign \in Nat
  BY ConsoleAssumption DEF Foreign
<1>5. SessionOK
  <2>1. [content |-> 0, mine |-> FALSE] \in Write
    BY <1>4 DEF Write
  <2>2. <<[content |-> 0, mine |-> FALSE]>> \in Seq(Write)
        /\ Len(<<[content |-> 0, mine |-> FALSE]>>) = 1
    BY <2>1
  <2>3. [p \in work.parts |-> <<[content |-> 0, mine |-> FALSE]>>] \in [Part -> Seq(Write)]
    BY <1>3, <2>2
  <2>4. session \in [part : [Part -> Seq(Write)], uploads : Nat, left : Nat, advancing : BOOLEAN]
    BY <1>1, <1>2, <2>3
  <2>5. \A p \in Part : Revision(p) = 1
    BY <1>1, <1>3, <2>2 DEF Revision
  <2> QED
    BY <1>4, <2>4, <2>5 DEF SessionOK
<1>6. ReadsOK
  BY <1>4 DEF ConsoleInit, ReadsOK, SyncOK
<1>7. \A p \in Part : /\ form[p] = [typed |-> 0, saved |-> 0, base |-> 0]
                      /\ shown.revision[p] = 0 /\ ~ Dirty(form[p]) /\ form[p] \in Form
  BY <1>1, <1>3, <1>4 DEF Dirty, Form
<1>8. PageOK
  <2>1. /\ shown \in [revision : [Part -> 0..MaxRevision], uploads : Int, advancing : BOOLEAN]
        /\ shown.uploads = -1
    BY <1>1, <1>3, <1>4
  <2>2. ~ Loaded
    BY <2>1 DEF Loaded
  <2>3. form \in [Part -> Form]
    BY <1>1, <1>3, <1>7
  <2>4. \A p \in Part : shown.revision[p] <= Revision(p)
    BY <1>5, <1>7 DEF SessionOK
  <2>5. stale = {} /\ blocked = FALSE /\ overtaken = FALSE /\ typed = 0
    BY DEF ConsoleInit
  <2>6. /\ stale \subseteq {p \in Part : Dirty(form[p])}
        /\ typed \in 0..MaxTyped
    BY <1>4, <2>5
  <2>8. blocked \in BOOLEAN /\ overtaken \in BOOLEAN
    BY <2>5
  <2>7. Part \subseteq {"group", "draft"}
    BY <1>2, <1>3
  <2> QED
    BY <1>7, <2>1, <2>2, <2>3, <2>4, <2>6, <2>7, <2>8 DEF PageOK
<1>9. RequestsOK
  BY <1>1, <1>3 DEF RequestsOK, RequestOK
<1>10. MarksHold
  BY <1>7 DEF MarksHold
<1>11. MutationHolds
  BY <1>1, <1>3 DEF MutationHolds, Mutating, None
<1> QED
  BY <1>5, <1>6, <1>8, <1>9, <1>10, <1>11 DEF ConsoleInv

\* Every step keeps the invariant of the page.
LEMMA ConsoleInvStep == ConsoleInv /\ [ConsoleNext]_consoleVars => ConsoleInv'
<1> SUFFICES ASSUME ConsoleInv, [ConsoleNext]_consoleVars
             PROVE  ConsoleInv'
  OBVIOUS
<1>1. SessionOK' /\ Extended
  BY SessionGrows
<1>2. ReadsOK'
  BY <1>1, ReadsStep
<1>3. RequestsOK'
  BY <1>1, RequestsStep
<1>4. PageOK' /\ MarksHold' /\ MutationHolds'
  BY <1>1, PageStep
<1> QED
  BY <1>1, <1>2, <1>3, <1>4 DEF ConsoleInv

\* The invariant holds whatever reads, answers and operators do, in any order.
LEMMA ConsoleInvAlways == ConsoleSpec => []ConsoleInv
BY ConsoleInvInit, ConsoleInvStep, PTL DEF ConsoleSpec

\* The page is well formed, and what it waits for is what the server has had.
THEOREM ConsoleTypeAlways == ConsoleSpec => []ConsoleTypeOK
<1>1. ConsoleInv => ConsoleTypeOK
  <2> SUFFICES ASSUME ConsoleInv
               PROVE  ConsoleTypeOK
    OBVIOUS
  <2>1. \A r : SyncOK(r) => r \in Sync
    BY DEF SyncOK, ViewOK, Sync, Served
  <2>2. reads \in [1..MaxReads -> Sync] /\ lifecycle.reading \in Sync
    BY <2>1 DEF ConsoleInv, ReadsOK
  <2>3. request \in [Part -> Submission]
    <3>1. \A p \in Part : request[p] \in {None, Lost, Conflict} \cup SaveRequest \cup MutateRequest
      BY RequestShape
    <3>2. {None, Lost, Conflict} \cup SaveRequest \cup MutateRequest = Submission
      BY DEF Submission, SaveRequest, MutateRequest, Conflict
    <3> QED
      BY <3>1, <3>2 DEF ConsoleInv, RequestsOK
  <2>4. \A p \in Part : Revision(p) \in 1..MaxRevision
    BY DEF ConsoleInv, SessionOK
  <2>5. /\ shown.revision \in [Part -> 0..MaxRevision]
        /\ form \in [Part -> [typed : 0..Foreign, saved : 0..Foreign, base : 0..MaxRevision]]
        /\ stale \subseteq {p \in Part : Dirty(form[p])}
    BY DEF ConsoleInv, PageOK, Form
  <2> QED
    BY <2>2, <2>3, <2>4, <2>5 DEF ConsoleTypeOK, ConsoleInv, ReadsOK
<1> QED
  BY <1>1, ConsoleInvAlways, PTL

\* A save the server accepts overwrites nothing of somebody else that was written
\* after the revision its form is based on: while it is on its way, the invariant
\* says so of its base and its revision, and the server accepts no other revision.
THEOREM SavesAreCovered == ConsoleSpec => SavesCoverSeenWork
<1>1. ConsoleInv /\ [ConsoleNext]_consoleVars =>
        [\A p \in Part :
           (/\ Sent(p) /\ request[p].kind = "save" /\ session'.part[p] # session.part[p]
            /\ Last(session'.part[p]).mine
            /\ p = "group" => ~ overtaken) =>
           \A i \in (request[p].base + 1)..Revision(p) : session.part[p][i].mine]_consoleVars
  <2> SUFFICES ASSUME ConsoleInv, ConsoleNext, NEW p \in Part,
                      Sent(p), request[p].kind = "save", session'.part[p] # session.part[p],
                      Last(session'.part[p]).mine, p = "group" => ~ overtaken
               PROVE  Covered(p, request[p].base, Revision(p))
    BY DEF Covered
  <2>1. session.part \in [Part -> Seq(Write)]
        /\ session \in [part : [Part -> Seq(Write)], uploads : Nat, left : Nat,
                        advancing : BOOLEAN]
        /\ SessionOK
    BY DEF ConsoleInv, SessionOK
  <2>2. ServeSubmission(p) /\ session' # session
    <3>1. session'.part # session.part
      OBVIOUS
    <3>2. ASSUME NEW q \in Part, ServeSubmission(q), q # p
          PROVE  FALSE
      <4>1. session' = session \/ session' = [session EXCEPT !.part[q] = Append(@, Submitted(q))]
        BY <3>2, Served1
      <4>2. session'.part[p] = session.part[p]
        BY <2>1, <3>2, <4>1
      <4> QED
        BY <4>2
    <3>3. ASSUME NEW q \in Part, WriteElsewhere(q)
          PROVE  FALSE
      <4> DEFINE w == [content |-> Foreign, mine |-> FALSE]
      <4>1. w \in Write /\ ~ w.mine
        BY ConsoleAssumption DEF Write, Foreign
      <4>2. session' = [session EXCEPT !.part[q] = Append(@, w)] /\ Revision(q) < MaxRevision
        BY <3>3 DEF WriteElsewhere
      <4> HIDE DEF w
      <4>3. CASE q # p
        BY <2>1, <4>2, <4>3
      <4>4. CASE q = p
        <5>1. Part' = Part
          BY PartsStay
        <5>2. /\ Len(session'.part[p]) = Revision(p) + 1
              /\ session'.part[p][Revision(p) + 1] = w
          BY <2>1, <4>1, <4>2, <4>4, <5>1, Appended
        <5> QED
          BY <4>1, <5>2 DEF Last
      <4> QED
        BY <4>3, <4>4
    <3>4. ~ (FinishUpload \/ ComeToRest)
      BY <2>1, <3>1 DEF FinishUpload, ComeToRest
    <3>5. ~ (ServeSession \/ SessionRead \/ SessionFailed \/ PollDue \/ Leave
             \/ AcknowledgeConflict \/ MutateGroup \/ ProductDraftSaved \/ CurationSaveApplied
             \/ GroupMutationApplied)
      BY <3>1 DEF ServeSession, SessionRead, SessionFailed, PollDue, Leave,
         AcknowledgeConflict, MutateGroup, ProductDraftSaved, CurationSaveApplied,
         GroupMutationApplied
    <3>6. ASSUME NEW q \in Part, Edit(q) \/ Reset(q) \/ Save(q) \/ LoseSubmission(q)
                                  \/ MutationConflict(q) \/ MutationFailed(q)
          PROVE  FALSE
      BY <3>1, <3>6 DEF Edit, Reset, Save, LoseSubmission, MutationConflict, MutationFailed
    <3>7. ASSUME NEW i, ServeReread(i) \/ SessionReread(i) \/ RereadFailed(i)
          PROVE  FALSE
      BY <3>1, <3>7 DEF ServeReread, SessionReread, RereadFailed
    <3> QED
      BY <3>1, <3>2, <3>3, <3>4, <3>5, <3>6, <3>7 DEF ConsoleNext
  <2>3. request[p].revision = Revision(p)
    BY <2>2, Served1
  <2>4. request[p] \in SaveRequest
    BY SentShape DEF MutateRequest
  <2>5. request[p] \notin {None, Lost, Conflict} /\ request[p] \notin MutateRequest
    BY <2>4 DEF SaveRequest, MutateRequest, None, Lost, Conflict
  <2>6. Trusted(p) => Covered(p, request[p].base, request[p].revision)
    BY <2>5 DEF ConsoleInv, RequestsOK, RequestOK
  <2> QED
    BY <2>3, <2>6 DEF Trusted
<1> QED
  BY <1>1, ConsoleInvAlways, PTL DEF ConsoleSpec, SavesCoverSeenWork

=============================================================================
