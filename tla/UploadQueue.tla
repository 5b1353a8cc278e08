---------------------------- MODULE UploadQueue ----------------------------
(***************************************************************************)
(* The upload queue of the import console (createUploadQueue in            *)
(* upload-queue.ts): one manifest registration, then one PUT per file, at  *)
(* most Concurrency of those it counts, with retries and cancellation.     *)
(*                                                                         *)
(* JavaScript runs one callback at a time: an action is a user event, or a *)
(* reply together with every promise continuation it triggers.  What can   *)
(* interleave is what is awaited: registrations and PUTs.  Each run builds *)
(* new row objects, so a PUT of an earlier run changes rows nobody sees,   *)
(* but the counters and the phase of the queue are shared by all runs, and *)
(* a run that starts resets the count, whatever is still in flight.        *)
(***************************************************************************)
EXTENDS Integers, FiniteSets

CONSTANTS
  File,              \* the files of the picked folder
  Concurrency,       \* UPLOAD_CONCURRENCY: 3 in the code
  MaxRuns,           \* bound on runs (start and retryRegistered)
  MaxRetries,        \* bound on clicks on "retry" of a row
  LateDrop,          \* may a dropped folder, walked asynchronously, start a run at any time?
  LateRegistration,  \* may a run start while a cancelled one still awaits its registration?
  LateAbort          \* may a run start before the PUTs that a cancellation aborted have ended?

ASSUME QueueAssumption ==
  /\ IsFiniteSet(File)
  /\ Concurrency \in Nat \ {0}
  /\ {MaxRuns, MaxRetries} \subseteq Nat
  /\ {LateDrop, LateRegistration, LateAbort} \subseteq BOOLEAN

VARIABLES
  phase,        \* the phase the operator sees
  files,        \* the rows of the current run: status, and whether the file id is known
  active,       \* the queue's count of PUTs in flight
  cancelled,    \* was the current run cancelled?
  idle,         \* is a run waiting for the pump to go idle?
  run,          \* runs started so far; the last one owns the rows
  registering,  \* runs whose registerManifest is unanswered
  sends,        \* PUTs that have not ended
  server,       \* asset_source_files of the current run
  retries,      \* clicks on "retry" so far
  uncounted     \* history: PUTs in flight when the last reset of the counter forgot them

queueVars ==
  <<phase, files, active, cancelled, idle, run, registering, sends, server, retries,
    uncounted>>

RunningPhases == {"REGISTERING", "UPLOADING"}

Statuses == {"NONE", "QUEUED", "UPLOADING", "ARCHIVED", "FAILED"}

Send == [run : 1..MaxRuns, file : File, aborted : BOOLEAN]

QueueTypeOK ==
  /\ phase \in RunningPhases \cup {"IDLE", "COMPLETE", "BLOCKED", "FAILED", "CANCELLED"}
  /\ files \in [File -> [status : Statuses, known : BOOLEAN]]
  /\ active \in Int
  /\ {cancelled, idle} \subseteq BOOLEAN
  /\ run \in 0..MaxRuns
  /\ registering \subseteq 1..MaxRuns
  /\ sends \subseteq Send
  /\ server \in [File -> {"ABSENT", "PENDING", "UPLOADING", "ARCHIVED", "FAILED"}]
  /\ retries \in 0..MaxRetries
  /\ uncounted \in Nat

NoRow == [status |-> "NONE", known |-> FALSE]

QueueInit ==
  /\ phase = "IDLE"
  /\ files = [f \in File |-> NoRow]
  /\ active = 0
  /\ cancelled = FALSE
  /\ idle = FALSE
  /\ run = 0
  /\ registering = {}
  /\ sends = {}
  /\ server = [f \in File |-> "ABSENT"]
  /\ retries = 0
  /\ uncounted = 0

FilesWith(rows, status) == {f \in File : rows[f].status = status}

WithStatus(rows, fs, status) ==
  [f \in File |-> IF f \in fs THEN [rows[f] EXCEPT !.status = status] ELSE rows[f]]

Least(m, n) == IF m < n THEN m ELSE n

\* Mutation: the pump launches everything that is queued.
EndlessRoom(count) == Cardinality(File)

\* How many PUTs the pump may add to those it counts.
Room(count) == IF count < Concurrency THEN Concurrency - count ELSE 0

\* Mutation: the run is over when nothing is queued any more.
NothingQueued(rows, count) == FilesWith(rows, "QUEUED") = {}

WentIdle(rows, count) == count = 0 /\ FilesWith(rows, "QUEUED") = {}

\* pump, from the given rows, PUTs, count and phase; "waiting" says whether a
\* run awaits it.  A launched row whose file id is unknown fails on the spot.
\* When the pump goes idle the waiting run continues with finish.
Pump(rows, puts, count, current, waiting) ==
  LET queued == FilesWith(rows, "QUEUED")
      ready  == {f \in queued : rows[f].known}
      lost   == IF Room(count) = 0 THEN {} ELSE queued \ ready
  IN \E fs \in SUBSET ready :
       /\ Cardinality(fs) = Least(Room(count), Cardinality(ready))
       /\ files' = WithStatus(WithStatus(rows, fs, "UPLOADING"), lost, "FAILED")
       /\ sends' = puts \cup {[run |-> run', file |-> f, aborted |-> FALSE] : f \in fs}
       /\ active' = count + Cardinality(fs)
       /\ idle' = (waiting /\ ~WentIdle(files', active'))
       /\ phase' = IF waiting /\ WentIdle(files', active') THEN "COMPLETE" ELSE current

-----------------------------------------------------------------------------
(* Runs *)

\* The console offers a folder picker and a drop zone only outside a run; a
\* dropped directory tree is read asynchronously and starts its run when read.
\* The phase is all it looks at.  An aborted fetch is rejected, and its callbacks
\* are run, before the browser delivers the next event.
CanStart ==
  /\ run < MaxRuns
  /\ \/ LateDrop
     \/ /\ phase \notin RunningPhases
        /\ registering = {} \/ LateRegistration
        /\ LateAbort \/ \A s \in sends : ~s.aborted

\* What start and retryRegistered reset before anything else; the PUTs that are
\* still in flight will be taken off a count they are not part of.
ResetRun ==
  /\ run' = run + 1
  /\ cancelled' = FALSE
  /\ uncounted' = Cardinality(sends)
  /\ UNCHANGED retries

\* start, up to its registerManifest call (which no signal can abort).
Start ==
  /\ CanStart
  /\ ResetRun
  /\ active' = 0
  /\ idle' = FALSE
  /\ files' = [f \in File |-> [status |-> "QUEUED", known |-> FALSE]]
  /\ phase' = "REGISTERING"
  /\ registering' = registering \cup {run'}
  /\ server' = [f \in File |-> "ABSENT"]
  /\ UNCHANGED sends

\* Nothing in the folder can be registered, or nothing matches a retry target.
Blocked ==
  /\ CanStart
  /\ ResetRun
  /\ active' = 0
  /\ idle' = FALSE
  /\ files' = [f \in File |-> NoRow]
  /\ phase' = "BLOCKED"
  /\ UNCHANGED <<registering, sends, server>>

\* retryRegistered: only content is sent again, for files the session reports
\* as PENDING or FAILED.
RetryRegistered(fs) ==
  /\ CanStart
  /\ fs # {}
  /\ \A f \in fs : server[f] \in {"PENDING", "FAILED"}
  /\ ResetRun
  /\ Pump([f \in File |-> IF f \in fs THEN [status |-> "QUEUED", known |-> TRUE] ELSE NoRow],
          sends, 0, "UPLOADING", TRUE)
  /\ UNCHANGED <<registering, server>>

\* retry of one row: it joins the pump of the run, or starts the pump again.
Retry(f) ==
  /\ ~cancelled
  /\ files[f] = [status |-> "FAILED", known |-> TRUE]
  /\ retries < MaxRetries
  /\ retries' = retries + 1
  /\ UNCHANGED run
  /\ Pump(WithStatus(files, {f}, "QUEUED"), sends, active, "UPLOADING", TRUE)
  /\ UNCHANGED <<cancelled, registering, server, uncounted>>

\* Mutation: a cancelled run keeps its phase.
CancelQuietly ==
  /\ ~cancelled
  /\ phase \in RunningPhases
  /\ cancelled' = TRUE
  /\ sends' = {[s EXCEPT !.aborted = @ \/ s.run = run] : s \in sends}
  /\ idle' = FALSE
  /\ UNCHANGED <<phase, files, active, run, registering, server, retries, uncounted>>

\* cancel aborts the PUTs of the current run: those of earlier ones left "live".
Cancel ==
  /\ ~cancelled
  /\ phase \in RunningPhases
  /\ cancelled' = TRUE
  /\ sends' = {[s EXCEPT !.aborted = @ \/ s.run = run] : s \in sends}
  /\ phase' = "CANCELLED"
  /\ idle' = FALSE
  /\ UNCHANGED <<files, active, run, registering, server, retries, uncounted>>

-----------------------------------------------------------------------------
(* Replies *)

\* applyRegistration matches client file ids, and every run makes new ones:
\* the reply of an earlier run finds none of the rows it is applied to.
Registration(r) ==
  LET queued == FilesWith(files, "QUEUED") IN
  IF r = run
    THEN [f \in File |-> IF f \in queued THEN [files[f] EXCEPT !.known = TRUE] ELSE files[f]]
    ELSE WithStatus(files, queued, "FAILED")

\* registerManifest succeeded: the rows change even if the run was cancelled.
RegistrationSucceeds(r) ==
  /\ r \in registering
  /\ registering' = registering \ {r}
  /\ server' = IF r = run THEN [f \in File |-> "PENDING"] ELSE server
  /\ UNCHANGED <<cancelled, run, retries, uncounted>>
  /\ IF cancelled
       THEN files' = Registration(r) /\ UNCHANGED <<phase, active, idle, sends>>
       ELSE Pump(Registration(r), sends, active, "UPLOADING", TRUE)

RegistrationFails(r) ==
  /\ r \in registering
  /\ registering' = registering \ {r}
  /\ phase' = IF cancelled THEN phase ELSE "FAILED"
  /\ UNCHANGED <<files, active, cancelled, idle, run, sends, server, retries, uncounted>>

\* The backend reserves and stages a PENDING or FAILED file and answers
\* UPLOADING; an archived one is verified and answered ARCHIVED; anything else
\* is refused.  A call can also fail before or after the backend acted.
Accepts(s) == s.run = run /\ server[s.file] \in {"PENDING", "FAILED"}

\* settle, or the catch block of send: every answer but ARCHIVED (or a
\* duplicate) fails the row.
Settled(s, answer) ==
  IF cancelled \/ s.run # run THEN files
  ELSE WithStatus(files, {s.file}, IF answer = "ARCHIVED" THEN "ARCHIVED" ELSE "FAILED")

\* Mutation: the pump runs after every PUT.
SendEndsAndPumps(s, answer) ==
  /\ s \in sends
  /\ UNCHANGED <<cancelled, run, registering, retries, uncounted>>
  /\ Pump(Settled(s, answer), sends \ {s}, active - 1, phase, idle)

\* send and its finally block.
EndSend(s, answer) ==
  /\ s \in sends
  /\ UNCHANGED <<cancelled, run, registering, retries, uncounted>>
  /\ IF cancelled
       THEN /\ sends' = sends \ {s}
            /\ active' = active - 1
            /\ UNCHANGED <<phase, files, idle>>
       ELSE Pump(Settled(s, answer), sends \ {s}, active - 1, phase, idle)

SendEnds(s) ==
  \/ Accepts(s) /\ server' = [server EXCEPT ![s.file] = "UPLOADING"] /\ EndSend(s, "UPLOADING")
  \/ s.run = run /\ server[s.file] = "ARCHIVED" /\ EndSend(s, "ARCHIVED") /\ UNCHANGED server
  \/ EndSend(s, "ERROR") /\ UNCHANGED server

\* The asset worker archives the staged bytes, or gives up.
ServerSettles(f) ==
  /\ server[f] = "UPLOADING"
  /\ \E state \in {"ARCHIVED", "FAILED"} : server' = [server EXCEPT ![f] = state]
  /\ UNCHANGED <<phase, files, active, cancelled, idle, run, registering, sends, retries,
                 uncounted>>

-----------------------------------------------------------------------------

Replies ==
  \/ \E r \in registering : RegistrationSucceeds(r) \/ RegistrationFails(r)
  \/ \E s \in sends : SendEnds(s)

QueueNext ==
  \/ Start \/ Blocked \/ Cancel
  \/ \E fs \in SUBSET File : RetryRegistered(fs)
  \/ \E f \in File : Retry(f) \/ ServerSettles(f)
  \/ Replies

QueueSpec == QueueInit /\ [][QueueNext]_queueVars

\* Every call of the client is answered or fails in the end.
LiveQueueSpec == QueueSpec /\ WF_queueVars(Replies)

-----------------------------------------------------------------------------

(***************************************************************************)
(* No more PUTs are in flight than the limit and those that the last reset *)
(* of the counter forgot: retries, cancellations and the late answers of   *)
(* earlier registrations add none.                                         *)
(***************************************************************************)
UploadsAreBounded ==
  Cardinality({s \in sends : ~s.aborted}) <= Concurrency + uncounted

(***************************************************************************)
(* The counter the pump trusts is off by the PUTs that its last reset      *)
(* forgot and by nothing else, and each PUT of the run has its row: a lost *)
(* decrement would starve the pump, a double one would let it launch more. *)
(***************************************************************************)
ActiveCountsSends ==
  /\ active + uncounted = Cardinality(sends)
  /\ ~cancelled => {s.file : s \in {t \in sends : t.run = run}} = FilesWith(files, "UPLOADING")

(***************************************************************************)
(* A run that reports COMPLETE has settled: no row still waits, and no     *)
(* more PUTs are outstanding than a reset of the counter forgot, also      *)
(* after rows were retried while others uploaded.                          *)
(***************************************************************************)
CompleteIsSettled ==
  phase = "COMPLETE" =>
    /\ FilesWith(files, "QUEUED") = {}
    /\ Cardinality(sends) <= uncounted

(***************************************************************************)
(* A cancelled queue launches nothing, whatever replies still arrive.      *)
(***************************************************************************)
CancelledLaunchesNothing ==
  [][cancelled /\ cancelled' =>
       \A s \in sends' : \E old \in sends : <<old.run, old.file>> = <<s.run, s.file>>]_queueVars

(***************************************************************************)
(* A run does not stay in a running phase for ever: it completes, fails or *)
(* is cancelled, once every call it waits for has ended, unless it began   *)
(* with PUTs of an earlier run in flight.                                  *)
(***************************************************************************)
RunSettles ==
  phase \in RunningPhases ~> phase \notin RunningPhases \/ uncounted > 0

(***************************************************************************)
(* Never more than Concurrency PUTs at once (upload-queue.ts:12).  A late  *)
(* answer to the registration of a cancelled run reports the next run as   *)
(* failed while its PUTs are in flight, and a third run resets the count.  *)
(***************************************************************************)
NeverMoreAtOnce ==
  Cardinality({s \in sends : ~s.aborted}) <= Concurrency

(***************************************************************************)
(* Every run leaves its running phase.  The PUTs of an earlier run take    *)
(* the count of the next one below zero, where its end is never seen.      *)
(***************************************************************************)
EveryRunSettles ==
  phase \in RunningPhases ~> phase \notin RunningPhases

(***************************************************************************)
(* No run begins while PUTs of an earlier one are in flight.               *)
(***************************************************************************)
RunsDoNotOverlap ==
  uncounted = 0

(***************************************************************************)
(* One registration first, then the PUTs (upload-queue.ts:12): no row of a *)
(* run leaves QUEUED before the answer to its own registration.            *)
(***************************************************************************)
RowsWaitForRegistration ==
  run \in registering => FilesWith(files, "QUEUED") = File

(***************************************************************************)
(* A row that is reported as failed and asks the operator to retry can be  *)
(* retried: the backend does not hold its file in UPLOADING, where a PUT   *)
(* is refused.                                                             *)
(***************************************************************************)
FailedRowIsRetryable ==
  \A f \in File :
    files[f] = [status |-> "FAILED", known |-> TRUE] => server[f] # "UPLOADING"

=============================================================================
