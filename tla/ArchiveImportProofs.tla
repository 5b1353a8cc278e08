------------------------ MODULE ArchiveImportProofs ------------------------
(***************************************************************************)
(* Theorems about ArchiveImport, for any finite set of files, any number   *)
(* of uploads, workers and manifests.                                      *)
(*                                                                         *)
(* ImportInv is inductive whatever overlaps, crashes or goes unanswered.   *)
(* To LeaseInv of the queue it adds the types, what is known of an upload  *)
(* attempt, of the archive jobs of a file, of a handler and of a recorded  *)
(* file, and the three counters that follow the file rows.  StagedInv      *)
(* needs that a caller learns that its transaction committed; DeclaredInv, *)
(* that no other writer commits inside a registerManifest.                 *)
(***************************************************************************)
EXTENDS ArchiveImport, AssetJobLeaseProofs, FiniteSetTheorems

FileRow == [state : FileStates \cup {"ABSENT"}, sha : Content \cup {NoContent}]

UploadRow ==
  [pc : {"new", "reserved", "staged", "cleaning", "releasing", "over", "abandoned"},
   file : File \cup {NoFile}, sha : Content \cup {NoContent}]

TallyRow == [declared : Nat, archived : Nat, skipped : Nat, failed : Nat, checkpoint : Checkpoints]

RegRow ==
  [pc : {"idle", "read", "counted"}, seen : {"CREATED", "UPLOADING"},
   adds : SUBSET File, count : Nat]

\* The variables that the handlers of this module own are well formed.
StoresOK ==
  /\ files \in [File -> FileRow]
  /\ upload \in [ArchiveJob -> UploadRow]
  /\ staging \subseteq ArchiveJob
  /\ originals \subseteq Content
  /\ step \in [Process -> {"read", "put", "record", "return"}]

SessionRowsOK ==
  /\ tally \in TallyRow
  /\ grouped \subseteq File
  /\ asked \in [GroupJob -> SUBSET File]
  /\ reg \in [Manifest -> RegRow]

Created(j) == rows[j].state # "ABSENT"

\* An attempt under way has a declared file; one with a job has been staged.
AttemptsOK ==
  \A a \in ArchiveJob :
    /\ upload[a].pc # "new" => upload[a].file \in Registered
    /\ upload[a].pc = "staged" => upload[a].sha \in Content
    /\ Created(a) => /\ upload[a].pc \in {"cleaning", "releasing", "over", "abandoned"}
                     /\ upload[a].sha \in Content

\* One archive job per file that can still run, and none of an open file.
ArchiveJobsOK ==
  /\ \A a, b \in ArchiveJob :
       Active(rows[a]) /\ Active(rows[b]) /\ upload[a].file = upload[b].file => a = b
  /\ \A a \in ArchiveJob :
       Active(rows[a]) => files[upload[a].file].state \notin {"PENDING", "FAILED"}

\* A busy worker has a job that exists; one past the reading of its staging
\* entry runs an archive job, and one about to record has stored the original.
HandlersOK ==
  \A p \in Process :
    /\ Busy(p) => Created(proc[p].job)
    /\ step[p] # "read" => proc[p].pc = "running" /\ proc[p].job \in ArchiveJob
    /\ step[p] = "record" => ShaOf(p) \in originals

\* RecordedFilesHaveEvidence, without counting.
EvidenceOK ==
  /\ \A f \in Recorded : files[f].sha \in originals
  /\ \A f, g \in FilesIn({"ARCHIVED"}) : files[f].sha = files[g].sha => f = g
  /\ \A f \in FilesIn({"SKIPPED_DUPLICATE"}) :
       \E g \in FilesIn({"ARCHIVED"}) : files[g].sha = files[f].sha

\* The counters that follow the states of the file rows.
StatesCounted ==
  /\ tally.archived = Cardinality(FilesIn({"ARCHIVED"}))
  /\ tally.skipped = Cardinality(FilesIn({"SKIPPED_DUPLICATE"}))
  /\ tally.failed = Cardinality(FilesIn({"FAILED"}))

FilesInv == StoresOK /\ AttemptsOK /\ ArchiveJobsOK /\ HandlersOK /\ EvidenceOK

ImportInv == LeaseInv /\ FilesInv /\ SessionRowsOK /\ StatesCounted

\* The staging entry of an attempt stays until its job has settled.
StagedInv ==
  /\ StagedWhileActive
  /\ \A a \in ArchiveJob :
       /\ upload[a].pc = "staged" => a \in staging
       /\ upload[a].pc \in {"cleaning", "releasing"} => ~Created(a)

\* What a manifest inserts is what its files lacked when it counted them.
ManifestsOK ==
  \A m \in Manifest :
    reg[m].pc = "counted" =>
      reg[m].adds \subseteq FilesOf[m] /\ FilesOf[m] \subseteq reg[m].adds \cup Registered

\* The archive is closed: a checkpoint is set or a grouping job was queued.
Closed == tally.checkpoint # "NONE" \/ \E g \in GroupJob : Created(g)

DeclaredInv ==
  /\ tally.declared = Cardinality(Registered)
  /\ ManifestsOK
  /\ Closed => Registered = Recorded /\ session \notin {"CREATED", "UPLOADING"}
  /\ GroupsCoverTheArchive
-----------------------------------------------------------------------------
(* The queue under the import *)

\* What the workers, the clock and cancelSession do to the job table.
QueueStep ==
  \/ \E p \in Process :
       Claims(p) \/ Works(p) \/ RequestShutdown(p) \/ Restart(p) \/ Crash(p)
  \/ \E j \in Job : TimePasses(j)
  \/ CancelSession

\* No job appears, and none that has settled is opened again.
NoNewJobs ==
  \A j \in Job : (Created(j)' <=> Created(j)) /\ (Active(rows[j])' => Active(rows[j]))

\* A busy worker kept its job or claimed one; one that runs did not claim.
WorkersKeepJobs ==
  \A p \in Process :
    /\ Busy(p)' => \/ Busy(p) /\ proc'[p].job = proc[p].job
                   \/ \E j \in Job : Active(rows[j]) /\ proc'[p].job = j
    /\ proc'[p].pc = "running" => Busy(p) /\ proc'[p].job = proc[p].job

\* What a statement leaves in the state of the row it changes.
LEMMA RowStates ==
  ASSUME NEW row \in Rows, NEW w, NEW t
  PROVE  /\ ClaimedRow(row, w, t).state = "RUNNING"
         /\ CompletedRow(row).state = "COMPLETED"
         /\ FailedRow(row).state \in {"QUEUED", "FAILED"}
  BY DEF Rows, ClaimedRow, CompletedRow, FailedRow

\* One row at a time, the statements of the repository create no job.
LEMMA OneRowKept ==
  ASSUME rows \in [Job -> Rows], NEW j \in Job, NEW row, rows' = [rows EXCEPT ![j] = row],
         row.state # "ABSENT", rows[j].state # "ABSENT", Active(row) => Active(rows[j])
  PROVE  NoNewJobs
  BY DEF NoNewJobs, Created

\* A transition of one worker keeps its job.
LEMMA OneWorkerKept ==
  ASSUME LeaseInv, NEW p \in Process,
         \/ \E pc \in Phases : Busy(p) /\ Goto(p, pc)
         \/ Abandon(p)
         \/ proc' = [proc EXCEPT ![p].lost = TRUE]
  PROVE  WorkersKeepJobs
  BY DEF WorkersKeepJobs, LeaseInv, ProcessesOK, ProcRecord, Busy, Goto, Abandon, Idle, Phases

\* The steps of the worker loop create no job and reopen none.
LEMMA WorksKeepJobs ==
  ASSUME LeaseInv, NEW p \in Process, Works(p)
  PROVE  NoNewJobs /\ WorkersKeepJobs
  <1>1. /\ rows \in [Job -> Rows]
        /\ Busy(p) => proc[p].job \in Job
    BY DEF LeaseInv, RowsOK, ProcessesOK
  <1>2. UNCHANGED rows => NoNewJobs
    BY DEF NoNewJobs, Created
  <1>3. ASSUME NEW s \in SessionStates, CompleteJob(p, s) PROVE NoNewJobs /\ WorkersKeepJobs
    <2>1. NoNewJobs
      <3>1. Busy(p) /\ rows[proc[p].job].state = "RUNNING"
            /\ rows' = [rows EXCEPT ![proc[p].job] = CompletedRow(rows[proc[p].job])]
        BY <1>3 DEF CompleteJob, LeaseHeld, HeldBy
      <3> QED
        BY <1>1, <3>1, OneRowKept, RowStates DEF Active
    <2>2. WorkersKeepJobs
      BY <1>3, OneWorkerKept DEF CompleteJob, LeaseHeld, Phases
    <2> QED
      BY <2>1, <2>2
  <1>4. CASE FailJob(p)
    <2>1. NoNewJobs
      <3>1. Busy(p) /\ rows[proc[p].job].state = "RUNNING"
            /\ rows' = [rows EXCEPT ![proc[p].job] = FailedRow(rows[proc[p].job])]
        BY <1>4 DEF FailJob, LeaseHeld, HeldBy
      <3> QED
        BY <1>1, <3>1, OneRowKept, RowStates DEF Active
    <2>2. WorkersKeepJobs
      BY <1>4, OneWorkerKept DEF FailJob
    <2> QED
      BY <2>1, <2>2
  <1>5. CASE LosingBeat(p)
    BY <1>2, <1>5, OneWorkerKept DEF LosingBeat
  <1>6. ASSUME Works(p), ~FailJob(p), ~LosingBeat(p), ~\E s \in SessionStates : CompleteJob(p, s)
        PROVE  NoNewJobs /\ WorkersKeepJobs
    <2>1. UNCHANGED rows /\ ((\E pc \in Phases : Busy(p) /\ Goto(p, pc)) \/ Abandon(p))
      BY <1>6 DEF Works, FirstBeat, DiscardOutcome, HandlerReturns, HandlerThrows,
           CompletionConflicts, CompletionBreaks, ProbeLease, FailureConflicts, AfterCommit,
           Busy, Phases
    <2> QED
      BY <1>2, <2>1, OneWorkerKept
  <1> QED
    BY <1>3, <1>4, <1>5, <1>6

\* Nor does any other step of the queue.
LEMMA QueueStepKeepsJobs ==
  ASSUME LeaseInv, QueueStep
  PROVE  NoNewJobs /\ WorkersKeepJobs
  <1>1. rows \in [Job -> Rows] /\ proc \in [Process -> ProcRecord]
    BY DEF LeaseInv, RowsOK, ProcessesOK
  <1>2. UNCHANGED rows => NoNewJobs
    BY DEF NoNewJobs, Created
  <1>3. UNCHANGED proc => WorkersKeepJobs
    BY DEF WorkersKeepJobs, Busy
  <1>4. ASSUME NEW p \in Process, Claims(p) PROVE NoNewJobs /\ WorkersKeepJobs
    <2>1. PICK j \in Job, t \in Token : Claim(p, j, t)
      BY <1>4 DEF Claims
    <2>2. NoNewJobs
      <3>1. /\ rows[j].state \in {"QUEUED", "RUNNING"}
            /\ rows' = [rows EXCEPT ![j] = ClaimedRow(rows[j], IdOf[p], t)]
        BY <2>1 DEF Claim, Claimable
      <3> QED
        BY <1>1, <3>1, OneRowKept, RowStates DEF Active
    <2>3. WorkersKeepJobs
      BY <1>1, <2>1 DEF Claim, Claimable, Active, WorkersKeepJobs, Busy
    <2> QED
      BY <2>2, <2>3
  <1>5. ASSUME NEW p \in Process, RequestShutdown(p) \/ Restart(p) \/ Crash(p)
        PROVE  NoNewJobs /\ WorkersKeepJobs
    BY <1>2, <1>3, <1>5, OneWorkerKept DEF RequestShutdown, Restart, Crash
  <1>6. ASSUME NEW j \in Job, TimePasses(j) PROVE NoNewJobs /\ WorkersKeepJobs
    BY <1>1, <1>3, <1>6 DEF TimePasses, LeaseExpires, Stall, BackoffElapses, NoNewJobs, Created,
         Active, Rows
  <1>7. CASE CancelSession
    BY <1>1, <1>3, <1>7 DEF CancelSession, CancelledRow, NoNewJobs, Created, Active, Rows
  <1> QED
    BY <1>4, <1>5, <1>6, <1>7, WorksKeepJobs DEF QueueStep
\* Every step of a handler but the three that touch no job is one of its worker.
LEMMA HandlesWork ==
  ASSUME LeaseInv, NEW p \in Process, Handles(p)
  PROVE  ReadStaging(p) \/ PutOriginal(p) \/ RecordUploadedFile(p) \/ Works(p)
  <1>1. session \in SessionStates /\ "NEEDS_REVIEW" \in SessionStates
    BY DEF LeaseInv, RestOK, SessionStates
  <1>2. CASE ArchiveThrows(p) \/ ArchiveReturns(p) \/ GroupingReturns(p) \/ GroupingThrows(p)
    BY <1>2 DEF ArchiveThrows, ArchiveReturns, GroupingReturns, GroupingThrows, Works
  <1>3. CASE CompleteArchive(p) \/ CompleteGrouping(p)
    BY <1>1, <1>3 DEF CompleteArchive, CompleteGrouping, Works
  <1>4. CASE CompletionRefused(p) \/ FailArchive(p) \/ FailGrouping(p) \/ CleanUp(p)
    BY <1>4 DEF CompletionRefused, FailArchive, FailGrouping, CleanUp, Works
  <1>5. CASE OnlyQueue(WorkerRuns(p))
    BY <1>5 DEF OnlyQueue, WorkerRuns, Works
  <1> QED
    BY <1>2, <1>3, <1>4, <1>5 DEF Handles

\* What an upload call does to the queue: nothing, or it queues its job.
LEMMA UploadUsesQueue ==
  ASSUME LeaseInv, NEW a \in ArchiveJob, UploadFile(a)
  PROVE  UNCHANGED vars \/ \E s \in SessionStates : Enqueue({a}, s)
  <1>1. CASE EnqueueArchiveFile(a)
    <2>1. session \in SessionStates /\ "ARCHIVING" \in SessionStates
      BY DEF LeaseInv, RestOK, SessionStates
    <2> QED
      BY <1>1, <2>1 DEF EnqueueArchiveFile
  <1>2. CASE \/ \E f \in File : ReserveUpload(a, f)
             \/ \E c \in Content : StageUpload(a, c)
             \/ StagingFails(a) \/ UploadRejected(a)
             \/ RemoveStaging(a) \/ ReleaseReservation(a) \/ ReleaseFails(a) \/ BackendCrash(a)
    BY <1>2 DEF ReserveUpload, StageUpload, StagingFails, UploadRejected, RemoveStaging,
         ReleaseReservation, ReleaseFails, BackendCrash
  <1> QED
    BY <1>1, <1>2 DEF UploadFile

\* A recorded file moves a live session only.
LEMMA RecordingMovesSession ==
  ASSUME LeaseInv, NEW p \in Process, RecordUploadedFile(p)
  PROVE  \E s \in SessionStates : SessionMoves(s)
  <1>1. session \in SessionStates \ TerminalSessionStates
    BY DEF RecordUploadedFile, Accepted, AcceptsUploads, SessionStates, TerminalSessionStates
  <1>2. session' \in {session, "ARCHIVING"}
    BY DEF RecordUploadedFile, AlreadyRecorded, RecordAsOriginal, RecordAsDuplicate, RecordIn,
         StateAfterRecording
  <1>3. "ARCHIVING" \in OtherStates \cap SessionStates
    BY ImportAssumption DEF SessionStates
  <1>4. MovesTo(session') /\ session' \in SessionStates
    BY <1>1, <1>2, <1>3 DEF MovesTo
  <1> QED
    BY <1>1, <1>4 DEF SessionMoves, RecordUploadedFile

\* Everything but the commit of a manifest is a step of the queue.
LEMMA ImportUsesQueue ==
  ASSUME LeaseInv, [ImportNext]_allVars
  PROVE  [Next]_vars \/ \E m \in Manifest : CommitManifest(m)
  <1>1. ASSUME NEW m \in Manifest, RegisterManifest(m)
        PROVE  UNCHANGED vars \/ CommitManifest(m)
    BY <1>1 DEF RegisterManifest, ReadSession, CountFiles, RollBackManifest
  <1>2. ASSUME NEW a \in ArchiveJob, UploadFile(a) PROVE [Next]_vars
    <2>1. {a} \in SUBSET Job
      BY DEF ArchiveJob
    <2> QED
      BY <1>2, <2>1, UploadUsesQueue DEF Next
  <1>3. ASSUME NEW g \in GroupJob, StartGrouping(g) PROVE Next
    <2>1. {g} \in SUBSET Job /\ "PROCESSING" \in SessionStates
      BY ImportAssumption DEF SessionStates
    <2> QED
      BY <1>3, <2>1 DEF StartGrouping, Next
  <1>4. ASSUME NEW p \in Process, Handles(p) PROVE [Next]_vars
    BY <1>4, HandlesWork, RecordingMovesSession DEF Next, ReadStaging, PutOriginal
  <1>5. ASSUME NEW p \in Process, OnlyQueue(WorkerLifecycle(p)) PROVE Next
    BY <1>5 DEF OnlyQueue, WorkerLifecycle, Next
  <1>6. ASSUME NEW j \in Job, OnlyQueue(TimePasses(j)) PROVE Next
    BY <1>6 DEF OnlyQueue, Next
  <1>7. CASE CancelImport
    BY <1>7 DEF CancelImport, Next
  <1>8. CASE UNCHANGED allVars
    BY <1>8 DEF allVars
  <1> QED
    BY <1>1, <1>2, <1>3, <1>4, <1>5, <1>6, <1>7, <1>8 DEF ImportNext

\* A manifest that was counted began in CREATED or UPLOADING and commits UPLOADING.
LEMMA CommitKeepsLease ==
  ASSUME LeaseInv, SessionRowsOK, NEW m \in Manifest, CommitManifest(m)
  PROVE  LeaseInv' /\ session' = "UPLOADING"
  <1>1. reg[m].seen \in {"CREATED", "UPLOADING"}
    BY DEF SessionRowsOK, RegRow
  <1>2. session' = "UPLOADING" /\ UNCHANGED <<rows, proc, stopping, faults>>
    BY <1>1 DEF CommitManifest
  <1> QED
    BY <1>2 DEF LeaseInv, ProcessesOK, RowsOK, RestOK, CleanupAfterCommit,
         CancelledSessionIsQuiet, Busy, SessionStates

\* So the invariant of the queue survives every step of the import.
LEMMA ImportKeepsLease ==
  ASSUME LeaseInv, SessionRowsOK, [ImportNext]_allVars
  PROVE  LeaseInv'
  BY ImportUsesQueue, CommitKeepsLease, NextPreservesLeaseInv
-----------------------------------------------------------------------------
(* Files, uploads and handlers *)

\* A step that records nothing leaves the recorded files alone.
FilesStayOpen ==
  \A f \in File :
    \/ files'[f] = files[f]
    \/ f \notin Recorded /\ files'[f].state \in {"PENDING", "UPLOADING", "FAILED"}

\* Such a step keeps the evidence and undeclares no file.
LEMMA EvidenceKept ==
  ASSUME EvidenceOK, FilesStayOpen, originals \subseteq originals'
  PROVE  /\ EvidenceOK'
         /\ Registered \subseteq Registered'
         /\ FilesIn({"ARCHIVED"})' = FilesIn({"ARCHIVED"})
         /\ FilesIn({"SKIPPED_DUPLICATE"})' = FilesIn({"SKIPPED_DUPLICATE"})
         /\ Recorded' = Recorded
  <1>1. /\ FilesIn({"ARCHIVED"})' = FilesIn({"ARCHIVED"})
        /\ FilesIn({"SKIPPED_DUPLICATE"})' = FilesIn({"SKIPPED_DUPLICATE"})
        /\ Recorded' = Recorded
    BY DEF FilesStayOpen, FilesIn, Recorded
  <1>2. \A f \in Recorded : files'[f] = files[f]
    BY DEF FilesStayOpen, FilesIn, Recorded
  <1>3. /\ FilesIn({"ARCHIVED"}) \subseteq Recorded
        /\ FilesIn({"SKIPPED_DUPLICATE"}) \subseteq Recorded
    BY DEF FilesIn, Recorded
  <1>4. Registered \subseteq Registered'
    BY DEF FilesStayOpen, Registered, FilesIn, Recorded
  <1> QED
    BY <1>1, <1>2, <1>3, <1>4 DEF EvidenceOK

\* Attempts stay as they are while no job appears and no file is undeclared.
LEMMA AttemptsKept ==
  ASSUME AttemptsOK, Registered \subseteq Registered', UNCHANGED upload,
         \A j \in Job : Created(j)' => Created(j)
  PROVE  AttemptsOK'
  BY DEF AttemptsOK, ArchiveJob

\* Archive jobs stay exclusive while none is opened and their files not.
LEMMA ArchiveJobsKept ==
  ASSUME ArchiveJobsOK,
         \A a \in ArchiveJob : Active(rows[a])' =>
           /\ Active(rows[a])
           /\ upload'[a].file = upload[a].file
           /\ files'[upload[a].file].state \notin {"PENDING", "FAILED"}
  PROVE  ArchiveJobsOK'
  BY DEF ArchiveJobsOK

\* Handlers that go no further, over uploads whose digests stay.
LEMMA HandlersKept ==
  ASSUME LeaseInv, HandlersOK,
         \A p \in Process : Busy(p)' => Created(proc[p].job)',
         \A p \in Process : step'[p] # "read" =>
           step'[p] = step[p] /\ proc'[p].pc = "running" /\ proc'[p].job = proc[p].job,
         \A a \in ArchiveJob : Created(a) => upload'[a].sha = upload[a].sha,
         originals \subseteq originals'
  PROVE  HandlersOK'
  <1> SUFFICES ASSUME NEW p \in Process
               PROVE  /\ Busy(p)' => Created(proc[p].job)'
                      /\ step'[p] # "read" => proc'[p].pc = "running" /\ proc'[p].job \in ArchiveJob
                      /\ step'[p] = "record" => ShaOf(p)' \in originals'
    BY DEF HandlersOK
  <1>1. ASSUME step'[p] # "read"
        PROVE  /\ step'[p] = step[p] /\ proc'[p].pc = "running"
               /\ proc'[p].job = proc[p].job /\ proc[p].job \in ArchiveJob /\ Created(proc[p].job)
    BY <1>1 DEF HandlersOK, Busy
  <1>2. ASSUME step'[p] = "record" PROVE ShaOf(p)' \in originals'
    <2>1. step[p] = "record" /\ upload'[proc[p].job].sha = upload[proc[p].job].sha
      BY <1>1, <1>2
    <2> QED
      BY <1>1, <1>2, <2>1 DEF HandlersOK, ShaOf
  <1> QED
    BY <1>1, <1>2

\* Handlers under a step that leaves queue and handlers alone.
LEMMA HandlersUntouched ==
  ASSUME LeaseInv, HandlersOK, UNCHANGED <<rows, proc, step>>, originals \subseteq originals',
         \A a \in ArchiveJob : Created(a) => upload'[a].sha = upload[a].sha
  PROVE  HandlersOK'
  <1>1. \A p \in Process : Busy(p)' => Created(proc[p].job)'
    BY DEF HandlersOK, Busy, Created
  <1>2. \A p \in Process : step'[p] # "read" =>
          step'[p] = step[p] /\ proc'[p].pc = "running" /\ proc'[p].job = proc[p].job
    BY DEF HandlersOK
  <1> QED
    BY <1>1, <1>2, HandlersKept

\* Handlers under a step of the queue in which those that stop forget.
LEMMA HandlersForget ==
  ASSUME LeaseInv, HandlersOK, NoNewJobs, WorkersKeepJobs, UNCHANGED <<upload, originals>>,
         ForgetSteps \/ UNCHANGED step,
         \A p \in Process : step'[p] # "read" => proc'[p].pc = "running",
         StoresOK
  PROVE  HandlersOK'
  <1>0. /\ proc \in [Process -> ProcRecord]
        /\ \A p \in Process : Busy(p) => proc[p].job \in Job
    BY DEF LeaseInv, ProcessesOK
  <1>1. ASSUME NEW p \in Process, Busy(p)' PROVE Created(proc[p].job)'
    <2>1. \/ Busy(p) /\ proc'[p].job = proc[p].job
          \/ \E j \in Job : Active(rows[j]) /\ proc'[p].job = j
      BY <1>1 DEF WorkersKeepJobs
    <2>2. PICK j \in Job : Created(j) /\ proc'[p].job = j
      BY <1>0, <2>1 DEF HandlersOK, Active, Created
    <2> QED
      BY <2>2 DEF NoNewJobs, Created
  <1>2. ASSUME NEW p \in Process, step'[p] # "read"
        PROVE  step'[p] = step[p] /\ proc'[p].pc = "running" /\ proc'[p].job = proc[p].job
    BY <1>2 DEF ForgetSteps, WorkersKeepJobs, StoresOK
  <1> QED
    BY <1>1, <1>2, HandlersKept
\* A step that touches none of these keeps all of this.
LEMMA FilesUntouched ==
  ASSUME FilesInv, UNCHANGED <<rows, proc, files, upload, staging, originals, step>>
  PROVE  FilesInv'
  BY DEF FilesInv, StoresOK, AttemptsOK, ArchiveJobsOK, HandlersOK, EvidenceOK, Created,
       Registered, Recorded, FilesIn, Busy, ShaOf

\* A manifest adds rows that were not there.
LEMMA CommitKeepsFiles ==
  ASSUME LeaseInv, FilesInv, SessionRowsOK, NEW m \in Manifest, CommitManifest(m)
  PROVE  FilesInv'
  <1>1. /\ reg[m].adds \subseteq File
        /\ reg[m].adds \cap Registered = {}
        /\ files \in [File -> FileRow]
        /\ UNCHANGED <<rows, proc, upload, staging, originals, step>>
    BY DEF SessionRowsOK, RegRow, FilesInv, StoresOK, CommitManifest
  <1>2. /\ files' \in [File -> FileRow]
        /\ \A f \in File : \/ f \notin reg[m].adds /\ files'[f] = files[f]
                           \/ f \in reg[m].adds /\ files'[f].state = "PENDING"
    BY <1>1 DEF CommitManifest, SetAll, FileRow, FileStates
  <1>3. FilesStayOpen
    BY <1>1, <1>2 DEF FilesStayOpen, Recorded, FilesIn, Registered
  <1>4. EvidenceOK' /\ Registered \subseteq Registered'
    BY <1>1, <1>3, EvidenceKept DEF FilesInv
  <1>5. StoresOK'
    BY <1>1, <1>2 DEF FilesInv, StoresOK
  <1>6. AttemptsOK'
    BY <1>1, <1>4, AttemptsKept DEF FilesInv, Created
  <1>7. ArchiveJobsOK'
    <2>1. ASSUME NEW a \in ArchiveJob, Active(rows[a])
          PROVE  files'[upload[a].file].state \notin {"PENDING", "FAILED"}
      <3>1. upload[a].file \in Registered
        BY <2>1 DEF FilesInv, AttemptsOK, Created, Active
      <3>2. files'[upload[a].file] = files[upload[a].file]
        BY <1>1, <1>2, <3>1 DEF Registered
      <3> QED
        BY <2>1, <3>2 DEF FilesInv, ArchiveJobsOK
    <2> QED
      BY <1>1, <2>1, ArchiveJobsKept DEF FilesInv
  <1>8. HandlersOK'
    BY <1>1, HandlersUntouched DEF FilesInv
  <1> QED
    BY <1>4, <1>5, <1>6, <1>7, <1>8 DEF FilesInv

\* A reservation takes an open file, on which no job can be running.
LEMMA ReserveKeepsFiles ==
  ASSUME LeaseInv, FilesInv, NEW a \in ArchiveJob, NEW f \in File, ReserveUpload(a, f)
  PROVE  FilesInv'
  <1>1. /\ files \in [File -> FileRow]
        /\ upload \in [ArchiveJob -> UploadRow]
        /\ upload[a].pc = "new" /\ files[f].state \in {"PENDING", "FAILED"}
        /\ UNCHANGED <<rows, proc, staging, originals, step>>
    BY DEF FilesInv, StoresOK, ReserveUpload, Uploadable, vars
  <1>2. /\ files' \in [File -> FileRow]
        /\ files'[f].state = "UPLOADING"
        /\ \A g \in File \ {f} : files'[g] = files[g]
    BY <1>1 DEF ReserveUpload, FileRow, FileStates
  <1>3. /\ upload' \in [ArchiveJob -> UploadRow]
        /\ \E pc \in {"reserved", "abandoned"} :
             upload'[a] = [pc |-> pc, file |-> f, sha |-> upload[a].sha]
        /\ \A b \in ArchiveJob \ {a} : upload'[b] = upload[b]
    BY <1>1 DEF ReserveUpload, UploadRow
  <1>4. FilesStayOpen
    BY <1>1, <1>2 DEF FilesStayOpen, Recorded, FilesIn
  <1>5. EvidenceOK' /\ Registered \subseteq Registered'
    BY <1>1, <1>4, EvidenceKept DEF FilesInv
  <1>6. ~Created(a) /\ ~Created(a)'
    BY <1>1 DEF FilesInv, AttemptsOK, Created
  <1>7. AttemptsOK'
    <2>1. f \in Registered'
      BY <1>2 DEF Registered
    <2>2. ASSUME NEW b \in ArchiveJob \ {a}
          PROVE  /\ upload'[b].pc # "new" => upload'[b].file \in Registered'
                 /\ upload'[b].pc = "staged" => upload'[b].sha \in Content
                 /\ Created(b)' => /\ upload'[b].pc \in {"cleaning", "releasing", "over", "abandoned"}
                                   /\ upload'[b].sha \in Content
      BY <1>1, <1>3, <1>5 DEF FilesInv, AttemptsOK, Created
    <2> QED
      BY <1>3, <1>6, <2>1, <2>2 DEF AttemptsOK
  <1>8. ArchiveJobsOK'
    <2>1. ASSUME NEW b \in ArchiveJob, Active(rows[b])
          PROVE  /\ upload'[b].file = upload[b].file
                 /\ files'[upload[b].file].state \notin {"PENDING", "FAILED"}
      <3>1. b # a
        BY <1>6, <2>1 DEF Active, Created
      <3>2. upload[b].file \in File /\ upload[b].file # f
        BY <1>1, <2>1 DEF FilesInv, AttemptsOK, ArchiveJobsOK, Created, Active, Registered
      <3> QED
        BY <1>2, <1>3, <2>1, <3>1, <3>2 DEF FilesInv, ArchiveJobsOK
    <2> QED
      BY <1>1, <2>1, ArchiveJobsKept DEF FilesInv
  <1>9. HandlersOK'
    BY <1>1, <1>3, <1>6, HandlersUntouched DEF FilesInv
  <1> QED
    BY <1>1, <1>2, <1>3, <1>5, <1>7, <1>8, <1>9 DEF FilesInv, StoresOK

\* Staging an upload that has no job yet.
LEMMA StageKeepsFiles ==
  ASSUME LeaseInv, FilesInv, NEW a \in ArchiveJob, NEW c \in Content, StageUpload(a, c)
  PROVE  FilesInv'
  <1>1. /\ upload \in [ArchiveJob -> UploadRow]
        /\ upload[a].pc = "reserved"
        /\ UNCHANGED <<rows, proc, files, originals, step>>
        /\ staging' \subseteq ArchiveJob
    BY DEF FilesInv, StoresOK, StageUpload, vars
  <1>2. /\ upload' \in [ArchiveJob -> UploadRow]
        /\ upload'[a] = [pc |-> "staged", file |-> upload[a].file, sha |-> c]
        /\ \A b \in ArchiveJob \ {a} : upload'[b] = upload[b]
    BY <1>1 DEF StageUpload, UploadRow
  <1>3. ~Created(a) /\ ~Created(a)'
    BY <1>1 DEF FilesInv, AttemptsOK, Created
  <1>4. AttemptsOK'
    BY <1>1, <1>2, <1>3 DEF FilesInv, AttemptsOK, Created, Registered
  <1>5. ArchiveJobsOK'
    BY <1>1, <1>2 DEF FilesInv, ArchiveJobsOK
  <1>6. HandlersOK'
    BY <1>1, <1>2, <1>3, HandlersUntouched DEF FilesInv
  <1>7. StoresOK' /\ EvidenceOK'
    BY <1>1, <1>2 DEF FilesInv, StoresOK, EvidenceOK, Recorded, FilesIn
  <1> QED
    BY <1>4, <1>5, <1>6, <1>7 DEF FilesInv

\* The attempt that only moves to another phase.
LEMMA UploadPhaseKeepsFiles ==
  ASSUME LeaseInv, FilesInv, NEW a \in ArchiveJob,
         NEW pc \in {"cleaning", "releasing", "over", "abandoned"}, UploadAt(a, pc),
         upload[a].pc # "new", staging' \subseteq ArchiveJob,
         UNCHANGED <<rows, proc, originals, step>>,
         files' \in [File -> FileRow], FilesStayOpen,
         \A b \in ArchiveJob : Active(rows[b]) =>
           files'[upload[b].file].state \notin {"PENDING", "FAILED"}
  PROVE  FilesInv'
  <1>1. upload \in [ArchiveJob -> UploadRow]
    BY DEF FilesInv, StoresOK
  <1>2. /\ upload' \in [ArchiveJob -> UploadRow]
        /\ upload'[a].pc = pc
        /\ \A b \in ArchiveJob : upload'[b].file = upload[b].file /\ upload'[b].sha = upload[b].sha
        /\ \A b \in ArchiveJob \ {a} : upload'[b] = upload[b]
    BY <1>1 DEF UploadAt, UploadRow
  <1>3. EvidenceOK' /\ Registered \subseteq Registered'
    BY EvidenceKept DEF FilesInv
  <1>4. AttemptsOK'
    BY <1>2, <1>3 DEF FilesInv, AttemptsOK, Created
  <1>5. ArchiveJobsOK'
    BY <1>2, ArchiveJobsKept DEF FilesInv
  <1>6. HandlersOK'
    BY <1>2, HandlersUntouched DEF FilesInv
  <1> QED
    BY <1>2, <1>3, <1>4, <1>5, <1>6 DEF FilesInv, StoresOK
\* Failing files that are still open.
LEMMA FailingFiles ==
  ASSUME files \in [File -> FileRow], NEW fs \in SUBSET File,
         \A f \in fs : files[f].state \in {"PENDING", "UPLOADING"},
         files' = SetAll(fs, "FAILED")
  PROVE  /\ files' \in [File -> FileRow]
         /\ FilesStayOpen
         /\ \A f \in fs : files'[f].state = "FAILED"
         /\ \A f \in File \ fs : files'[f] = files[f]
  <1>1. /\ files' \in [File -> FileRow]
        /\ \A f \in fs : files'[f].state = "FAILED"
        /\ \A f \in File \ fs : files'[f] = files[f]
    BY DEF SetAll, FileRow, FileStates
  <1> QED
    BY <1>1 DEF FilesStayOpen, Recorded, FilesIn

\* failUploadReservation fails a file on which no job is running, or nothing.
LEMMA ReleaseKeepsFiles ==
  ASSUME LeaseInv, FilesInv, NEW a \in ArchiveJob, ReleaseReservation(a)
  PROVE  FilesInv'
  <1> DEFINE f == upload[a].file
  <1>1. /\ files \in [File -> FileRow]
        /\ UNCHANGED <<rows, proc, staging, originals, step>>
        /\ UploadAt(a, "over") /\ upload[a].pc # "new"
        /\ f \in File
    BY DEF FilesInv, StoresOK, ReleaseReservation, vars, AttemptsOK, Registered
  <1>2. CASE Releasable(f)
    <2>1. files' = SetAll({f}, "FAILED") /\ files[f].state = "UPLOADING"
      BY <1>2 DEF ReleaseReservation, Releasable
    <2>2. /\ files' \in [File -> FileRow]
          /\ FilesStayOpen
          /\ \A g \in File \ {f} : files'[g] = files[g]
      BY <1>1, <2>1, FailingFiles
    <2>3. ASSUME NEW b \in ArchiveJob, Active(rows[b])
          PROVE  files'[upload[b].file].state \notin {"PENDING", "FAILED"}
      <3>1. upload[b].file \in File /\ upload[b].file # f
        BY <1>2, <2>3 DEF Releasable, ActiveArchiveJobs, FilesInv, AttemptsOK, Created, Active,
             Registered
      <3> QED
        BY <2>2, <2>3, <3>1 DEF FilesInv, ArchiveJobsOK
    <2> QED
      BY <1>1, <2>2, <2>3, UploadPhaseKeepsFiles DEF FilesInv, StoresOK
  <1>3. CASE ~Releasable(f)
    <2>1. files' = files
      BY <1>3 DEF ReleaseReservation
    <2>2. FilesStayOpen
      BY <2>1 DEF FilesStayOpen
    <2> QED
      BY <1>1, <2>1, <2>2, UploadPhaseKeepsFiles DEF FilesInv, StoresOK, ArchiveJobsOK
  <1> QED
    BY <1>2, <1>3

\* A job is queued for a reserved file that no other job archives.
LEMMA EnqueueKeepsFiles ==
  ASSUME LeaseInv, FilesInv, NEW a \in ArchiveJob, EnqueueArchiveFile(a)
  PROVE  FilesInv'
  <1>1. /\ upload \in [ArchiveJob -> UploadRow]
        /\ rows \in [Job -> Rows]
        /\ UNCHANGED <<proc, files, staging, originals, step>>
        /\ upload[a].pc = "staged"
        /\ files[upload[a].file].state = "UPLOADING"
        /\ ActiveArchiveJobs(upload[a].file) = {}
        /\ rows' = [j \in Job |-> IF j \in {a} THEN QueuedRow ELSE rows[j]]
        /\ ArchiveJob \subseteq Job
    BY DEF FilesInv, StoresOK, LeaseInv, RowsOK, EnqueueArchiveFile, Enqueue, ArchiveJob
  <1>2. /\ upload' \in [ArchiveJob -> UploadRow]
        /\ upload'[a].pc \in {"cleaning", "over"}
        /\ \A b \in ArchiveJob : upload'[b].file = upload[b].file /\ upload'[b].sha = upload[b].sha
        /\ \A b \in ArchiveJob \ {a} : upload'[b] = upload[b]
    BY <1>1 DEF EnqueueArchiveFile, UploadAt, UploadRow
  <1>3. \A j \in Job \ {a} : rows'[j] = rows[j]
    BY <1>1
  <1>4. AttemptsOK'
    BY <1>1, <1>2, <1>3 DEF FilesInv, AttemptsOK, Created, Registered
  <1>5. ArchiveJobsOK'
    <2>1. \A b \in ArchiveJob \ {a} : Active(rows[b]) => upload[b].file # upload[a].file
      BY <1>1 DEF ActiveArchiveJobs
    <2> QED
      BY <1>1, <1>2, <1>3, <2>1 DEF FilesInv, ArchiveJobsOK
  <1>6. HandlersOK'
    <2>1. ASSUME NEW p \in Process, Busy(p)' PROVE Created(proc[p].job)'
      <3>1. Busy(p) /\ proc[p].job \in Job /\ Created(proc[p].job)
        BY <1>1, <2>1 DEF Busy, LeaseInv, ProcessesOK, FilesInv, HandlersOK
      <3> QED
        BY <1>1, <3>1 DEF Created, QueuedRow, AbsentRow
    <2>2. ASSUME NEW p \in Process, step'[p] # "read"
          PROVE  step'[p] = step[p] /\ proc'[p].pc = "running" /\ proc'[p].job = proc[p].job
      BY <1>1, <2>2 DEF FilesInv, HandlersOK
    <2> QED
      BY <1>1, <1>2, <2>1, <2>2, HandlersKept DEF FilesInv
  <1>7. StoresOK' /\ EvidenceOK'
    BY <1>1, <1>2 DEF FilesInv, StoresOK, EvidenceOK, Recorded, FilesIn
  <1> QED
    BY <1>4, <1>5, <1>6, <1>7 DEF FilesInv

\* The steps of an upload call.
LEMMA UploadKeepsFiles ==
  ASSUME LeaseInv, FilesInv, NEW a \in ArchiveJob, UploadFile(a)
  PROVE  FilesInv'
  <1>1. ASSUME NEW pc \in {"cleaning", "releasing", "over", "abandoned"}, UploadAt(a, pc),
               upload[a].pc # "new", staging' \subseteq staging,
               UNCHANGED <<vars, files, originals, step>>
        PROVE  FilesInv'
    <2>1. FilesStayOpen /\ staging' \subseteq ArchiveJob /\ files' \in [File -> FileRow]
      BY <1>1 DEF FilesStayOpen, FilesInv, StoresOK
    <2>2. \A b \in ArchiveJob : Active(rows[b]) =>
            files'[upload[b].file].state \notin {"PENDING", "FAILED"}
      BY <1>1 DEF FilesInv, ArchiveJobsOK
    <2> QED
      BY <1>1, <2>1, <2>2, UploadPhaseKeepsFiles DEF vars
  <1>2. CASE StagingFails(a)
    BY <1>1, <1>2 DEF StagingFails
  <1>3. CASE UploadRejected(a)
    BY <1>1, <1>3 DEF UploadRejected
  <1>4. CASE RemoveStaging(a)
    BY <1>1, <1>4 DEF RemoveStaging
  <1>5. CASE ReleaseFails(a) \/ BackendCrash(a)
    BY <1>1, <1>5 DEF ReleaseFails, BackendCrash
  <1> QED
    BY <1>2, <1>3, <1>4, <1>5, ReserveKeepsFiles, StageKeepsFiles, EnqueueKeepsFiles,
       ReleaseKeepsFiles DEF UploadFile
\* The job a handler runs exists: its attempt has a declared file and a digest.
LEMMA HandledAttempt ==
  ASSUME LeaseInv, FilesInv, NEW p \in Process, Busy(p), proc[p].job \in ArchiveJob
  PROVE  FileOf(p) \in Registered /\ FileOf(p) \in File /\ ShaOf(p) \in Content
  <1>1. Created(proc[p].job)
    BY DEF FilesInv, HandlersOK
  <1> QED
    BY <1>1 DEF FilesInv, AttemptsOK, FileOf, ShaOf, Registered

\* A handler that reads its staging entry or stores the original.
LEMMA StoringKeepsFiles ==
  ASSUME LeaseInv, FilesInv, NEW p \in Process, ReadStaging(p) \/ PutOriginal(p)
  PROVE  FilesInv'
  <1>1. /\ proc[p].pc = "running" /\ proc[p].job \in ArchiveJob
        /\ UNCHANGED <<rows, proc, files, upload, staging>>
        /\ step \in [Process -> {"read", "put", "record", "return"}]
    BY DEF ReadStaging, PutOriginal, Handling, vars, FilesInv, StoresOK
  <1>2. ShaOf(p) \in Content
    BY <1>1, HandledAttempt DEF Busy
  <1>3. /\ step' \in [Process -> {"read", "put", "record", "return"}]
        /\ \A q \in Process \ {p} : step'[q] = step[q]
        /\ step'[p] \in {"put", "record"}
        /\ step'[p] = "record" => ShaOf(p) \in originals'
        /\ originals \subseteq originals' /\ originals' \subseteq Content
    BY <1>1, <1>2 DEF ReadStaging, PutOriginal, StepTo, FilesInv, StoresOK
  <1>4. HandlersOK'
    BY <1>1, <1>3 DEF FilesInv, HandlersOK, Busy, Created, ShaOf
  <1>5. FilesStayOpen
    BY <1>1 DEF FilesStayOpen
  <1>6. EvidenceOK' /\ Registered \subseteq Registered'
    BY <1>3, <1>5, EvidenceKept DEF FilesInv
  <1>7. AttemptsOK' /\ ArchiveJobsOK'
    BY <1>1 DEF FilesInv, AttemptsOK, ArchiveJobsOK, Created, Registered
  <1> QED
    BY <1>1, <1>3, <1>4, <1>6, <1>7 DEF FilesInv, StoresOK

\* What recordUploadedFile may do to the files.
RecordsFile(f, c) ==
  \/ UNCHANGED files
  \/ /\ f \notin Recorded
     /\ \/ /\ files' = SetFile(f, "ARCHIVED", c)
           /\ ~ \E g \in File \ {f} : files[g] = [state |-> "ARCHIVED", sha |-> c]
        \/ /\ files' = SetFile(f, "SKIPPED_DUPLICATE", c)
           /\ \E g \in File \ {f} : files[g] = [state |-> "ARCHIVED", sha |-> c]

\* A file is recorded with its evidence.
LEMMA RecordingKeepsEvidence ==
  ASSUME files \in [File -> FileRow], EvidenceOK, UNCHANGED originals,
         NEW f \in File, NEW c \in originals, c \in Content, RecordsFile(f, c)
  PROVE  /\ files' \in [File -> FileRow]
         /\ EvidenceOK'
         /\ \A g \in Recorded : files'[g] = files[g]
         /\ \A g \in File : files'[g] # files[g] =>
              g = f /\ files'[g].state \in {"ARCHIVED", "SKIPPED_DUPLICATE"}
  <1>1. CASE UNCHANGED files
    BY <1>1 DEF EvidenceOK, Recorded, FilesIn
  <1>2. ASSUME NEW st \in {"ARCHIVED", "SKIPPED_DUPLICATE"}, f \notin Recorded,
               files' = SetFile(f, st, c)
        PROVE  /\ files' \in [File -> FileRow]
               /\ files'[f].state = st /\ files'[f].sha = c
               /\ \A g \in File \ {f} : files'[g] = files[g]
               /\ \A g \in Recorded : files'[g] = files[g]
               /\ \A g \in Recorded' : files'[g].sha \in originals
    <2>1. /\ files' \in [File -> FileRow]
          /\ files'[f].state = st /\ files'[f].sha = c
          /\ \A g \in File \ {f} : files'[g] = files[g]
      BY <1>2 DEF SetFile, FileRow, FileStates
    <2>2. /\ \A g \in Recorded : g \in File /\ g # f
          /\ \A g \in Recorded' : g \in File /\ (g = f \/ g \in Recorded)
      BY <1>2, <2>1 DEF Recorded, FilesIn
    <2> QED
      BY <2>1, <2>2 DEF EvidenceOK
  <1>3. ASSUME f \notin Recorded, files' = SetFile(f, "ARCHIVED", c),
               ~ \E g \in File \ {f} : files[g] = [state |-> "ARCHIVED", sha |-> c]
        PROVE  EvidenceOK'
    <2>1. /\ files'[f].state = "ARCHIVED" /\ files'[f].sha = c
          /\ \A g \in File \ {f} : files'[g] = files[g]
          /\ \A g \in Recorded' : files'[g].sha \in originals
      BY <1>2, <1>3
    <2>2. \A g \in FilesIn({"ARCHIVED"}) : g # f /\ files[g].sha # c
      BY <1>3 DEF FilesIn, Recorded, FileRow
    <2>3. \A g \in FilesIn({"ARCHIVED"})' : g = f \/ g \in FilesIn({"ARCHIVED"})
      BY <2>1 DEF FilesIn
    <2>4. \A g \in FilesIn({"ARCHIVED"}) : g \in FilesIn({"ARCHIVED"})' /\ files'[g] = files[g]
      BY <2>1, <2>2 DEF FilesIn
    <2>5. \A g \in FilesIn({"SKIPPED_DUPLICATE"})' :
            g \in FilesIn({"SKIPPED_DUPLICATE"}) /\ files'[g] = files[g]
      BY <2>1 DEF FilesIn
    <2> QED
      BY <2>1, <2>2, <2>3, <2>4, <2>5 DEF EvidenceOK
  <1>4. ASSUME f \notin Recorded, files' = SetFile(f, "SKIPPED_DUPLICATE", c),
               \E g \in File \ {f} : files[g] = [state |-> "ARCHIVED", sha |-> c]
        PROVE  EvidenceOK'
    <2>1. /\ files'[f].state = "SKIPPED_DUPLICATE" /\ files'[f].sha = c
          /\ \A g \in File \ {f} : files'[g] = files[g]
          /\ \A g \in Recorded' : files'[g].sha \in originals
      BY <1>2, <1>4
    <2>2. PICK o \in File \ {f} : files[o] = [state |-> "ARCHIVED", sha |-> c]
      BY <1>4
    <2>3. /\ \A g \in FilesIn({"ARCHIVED"})' : g \in FilesIn({"ARCHIVED"}) /\ files'[g] = files[g]
          /\ \A g \in FilesIn({"ARCHIVED"}) : g \in FilesIn({"ARCHIVED"})' /\ files'[g] = files[g]
      BY <1>4, <2>1 DEF FilesIn, Recorded
    <2>4. o \in FilesIn({"ARCHIVED"})' /\ files'[o].sha = c
      BY <2>1, <2>2 DEF FilesIn
    <2>5. \A g \in FilesIn({"SKIPPED_DUPLICATE"})' :
            g = f \/ (g \in FilesIn({"SKIPPED_DUPLICATE"}) /\ files'[g] = files[g])
      BY <2>1 DEF FilesIn
    <2> QED
      BY <2>1, <2>3, <2>4, <2>5 DEF EvidenceOK
  <1> QED
    BY <1>1, <1>2, <1>3, <1>4 DEF RecordsFile
\* recordUploadedFile replays, archives or skips the file of the running job.
LEMMA RecordedByHandler ==
  ASSUME LeaseInv, FilesInv, NEW p \in Process, RecordUploadedFile(p)
  PROVE  /\ proc[p].pc = "running" /\ proc[p].job \in ArchiveJob
         /\ FileOf(p) \in Registered /\ FileOf(p) \in File
         /\ ShaOf(p) \in originals /\ ShaOf(p) \in Content
         /\ RecordsFile(FileOf(p), ShaOf(p))
         /\ UNCHANGED <<rows, proc, upload, staging, originals>>
         /\ StepTo(p, "return")
  <1>1. /\ proc[p].pc = "running" /\ proc[p].job \in ArchiveJob /\ step[p] = "record"
        /\ StepTo(p, "return")
        /\ UNCHANGED <<rows, proc, upload, staging, originals>>
    BY DEF RecordUploadedFile, Handling
  <1>2. RecordsFile(FileOf(p), ShaOf(p))
    BY DEF RecordUploadedFile, RecordsFile, AlreadyRecorded, RecordAsOriginal, RecordAsDuplicate
  <1> QED
    BY <1>1, <1>2, HandledAttempt DEF Busy, FilesInv, HandlersOK

\* Recording keeps everything that is known of files, uploads and handlers.
LEMMA RecordingKeepsFiles ==
  ASSUME LeaseInv, FilesInv, NEW p \in Process, RecordUploadedFile(p)
  PROVE  FilesInv'
  <1>1. /\ proc[p].pc = "running" /\ proc[p].job \in ArchiveJob
        /\ UNCHANGED <<rows, proc, upload, staging, originals>>
        /\ StepTo(p, "return")
    BY RecordedByHandler
  <1>2. /\ files' \in [File -> FileRow]
        /\ EvidenceOK'
        /\ \A g \in File : files'[g] # files[g] =>
             files'[g].state \in {"ARCHIVED", "SKIPPED_DUPLICATE"}
    BY RecordedByHandler, RecordingKeepsEvidence DEF FilesInv, StoresOK
  <1>3. /\ step' \in [Process -> {"read", "put", "record", "return"}]
        /\ step'[p] = "return"
        /\ \A q \in Process \ {p} : step'[q] = step[q]
    BY <1>1 DEF StepTo, FilesInv, StoresOK
  <1>4. Registered \subseteq Registered'
    BY <1>2 DEF Registered
  <1>5. AttemptsOK'
    BY <1>1, <1>4, AttemptsKept DEF FilesInv, Created
  <1>6. ArchiveJobsOK'
    <2>1. ASSUME NEW a \in ArchiveJob, Active(rows[a])
          PROVE  files'[upload[a].file].state \notin {"PENDING", "FAILED"}
      <3>1. upload[a].file \in File
        BY <2>1 DEF FilesInv, AttemptsOK, Created, Active, Registered
      <3> QED
        BY <1>2, <2>1, <3>1 DEF FilesInv, ArchiveJobsOK
    <2> QED
      BY <1>1, <2>1, ArchiveJobsKept DEF FilesInv
  <1>7. HandlersOK'
    BY <1>1, <1>3 DEF FilesInv, HandlersOK, Busy, Created, ShaOf
  <1> QED
    BY <1>1, <1>2, <1>3, <1>5, <1>6, <1>7 DEF FilesInv, StoresOK

\* A step of the queue in which open files at most fail, none under a job.
LEMMA QueueKeepsFiles ==
  ASSUME LeaseInv, FilesInv, QueueStep, UNCHANGED <<upload, originals>>,
         staging' \subseteq staging, files' \in [File -> FileRow], FilesStayOpen,
         ForgetSteps \/ UNCHANGED step,
         \A p \in Process : step'[p] # "read" => proc'[p].pc = "running",
         \A a \in ArchiveJob : Active(rows[a])' /\ Active(rows[a]) =>
           files'[upload[a].file].state \notin {"PENDING", "FAILED"}
  PROVE  FilesInv'
  <1>1. NoNewJobs /\ WorkersKeepJobs
    BY QueueStepKeepsJobs
  <1>2. EvidenceOK' /\ Registered \subseteq Registered'
    BY EvidenceKept DEF FilesInv
  <1>3. AttemptsOK'
    BY <1>1, <1>2, AttemptsKept DEF FilesInv, NoNewJobs, Created
  <1>4. ArchiveJobsOK'
    BY <1>1, ArchiveJobsKept DEF FilesInv, NoNewJobs, ArchiveJob
  <1>5. HandlersOK'
    BY <1>1, HandlersForget DEF FilesInv
  <1>6. step' \in [Process -> {"read", "put", "record", "return"}]
    BY DEF ForgetSteps, FilesInv, StoresOK
  <1> QED
    BY <1>2, <1>3, <1>4, <1>5, <1>6 DEF FilesInv, StoresOK

\* In particular one that leaves the files as they are.
LEMMA QueueKeepsSameFiles ==
  ASSUME LeaseInv, FilesInv, QueueStep, UNCHANGED <<files, upload, originals>>,
         staging' \subseteq staging, ForgetSteps \/ UNCHANGED step,
         \A p \in Process : step'[p] # "read" => proc'[p].pc = "running"
  PROVE  FilesInv'
  <1>1. FilesStayOpen /\ files' \in [File -> FileRow]
    BY DEF FilesStayOpen, FilesInv, StoresOK
  <1>2. \A a \in ArchiveJob : Active(rows[a])' /\ Active(rows[a]) =>
          files'[upload[a].file].state \notin {"PENDING", "FAILED"}
    BY DEF FilesInv, ArchiveJobsOK
  <1> QED
    BY <1>1, <1>2, QueueKeepsFiles

\* A handler that has left its archive job, or runs a grouping job, is at "read".
LEMMA OthersKeepRunning ==
  ASSUME LeaseInv, FilesInv, NEW p \in Process, UNCHANGED step,
         proc[p].pc # "running" \/ proc[p].job \notin ArchiveJob,
         \A q \in Process \ {p} : proc'[q] = proc[q]
  PROVE  \A q \in Process : step'[q] # "read" => proc'[q].pc = "running"
  BY DEF FilesInv, HandlersOK

\* ForgetSteps keeps the steps of running workers only.
LEMMA ForgetKeepsRunning ==
  ASSUME ForgetSteps
  PROVE  \A q \in Process : step'[q] # "read" => proc'[q].pc = "running"
  BY DEF ForgetSteps
\* The last failure of an archive job fails its file in the same transaction.
LEMMA FailArchiveKeepsFiles ==
  ASSUME LeaseInv, FilesInv, NEW p \in Process, FailArchive(p)
  PROVE  FilesInv'
  <1> DEFINE a == proc[p].job
             f == FileOf(p)
  <1>1. /\ FailJob(p) /\ proc[p].pc = "failing" /\ LeaseHeld(p)
        /\ a \in ArchiveJob /\ a \in Job
        /\ rows \in [Job -> Rows] /\ rows[a].state = "RUNNING"
        /\ rows' = [rows EXCEPT ![a] = FailedRow(rows[a])]
        /\ UNCHANGED <<upload, originals, staging, step>>
        /\ files \in [File -> FileRow]
    BY DEF FailArchive, FailJob, ArchiveJob, LeaseHeld, HeldBy, LeaseInv, RowsOK, FilesInv,
         StoresOK
  <1>2. QueueStep
    BY <1>1 DEF QueueStep, Works
  <1>3. \A q \in Process \ {p} : proc'[q] = proc[q]
    BY <1>1 DEF FailJob, Abandon, LeaseInv, ProcessesOK
  <1>4. \A q \in Process : step'[q] # "read" => proc'[q].pc = "running"
    BY <1>1, <1>3, OthersKeepRunning
  <1>5. CASE LastAttempt(rows[a]) /\ files[f].state = "UPLOADING"
    <2>1. f \in File /\ files' = SetAll({f}, "FAILED")
      BY <1>1, <1>5, HandledAttempt DEF FailArchive, Busy
    <2>2. /\ files' \in [File -> FileRow]
          /\ FilesStayOpen
          /\ \A g \in File \ {f} : files'[g] = files[g]
      <3>1. {f} \in SUBSET File /\ \A g \in {f} : files[g].state \in {"PENDING", "UPLOADING"}
        BY <1>5, <2>1
      <3> QED
        BY <1>1, <2>1, <3>1, FailingFiles
    <2>3. ~Active(rows'[a])
      BY <1>1, <1>5 DEF FailedRow, Active
    <2>4. ASSUME NEW b \in ArchiveJob, Active(rows[b])', Active(rows[b])
          PROVE  files'[upload[b].file].state \notin {"PENDING", "FAILED"}
      <3>1. b # a /\ upload[b].file \in File
        BY <2>3, <2>4 DEF FilesInv, AttemptsOK, Created, Active, Registered
      <3>2. upload[b].file # f
        BY <1>1, <2>4, <3>1 DEF FilesInv, ArchiveJobsOK, Active, FileOf
      <3> QED
        BY <2>2, <2>4, <3>1, <3>2 DEF FilesInv, ArchiveJobsOK
    <2> QED
      BY <1>1, <1>2, <1>4, <2>2, <2>4, QueueKeepsFiles
  <1>6. CASE ~(LastAttempt(rows[a]) /\ files[f].state = "UPLOADING")
    <2>1. files' = files
      BY <1>6 DEF FailArchive
    <2> QED
      BY <1>1, <1>2, <1>4, <2>1, QueueKeepsSameFiles
  <1> QED
    BY <1>5, <1>6

\* The steps of a handler.
LEMMA HandlesKeepFiles ==
  ASSUME LeaseInv, FilesInv, NEW p \in Process, Handles(p)
  PROVE  FilesInv'
  <1>1. ASSUME Works(p), UNCHANGED <<files, upload, originals>>, staging' \subseteq staging,
               ForgetSteps
        PROVE  FilesInv'
    BY <1>1, ForgetKeepsRunning, QueueKeepsSameFiles DEF QueueStep
  <1>2. ASSUME Works(p), UNCHANGED <<files, upload, originals, step>>,
               staging' \subseteq staging,
               proc[p].pc # "running" \/ proc[p].job \notin ArchiveJob,
               (\E pc \in Phases : Goto(p, pc)) \/ Abandon(p)
        PROVE  FilesInv'
    <2>1. \A q \in Process \ {p} : proc'[q] = proc[q]
      BY <1>2 DEF Goto, Abandon, LeaseInv, ProcessesOK
    <2>2. \A q \in Process : step'[q] # "read" => proc'[q].pc = "running"
      BY <1>2, <2>1, OthersKeepRunning
    <2> QED
      BY <1>2, <2>2, QueueKeepsSameFiles DEF QueueStep
  <1>3. CASE ReadStaging(p) \/ PutOriginal(p)
    BY <1>3, StoringKeepsFiles
  <1>4. CASE RecordUploadedFile(p)
    BY <1>4, RecordingKeepsFiles
  <1>5. CASE ArchiveThrows(p) \/ ArchiveReturns(p)
    BY <1>1, <1>5 DEF ArchiveThrows, ArchiveReturns, Works
  <1>6. CASE GroupingReturns(p) \/ GroupingThrows(p)
    BY <1>2, <1>6 DEF GroupingReturns, GroupingThrows, HandlerReturns, HandlerThrows, Works,
         importVars, ArchiveJob, Phases
  <1>7. CASE CompleteArchive(p)
    <2>1. session \in SessionStates
      BY DEF LeaseInv, RestOK
    <2> QED
      BY <1>2, <1>7, <2>1 DEF CompleteArchive, CompleteJob, Works, importVars, Phases
  <1>8. CASE CompleteGrouping(p)
    <2>1. "NEEDS_REVIEW" \in SessionStates
      BY DEF SessionStates
    <2> QED
      BY <1>2, <1>8, <2>1 DEF CompleteGrouping, CompleteJob, Works, Phases
  <1>9. CASE CompletionRefused(p)
    BY <1>2, <1>9 DEF CompletionRefused, CompletionConflicts, Works, importVars, Phases
  <1>10. CASE FailArchive(p)
    BY <1>10, FailArchiveKeepsFiles
  <1>11. CASE FailGrouping(p)
    BY <1>2, <1>11 DEF FailGrouping, FailJob, Works
  <1>12. CASE CleanUp(p)
    BY <1>2, <1>12 DEF CleanUp, AfterCommit, Works
  <1>13. CASE OnlyQueue(WorkerRuns(p))
    BY <1>1, <1>13 DEF OnlyQueue, WorkerRuns, Works
  <1> QED
    BY <1>3, <1>4, <1>5, <1>6, <1>7, <1>8, <1>9, <1>10, <1>11, <1>12, <1>13 DEF Handles

\* Cancellation fails the open files and kills every job.
LEMMA CancelKeepsFiles ==
  ASSUME LeaseInv, FilesInv, CancelImport
  PROVE  FilesInv'
  <1>1. /\ CancelSession /\ files \in [File -> FileRow] /\ rows \in [Job -> Rows]
        /\ UNCHANGED <<proc, upload, originals, staging, step>>
        /\ files' = SetAll(FilesIn({"PENDING", "UPLOADING"}), "FAILED")
    BY DEF CancelImport, CancelSession, FilesInv, StoresOK, LeaseInv, RowsOK
  <1>2. files' \in [File -> FileRow] /\ FilesStayOpen
    BY <1>1, FailingFiles DEF FilesIn
  <1>3. \A a \in ArchiveJob : ~Active(rows[a])'
    BY <1>1 DEF CancelSession, CancelledRow, ArchiveJob, Active, Rows
  <1>4. \A p \in Process : step'[p] # "read" => proc'[p].pc = "running"
    BY <1>1 DEF FilesInv, HandlersOK
  <1> QED
    BY <1>1, <1>2, <1>3, <1>4, QueueKeepsFiles DEF QueueStep

\* Queueing a grouping job touches no archive job.
LEMMA StartGroupingKeepsFiles ==
  ASSUME LeaseInv, FilesInv, NEW g \in GroupJob, StartGrouping(g)
  PROVE  FilesInv'
  <1>1. /\ rows' = [j \in Job |-> IF j \in {g} THEN QueuedRow ELSE rows[j]]
        /\ UNCHANGED <<proc, files, upload, originals, staging, step>>
        /\ g \notin ArchiveJob /\ ArchiveJob \subseteq Job
    BY DEF StartGrouping, Enqueue, ArchiveJob
  <1>2. \A a \in ArchiveJob : rows'[a] = rows[a]
    BY <1>1
  <1>3. \A p \in Process : Busy(p)' => Created(proc[p].job)'
    <2>1. ASSUME NEW p \in Process, Busy(p)
          PROVE  proc[p].job \in Job /\ Created(proc[p].job)
      BY <2>1 DEF LeaseInv, ProcessesOK, FilesInv, HandlersOK
    <2> QED
      BY <1>1, <2>1 DEF Busy, Created, QueuedRow, AbsentRow
  <1>4. \A p \in Process : step'[p] # "read" =>
          step'[p] = step[p] /\ proc'[p].pc = "running" /\ proc'[p].job = proc[p].job
    BY <1>1 DEF FilesInv, HandlersOK
  <1>5. HandlersOK'
    BY <1>1, <1>3, <1>4, HandlersKept DEF FilesInv
  <1> QED
    BY <1>1, <1>2, <1>5 DEF FilesInv, StoresOK, AttemptsOK, ArchiveJobsOK, EvidenceOK, Created,
         Registered, Recorded, FilesIn

\* No step of the import breaks what is known of files, uploads and handlers.
LEMMA ImportKeepsFiles ==
  ASSUME LeaseInv, FilesInv, SessionRowsOK, [ImportNext]_allVars
  PROVE  FilesInv'
  <1>1. ASSUME NEW m \in Manifest, RegisterManifest(m) PROVE FilesInv'
    BY <1>1, FilesUntouched, CommitKeepsFiles DEF RegisterManifest, ReadSession, CountFiles,
         RollBackManifest, vars
  <1>2. ASSUME NEW p \in Process, OnlyQueue(WorkerLifecycle(p)) PROVE FilesInv'
    BY <1>2, ForgetKeepsRunning, QueueKeepsSameFiles DEF OnlyQueue, WorkerLifecycle, QueueStep
  <1>3. ASSUME NEW j \in Job, OnlyQueue(TimePasses(j)) PROVE FilesInv'
    BY <1>3, ForgetKeepsRunning, QueueKeepsSameFiles DEF OnlyQueue, QueueStep
  <1>4. CASE UNCHANGED allVars
    BY <1>4, FilesUntouched DEF allVars, vars, importVars
  <1> QED
    BY <1>1, <1>2, <1>3, <1>4, UploadKeepsFiles, StartGroupingKeepsFiles, HandlesKeepFiles,
       CancelKeepsFiles DEF ImportNext
-----------------------------------------------------------------------------
(* The counters of the session row *)

\* A count of files is a number.
LEMMA FileCounts ==
  ASSUME NEW S \in SUBSET File
  PROVE  IsFiniteSet(S) /\ Cardinality(S) \in Nat
  BY ImportAssumption, FS_Subset, FS_CardinalityType

\* What one file that changes its state does to the number of files in S.
LEMMA OneFileCounted ==
  ASSUME NEW S, NEW f \in File, \A g \in File \ {f} : files'[g] = files[g]
  PROVE  /\ (files[f].state \in S <=> files'[f].state \in S) => FilesIn(S)' = FilesIn(S)
         /\ files[f].state \in S /\ files'[f].state \notin S =>
              Cardinality(FilesIn(S)') = Cardinality(FilesIn(S)) - 1 /\ Cardinality(FilesIn(S)) # 0
         /\ files[f].state \notin S /\ files'[f].state \in S =>
              Cardinality(FilesIn(S)') = Cardinality(FilesIn(S)) + 1
  <1>1. IsFiniteSet(FilesIn(S))
    BY FileCounts DEF FilesIn
  <1>2. (files[f].state \in S <=> files'[f].state \in S) => FilesIn(S)' = FilesIn(S)
    BY DEF FilesIn
  <1>3. ASSUME files[f].state \in S, files'[f].state \notin S
        PROVE  /\ Cardinality(FilesIn(S)') = Cardinality(FilesIn(S)) - 1
               /\ Cardinality(FilesIn(S)) # 0
    <2>1. f \in FilesIn(S) /\ FilesIn(S)' = FilesIn(S) \ {f}
      BY <1>3 DEF FilesIn
    <2> QED
      BY <1>1, <2>1, FS_RemoveElement, FS_EmptySet
  <1>4. ASSUME files[f].state \notin S, files'[f].state \in S
        PROVE  Cardinality(FilesIn(S)') = Cardinality(FilesIn(S)) + 1
    <2>1. f \notin FilesIn(S) /\ FilesIn(S)' = FilesIn(S) \cup {f}
      BY <1>4 DEF FilesIn
    <2> QED
      BY <1>1, <2>1, FS_AddElement
  <1> QED
    BY <1>2, <1>3, <1>4

\* OneLess counts down within the naturals.
LEMMA OneLessOfCount ==
  ASSUME NEW n \in Nat
  PROVE  OneLess(n) \in Nat /\ (n # 0 => OneLess(n) = n - 1)
  BY DEF OneLess

\* What else than the counters by state a step leaves in the session row.
SameDeclaration ==
  tally' \in TallyRow /\ tally'.declared = tally.declared /\ tally'.checkpoint = tally.checkpoint

\* A recount after a step that records nothing.
LEMMA RecountCounts ==
  ASSUME tally \in TallyRow, StatesCounted, tally' = Recount(files'),
         FilesIn({"ARCHIVED"})' = FilesIn({"ARCHIVED"}),
         FilesIn({"SKIPPED_DUPLICATE"})' = FilesIn({"SKIPPED_DUPLICATE"})
  PROVE  StatesCounted' /\ SameDeclaration
  <1> DEFINE failed == {f \in File : files'[f].state = "FAILED"}
  <1>1. failed = FilesIn({"FAILED"})'
    BY DEF FilesIn
  <1>2. Cardinality(failed) \in Nat
    BY FileCounts
  <1>3. tally' = [tally EXCEPT !.failed = Cardinality(failed)]
    BY DEF Recount
  <1> HIDE DEF failed
  <1>4. /\ tally' \in TallyRow
        /\ tally'.failed = Cardinality(failed)
        /\ tally'.archived = tally.archived
        /\ tally'.skipped = tally.skipped
        /\ tally'.declared = tally.declared
        /\ tally'.checkpoint = tally.checkpoint
    BY <1>2, <1>3 DEF TallyRow
  <1> QED
    BY <1>1, <1>4 DEF StatesCounted, SameDeclaration

\* A step that changes neither files nor counters.
LEMMA SameCounts ==
  ASSUME tally \in TallyRow, StatesCounted, UNCHANGED <<files, tally>>
  PROVE  StatesCounted' /\ SameDeclaration
  BY DEF StatesCounted, FilesIn, SameDeclaration

\* A step that only writes the declared count or the checkpoint.
LEMMA OtherColumnsCounts ==
  ASSUME tally \in TallyRow, StatesCounted, tally' \in TallyRow,
         tally'.archived = tally.archived, tally'.skipped = tally.skipped,
         tally'.failed = tally.failed,
         \A S \in {{"ARCHIVED"}, {"SKIPPED_DUPLICATE"}, {"FAILED"}} : FilesIn(S)' = FilesIn(S)
  PROVE  StatesCounted'
  BY DEF StatesCounted

\* A reservation of a failed file counts it down.
LEMMA ReserveCounts ==
  ASSUME FilesInv, tally \in TallyRow, StatesCounted,
         NEW a \in ArchiveJob, NEW f \in File, ReserveUpload(a, f)
  PROVE  StatesCounted' /\ SameDeclaration
  <1>1. /\ files[f].state \in {"PENDING", "FAILED"}
        /\ files'[f].state = "UPLOADING"
        /\ \A g \in File \ {f} : files'[g] = files[g]
    BY DEF FilesInv, StoresOK, ReserveUpload, Uploadable, FileRow
  <1>2. /\ FilesIn({"ARCHIVED"})' = FilesIn({"ARCHIVED"})
        /\ FilesIn({"SKIPPED_DUPLICATE"})' = FilesIn({"SKIPPED_DUPLICATE"})
    BY <1>1, OneFileCounted
  <1>3. CASE files[f].state = "FAILED"
    <2>1. /\ Cardinality(FilesIn({"FAILED"})') = Cardinality(FilesIn({"FAILED"})) - 1
          /\ Cardinality(FilesIn({"FAILED"})) # 0
      BY <1>1, <1>3, OneFileCounted
    <2>2. OneLess(tally.failed) \in Nat /\ OneLess(tally.failed) = tally.failed - 1
      BY <2>1, OneLessOfCount DEF StatesCounted, TallyRow
    <2>3. tally' = [tally EXCEPT !.failed = OneLess(tally.failed)]
      BY <1>3 DEF ReserveUpload
    <2>4. /\ tally' \in TallyRow
          /\ tally'.failed = OneLess(tally.failed)
          /\ tally'.archived = tally.archived
          /\ tally'.skipped = tally.skipped
          /\ tally'.declared = tally.declared
          /\ tally'.checkpoint = tally.checkpoint
      BY <2>2, <2>3 DEF TallyRow
    <2> QED
      BY <1>2, <2>1, <2>2, <2>4 DEF StatesCounted, SameDeclaration
  <1>4. CASE files[f].state = "PENDING"
    <2>1. FilesIn({"FAILED"})' = FilesIn({"FAILED"}) /\ tally' = tally
      BY <1>1, <1>4, OneFileCounted DEF ReserveUpload
    <2> QED
      BY <1>2, <2>1 DEF StatesCounted, SameDeclaration
  <1> QED
    BY <1>1, <1>3, <1>4
\* The checkpoints by name, with their ranks.
LEMMA CheckpointRanks ==
  /\ Checkpoints = {"NONE", "ARCHIVED", "GROUPED", "LABELED", "PROCESSED", "REVIEWED", "PUBLISHED"}
  /\ CheckpointRank["NONE"] = 0 /\ CheckpointRank["ARCHIVED"] = 1 /\ CheckpointRank["GROUPED"] = 2
  /\ CheckpointRank["LABELED"] = 3 /\ CheckpointRank["PROCESSED"] = 4
  /\ CheckpointRank["REVIEWED"] = 5 /\ CheckpointRank["PUBLISHED"] = 6
  BY DEF Checkpoints, CheckpointRank

\* advanceCheckpoint sets a marker and never moves back.
LEMMA CheckpointAdvances ==
  ASSUME NEW c \in Checkpoints, NEW d \in {"ARCHIVED", "GROUPED"}
  PROVE  /\ AdvanceCheckpoint(c, d) \in Checkpoints \ {"NONE"}
         /\ AdvanceCheckpoint(c, d) \in {c, d}
         /\ CheckpointRank[AdvanceCheckpoint(c, d)] >= CheckpointRank[d]
         /\ CheckpointRank[c] >= CheckpointRank[d] => AdvanceCheckpoint(c, d) = c
  BY CheckpointRanks DEF AdvanceCheckpoint

\* failUploadReservation, the last failure of a job and cancellation recount.
LEMMA FailureCounts ==
  ASSUME FilesInv, tally \in TallyRow, StatesCounted, originals \subseteq originals',
         files' \in [File -> FileRow], FilesStayOpen,
         tally' = Recount(files') \/ UNCHANGED <<tally, files>>
  PROVE  StatesCounted' /\ SameDeclaration
  <1>1. /\ FilesIn({"ARCHIVED"})' = FilesIn({"ARCHIVED"})
        /\ FilesIn({"SKIPPED_DUPLICATE"})' = FilesIn({"SKIPPED_DUPLICATE"})
    BY EvidenceKept DEF FilesInv
  <1> QED
    BY <1>1, RecountCounts, SameCounts

\* Counting one more file, as a record of counters.
LEMMA CountedRow ==
  ASSUME tally \in TallyRow, NEW f
  PROVE  LET less == IF files[f].state = "FAILED" THEN OneLess(tally.failed) ELSE tally.failed IN
         /\ Counted("archived", f) = [tally EXCEPT !.archived = tally.archived + 1, !.failed = less]
         /\ Counted("skipped", f) = [tally EXCEPT !.skipped = tally.skipped + 1, !.failed = less]
         /\ Counted("archived", f).checkpoint = tally.checkpoint
         /\ Counted("skipped", f).checkpoint = tally.checkpoint
  <1> DEFINE less == IF files[f].state = "FAILED" THEN OneLess(tally.failed) ELSE tally.failed
             a == tally.archived + 1
             s == tally.skipped + 1
  <1>1. /\ tally.failed = [tally EXCEPT !.archived = a].failed
        /\ tally.failed = [tally EXCEPT !.skipped = s].failed
    <2> HIDE DEF a, s
    <2> QED
      BY DEF TallyRow
  <1>2. Counted("archived", f) = [tally EXCEPT !.archived = a, !.failed = less]
    BY <1>1, Zenon DEF Counted
  <1>3. Counted("skipped", f) = [tally EXCEPT !.skipped = s, !.failed = less]
    BY <1>1, Zenon DEF Counted
  <1> HIDE DEF a, s, less
  <1>4. /\ [tally EXCEPT !.archived = a, !.failed = less].checkpoint = tally.checkpoint
        /\ [tally EXCEPT !.skipped = s, !.failed = less].checkpoint = tally.checkpoint
    BY DEF TallyRow
  <1> QED
    BY <1>2, <1>3, <1>4 DEF a, s, less

\* A recorded file counts as archived or skipped, and no longer as failed.
LEMMA RecordCounts ==
  ASSUME FilesInv, tally \in TallyRow, StatesCounted, NEW f \in File, f \notin Recorded,
         NEW c \in Content,
         \/ files' = SetFile(f, "ARCHIVED", c) /\ RecordIn("archived", f)
         \/ files' = SetFile(f, "SKIPPED_DUPLICATE", c) /\ RecordIn("skipped", f)
  PROVE  /\ StatesCounted' /\ tally' \in TallyRow /\ tally'.declared = tally.declared
         /\ LastFile => tally'.checkpoint = AdvanceCheckpoint(tally.checkpoint, "ARCHIVED")
         /\ ~LastFile => tally'.checkpoint = tally.checkpoint
  <1> DEFINE less == IF files[f].state = "FAILED" THEN OneLess(tally.failed) ELSE tally.failed
             mark == IF LastFile THEN AdvanceCheckpoint(tally.checkpoint, "ARCHIVED")
                                 ELSE tally.checkpoint
  <1>1. /\ files[f].state \notin {"ARCHIVED", "SKIPPED_DUPLICATE"}
        /\ \A g \in File \ {f} : files'[g] = files[g]
        /\ \/ files'[f].state = "ARCHIVED" /\ RecordIn("archived", f)
           \/ files'[f].state = "SKIPPED_DUPLICATE" /\ RecordIn("skipped", f)
    BY DEF FilesInv, StoresOK, SetFile, FileRow, Recorded, FilesIn
  <1>2. Cardinality(FilesIn({"FAILED"})) \in Nat
    BY FileCounts DEF FilesIn
  <1>3. less \in Nat /\ less = Cardinality(FilesIn({"FAILED"})')
    <2>1. CASE files[f].state = "FAILED"
      <3>1. /\ Cardinality(FilesIn({"FAILED"})') = Cardinality(FilesIn({"FAILED"})) - 1
            /\ Cardinality(FilesIn({"FAILED"})) # 0
        BY <1>1, <2>1, OneFileCounted
      <3> QED
        BY <1>2, <2>1, <3>1, OneLessOfCount DEF StatesCounted, TallyRow
    <2>2. CASE files[f].state # "FAILED"
      <3>1. FilesIn({"FAILED"})' = FilesIn({"FAILED"})
        BY <1>1, <2>2, OneFileCounted
      <3> QED
        BY <1>2, <2>2, <3>1 DEF StatesCounted, TallyRow
    <2> QED
      BY <2>1, <2>2
  <1>4. mark \in Checkpoints
    BY CheckpointAdvances DEF TallyRow
  <1>5. CASE files'[f].state = "ARCHIVED" /\ RecordIn("archived", f)
    <2>1. /\ Cardinality(FilesIn({"ARCHIVED"})') = Cardinality(FilesIn({"ARCHIVED"})) + 1
          /\ FilesIn({"SKIPPED_DUPLICATE"})' = FilesIn({"SKIPPED_DUPLICATE"})
      BY <1>1, <1>5, OneFileCounted
    <2>2. tally' = [tally EXCEPT !.archived = tally.archived + 1, !.failed = less,
                                 !.checkpoint = mark]
      <3>1. tally' = IF LastFile
                     THEN [Counted("archived", f) EXCEPT
                             !.checkpoint = AdvanceCheckpoint(tally.checkpoint, "ARCHIVED")]
                     ELSE Counted("archived", f)
        BY <1>5, CountedRow DEF RecordIn
      <3>2. Counted("archived", f) = [tally EXCEPT !.archived = tally.archived + 1, !.failed = less]
        BY CountedRow
      <3> DEFINE one == tally.archived + 1
      <3> HIDE DEF less, one
      <3>3. tally.checkpoint = [tally EXCEPT !.archived = one, !.failed = less].checkpoint
        BY DEF TallyRow
      <3> QED
        BY <3>1, <3>2, <3>3 DEF one
    <2> DEFINE one == tally.archived + 1
    <2>3. one \in Nat
      BY DEF TallyRow
    <2> HIDE DEF less, mark, one
    <2>4. /\ tally' \in TallyRow
          /\ tally'.archived = one /\ tally'.skipped = tally.skipped
          /\ tally'.failed = less /\ tally'.declared = tally.declared /\ tally'.checkpoint = mark
      <3>1. tally' = [tally EXCEPT !.archived = one, !.failed = less, !.checkpoint = mark]
        BY <2>2 DEF one
      <3> QED
        BY <1>3, <1>4, <2>3, <3>1 DEF TallyRow
    <2> QED
      BY <1>3, <2>1, <2>4 DEF StatesCounted, mark, one
  <1>6. CASE files'[f].state = "SKIPPED_DUPLICATE" /\ RecordIn("skipped", f)
    <2>1. /\ Cardinality(FilesIn({"SKIPPED_DUPLICATE"})')
               = Cardinality(FilesIn({"SKIPPED_DUPLICATE"})) + 1
          /\ FilesIn({"ARCHIVED"})' = FilesIn({"ARCHIVED"})
      BY <1>1, <1>6, OneFileCounted
    <2>2. tally' = [tally EXCEPT !.skipped = tally.skipped + 1, !.failed = less,
                                 !.checkpoint = mark]
      <3>1. tally' = IF LastFile
                     THEN [Counted("skipped", f) EXCEPT
                             !.checkpoint = AdvanceCheckpoint(tally.checkpoint, "ARCHIVED")]
                     ELSE Counted("skipped", f)
        BY <1>6, CountedRow DEF RecordIn
      <3>2. Counted("skipped", f) = [tally EXCEPT !.skipped = tally.skipped + 1, !.failed = less]
        BY CountedRow
      <3> DEFINE one == tally.skipped + 1
      <3> HIDE DEF less, one
      <3>3. tally.checkpoint = [tally EXCEPT !.skipped = one, !.failed = less].checkpoint
        BY DEF TallyRow
      <3> QED
        BY <3>1, <3>2, <3>3 DEF one
    <2> DEFINE one == tally.skipped + 1
    <2>3. one \in Nat
      BY DEF TallyRow
    <2> HIDE DEF less, mark, one
    <2>4. /\ tally' \in TallyRow
          /\ tally'.skipped = one /\ tally'.archived = tally.archived
          /\ tally'.failed = less /\ tally'.declared = tally.declared /\ tally'.checkpoint = mark
      <3>1. tally' = [tally EXCEPT !.skipped = one, !.failed = less, !.checkpoint = mark]
        BY <2>2 DEF one
      <3> QED
        BY <1>3, <1>4, <2>3, <3>1 DEF TallyRow
    <2> QED
      BY <1>3, <2>1, <2>4 DEF StatesCounted, mark, one
  <1> QED
    BY <1>1, <1>5, <1>6
-----------------------------------------------------------------------------
(* Steps that record and group nothing *)

\* The session does not come back to the states in which manifests register.
SessionMovesOn == session' = session \/ session' \notin {"CREATED", "UPLOADING"}

NoNewGroupJobs == \A g \in GroupJob : Created(g)' => Created(g)

\* A step that declares, records and groups nothing and keeps the counters.
OpenStep ==
  /\ StatesCounted' /\ SameDeclaration
  /\ FilesStayOpen /\ Registered' = Registered
  /\ UNCHANGED <<reg, grouped, asked>>
  /\ NoNewGroupJobs /\ SessionMovesOn

\* Such are the steps that leave files and session row alone.
LEMMA UntouchedIsOpen ==
  ASSUME tally \in TallyRow, StatesCounted, UNCHANGED <<files, tally, reg, grouped, asked>>,
         NoNewGroupJobs, SessionMovesOn
  PROVE  OpenStep
  BY SameCounts DEF OpenStep, FilesStayOpen, Registered

\* Steps that fail open files are such.
LEMMA FailingIsOpen ==
  ASSUME FilesInv, tally \in TallyRow, StatesCounted, originals \subseteq originals',
         NEW fs \in SUBSET File,
         \A f \in fs : files[f].state \in {"PENDING", "UPLOADING"},
         files' = IF fs = {} THEN files ELSE SetAll(fs, "FAILED"),
         tally' = Recount(files') \/ (fs = {} /\ UNCHANGED tally),
         UNCHANGED <<reg, grouped, asked>>, NoNewGroupJobs, SessionMovesOn
  PROVE  OpenStep
  <1>1. files \in [File -> FileRow]
    BY DEF FilesInv, StoresOK
  <1>2. /\ files' \in [File -> FileRow]
        /\ FilesStayOpen
        /\ Registered' = Registered
    <2>1. CASE fs = {}
      BY <1>1, <2>1 DEF FilesStayOpen, Registered
    <2>2. CASE fs # {}
      <3>1. /\ files' \in [File -> FileRow]
            /\ FilesStayOpen
            /\ \A f \in fs : files'[f].state = "FAILED"
            /\ \A f \in File \ fs : files'[f] = files[f]
        BY <1>1, <2>2, FailingFiles
      <3> QED
        BY <3>1 DEF Registered
    <2> QED
      BY <2>1, <2>2
  <1>3. StatesCounted' /\ SameDeclaration
    BY <1>2, FailureCounts
  <1> QED
    BY <1>2, <1>3 DEF OpenStep

\* The steps of an upload call.
LEMMA UploadIsOpen ==
  ASSUME LeaseInv, FilesInv, tally \in TallyRow, StatesCounted,
         NEW a \in ArchiveJob, UploadFile(a)
  PROVE  OpenStep
  <1>1. UNCHANGED rows => NoNewGroupJobs
    BY DEF NoNewGroupJobs, Created
  <1>2. ASSUME NEW f \in File, ReserveUpload(a, f) PROVE OpenStep
    <2>1. /\ files[f].state \in {"PENDING", "FAILED"}
          /\ files'[f].state = "UPLOADING"
          /\ \A g \in File \ {f} : files'[g] = files[g]
          /\ UNCHANGED <<rows, session, reg, grouped, asked>>
      BY <1>2 DEF FilesInv, StoresOK, ReserveUpload, Uploadable, FileRow, vars
    <2>2. FilesStayOpen /\ Registered' = Registered
      BY <2>1 DEF FilesStayOpen, Registered, Recorded, FilesIn
    <2> QED
      BY <1>1, <1>2, <2>1, <2>2, ReserveCounts DEF OpenStep, SessionMovesOn
  <1>3. CASE \/ \E c \in Content : StageUpload(a, c)
             \/ StagingFails(a) \/ UploadRejected(a) \/ RemoveStaging(a)
             \/ ReleaseFails(a) \/ BackendCrash(a)
    <2>1. UNCHANGED <<rows, session, files, tally, reg, grouped, asked>>
      BY <1>3 DEF StageUpload, StagingFails, UploadRejected, RemoveStaging, ReleaseFails,
         BackendCrash, vars
    <2> QED
      BY <1>1, <2>1, UntouchedIsOpen DEF SessionMovesOn
  <1>4. CASE EnqueueArchiveFile(a)
    <2>1. /\ UNCHANGED <<files, tally, reg, grouped, asked>>
          /\ rows' = [j \in Job |-> IF j \in {a} THEN QueuedRow ELSE rows[j]]
          /\ session' = IF session = "UPLOADING" THEN "ARCHIVING" ELSE session
      BY <1>4 DEF EnqueueArchiveFile, Enqueue
    <2>2. NoNewGroupJobs
      <3>1. \A g \in GroupJob : g \in Job /\ g # a
        BY ImportAssumption DEF ArchiveJob
      <3> QED
        BY <2>1, <3>1 DEF NoNewGroupJobs, Created
    <2> QED
      BY <2>1, <2>2, UntouchedIsOpen DEF SessionMovesOn
  <1>5. CASE ReleaseReservation(a)
    <2> DEFINE f == upload[a].file
    <2>1. /\ f \in File
          /\ UNCHANGED <<rows, session, originals, reg, grouped, asked>>
          /\ files' = IF Releasable(f) THEN SetAll({f}, "FAILED") ELSE files
          /\ tally' = IF AcceptsUploads /\ files'[f].state = "FAILED" THEN Recount(files') ELSE tally
      BY <1>5 DEF FilesInv, AttemptsOK, Registered, ReleaseReservation, vars
    <2>2. NoNewGroupJobs /\ SessionMovesOn
      BY <1>1, <2>1 DEF SessionMovesOn
    <2>3. CASE Releasable(f)
      <3>1. files[f].state = "UPLOADING" /\ AcceptsUploads
        BY <2>3 DEF Releasable
      <3>2. files' = SetAll({f}, "FAILED")
        BY <2>1, <2>3
      <3>3. files'[f].state = "FAILED"
        <4>1. /\ files \in [File -> FileRow] /\ {f} \in SUBSET File
              /\ \A g \in {f} : files[g].state \in {"PENDING", "UPLOADING"}
          BY <2>1, <3>1 DEF FilesInv, StoresOK
        <4> HIDE DEF f
        <4>2. \A g \in {f} : files'[g].state = "FAILED"
          BY <3>2, <4>1, FailingFiles
        <4> QED
          BY <4>2
      <3>4. /\ {f} \in SUBSET File /\ {f} # {}
            /\ \A g \in {f} : files[g].state \in {"PENDING", "UPLOADING"}
            /\ tally' = Recount(files')
        BY <2>1, <3>1, <3>3
      <3> HIDE DEF f
      <3> QED
        BY <2>1, <2>2, <3>2, <3>4, FailingIsOpen
    <2>4. CASE ~Releasable(f)
      <3>1. files' = files /\ (tally' = Recount(files') \/ UNCHANGED tally)
        BY <2>1, <2>4
      <3>2. {} \in SUBSET File /\ \A g \in {} : files[g].state \in {"PENDING", "UPLOADING"}
        OBVIOUS
      <3> QED
        BY <2>1, <2>2, <3>1, <3>2, FailingIsOpen
    <2> QED
      BY <2>3, <2>4
  <1> QED
    BY <1>2, <1>3, <1>4, <1>5 DEF UploadFile
\* A step of the queue brings no grouping job.
LEMMA QueueStepGroups ==
  ASSUME LeaseInv, QueueStep
  PROVE  NoNewGroupJobs
  BY QueueStepKeepsJobs, ImportAssumption DEF NoNewJobs, NoNewGroupJobs, Created

\* A worker only moves the session by a completion or by a last failure.
LEMMA WorksMovesOn ==
  ASSUME NEW p \in Process, Works(p), ~\E s \in SessionStates : CompleteJob(p, s)
  PROVE  SessionMovesOn
  <1>1. CASE FailJob(p)
    BY <1>1 DEF FailJob, TerminalFailureState, SessionMovesOn
  <1>2. CASE ~FailJob(p)
    BY <1>2 DEF Works, FirstBeat, LosingBeat, DiscardOutcome, HandlerReturns, HandlerThrows,
         CompletionConflicts, CompletionBreaks, ProbeLease, FailureConflicts, AfterCommit,
         SessionMovesOn
  <1> QED
    BY <1>1, <1>2

\* The steps of a handler that neither record nor group.
LEMMA HandlesIsOpen ==
  ASSUME LeaseInv, FilesInv, tally \in TallyRow, StatesCounted,
         NEW p \in Process, Handles(p), ~CompleteGrouping(p),
         RecordUploadedFile(p) => AlreadyRecorded(FileOf(p), ShaOf(p))
  PROVE  OpenStep
  <1>1. ASSUME UNCHANGED <<rows, session, files, tally, reg, grouped, asked>> PROVE OpenStep
    BY <1>1, UntouchedIsOpen DEF NoNewGroupJobs, Created, SessionMovesOn
  <1>2. ASSUME Works(p), SessionMovesOn, UNCHANGED <<files, tally, reg, grouped, asked>>
        PROVE  OpenStep
    BY <1>2, QueueStepGroups, UntouchedIsOpen DEF QueueStep
  <1>3. CASE ReadStaging(p) \/ PutOriginal(p)
    BY <1>1, <1>3 DEF ReadStaging, PutOriginal, vars
  <1>4. CASE RecordUploadedFile(p)
    BY <1>1, <1>4 DEF RecordUploadedFile, AlreadyRecorded
  <1>5. CASE \/ ArchiveThrows(p) \/ ArchiveReturns(p)
             \/ GroupingReturns(p) \/ GroupingThrows(p)
             \/ CompletionRefused(p) \/ CleanUp(p)
    <2>1. Works(p) /\ UNCHANGED <<session, files, tally, reg, grouped, asked>>
      BY <1>5 DEF ArchiveThrows, ArchiveReturns, GroupingReturns, GroupingThrows,
           CompletionRefused, CleanUp, HandlerThrows, HandlerReturns, CompletionConflicts,
           AfterCommit, Works, importVars
    <2> QED
      BY <1>2, <2>1 DEF SessionMovesOn
  <1>6. CASE CompleteArchive(p)
    <2>1. session \in SessionStates
      BY DEF LeaseInv, RestOK
    <2> QED
      BY <1>2, <1>6, <2>1 DEF CompleteArchive, CompleteJob, Works, importVars, SessionMovesOn
  <1>7. CASE FailArchive(p)
    <2> DEFINE f == FileOf(p)
               dies == LastAttempt(rows[proc[p].job])
    <2>1. /\ Works(p) /\ SessionMovesOn
          /\ UNCHANGED <<originals, reg, grouped, asked>>
          /\ files' = IF dies /\ files[f].state = "UPLOADING" THEN SetAll({f}, "FAILED") ELSE files
          /\ tally' = IF dies THEN Recount(files') ELSE tally
      BY <1>7 DEF FailArchive, Works, FailJob, SessionMovesOn, TerminalFailureState
    <2>2. f \in File
      BY <1>7, HandledAttempt DEF FailArchive, FailJob, Busy
    <2>3. NoNewGroupJobs
      BY <2>1, QueueStepGroups DEF QueueStep
    <2>4. CASE dies /\ files[f].state = "UPLOADING"
      <3>1. /\ {f} \in SUBSET File /\ {f} # {}
            /\ \A g \in {f} : files[g].state \in {"PENDING", "UPLOADING"}
            /\ files' = SetAll({f}, "FAILED") /\ tally' = Recount(files')
        BY <2>1, <2>2, <2>4
      <3> HIDE DEF f
      <3> QED
        BY <2>1, <2>3, <3>1, FailingIsOpen
    <2>5. CASE ~(dies /\ files[f].state = "UPLOADING")
      <3>1. files' = files /\ (tally' = Recount(files') \/ UNCHANGED tally)
        BY <2>1, <2>5
      <3>2. {} \in SUBSET File /\ \A g \in {} : files[g].state \in {"PENDING", "UPLOADING"}
        OBVIOUS
      <3> QED
        BY <2>1, <2>3, <3>1, <3>2, FailingIsOpen
    <2> QED
      BY <2>4, <2>5
  <1>8. CASE FailGrouping(p)
    <2>1. /\ Works(p) /\ SessionMovesOn
          /\ UNCHANGED <<files, originals, reg, grouped, asked>>
          /\ tally' = Recount(files') \/ UNCHANGED tally
      BY <1>8 DEF FailGrouping, Works, FailJob, SessionMovesOn, TerminalFailureState
    <2>2. {} \in SUBSET File /\ \A g \in {} : files[g].state \in {"PENDING", "UPLOADING"}
      OBVIOUS
    <2> QED
      BY <2>1, <2>2, QueueStepGroups, FailingIsOpen DEF QueueStep
  <1>9. CASE OnlyQueue(WorkerRuns(p))
    <2>1. Works(p) /\ UNCHANGED <<session, files, tally, reg, grouped, asked>>
      BY <1>9 DEF OnlyQueue, WorkerRuns, FirstBeat, LosingBeat, DiscardOutcome,
           CompletionBreaks, ProbeLease, FailureConflicts, Works
    <2> QED
      BY <1>2, <2>1 DEF SessionMovesOn
  <1> QED
    BY <1>3, <1>4, <1>5, <1>6, <1>7, <1>8, <1>9 DEF Handles

\* Cancellation.
LEMMA CancelIsOpen ==
  ASSUME LeaseInv, FilesInv, tally \in TallyRow, StatesCounted, CancelImport
  PROVE  OpenStep
  <1> DEFINE fs == FilesIn({"PENDING", "UPLOADING"})
  <1>1. /\ UNCHANGED <<originals, reg, grouped, asked>>
        /\ files' = SetAll(fs, "FAILED")
        /\ tally' = Recount(files')
        /\ SessionMovesOn /\ QueueStep
    BY DEF CancelImport, CancelSession, SessionMovesOn, QueueStep
  <1>2. /\ fs \in SUBSET File
        /\ \A f \in fs : files[f].state \in {"PENDING", "UPLOADING"}
    BY DEF FilesIn
  <1>3. fs = {} => SetAll(fs, "FAILED") = files
    BY DEF FilesInv, StoresOK, SetAll
  <1> HIDE DEF fs
  <1> QED
    BY <1>1, <1>2, <1>3, QueueStepGroups, FailingIsOpen

\* What is left besides: registration, recording, and grouping.
LEMMA ImportStepKinds ==
  ASSUME LeaseInv, FilesInv, tally \in TallyRow, StatesCounted, [ImportNext]_allVars
  PROVE  \/ OpenStep
         \/ \E m \in Manifest : RegisterManifest(m)
         \/ \E g \in GroupJob : StartGrouping(g)
         \/ \E p \in Process : CompleteGrouping(p)
         \/ \E p \in Process : RecordUploadedFile(p) /\ ~AlreadyRecorded(FileOf(p), ShaOf(p))
  <1>1. ASSUME NEW p \in Process, OnlyQueue(WorkerLifecycle(p)) PROVE OpenStep
    <2>1. QueueStep /\ UNCHANGED <<session, files, tally, reg, grouped, asked>>
      BY <1>1 DEF OnlyQueue, WorkerLifecycle, QueueStep, Claims, Claim, RequestShutdown, Restart,
           Crash
    <2> QED
      BY <2>1, QueueStepGroups, UntouchedIsOpen DEF SessionMovesOn
  <1>2. ASSUME NEW j \in Job, OnlyQueue(TimePasses(j)) PROVE OpenStep
    <2>1. QueueStep /\ UNCHANGED <<session, files, tally, reg, grouped, asked>>
      BY <1>2 DEF OnlyQueue, QueueStep, TimePasses, LeaseExpires, Stall, BackoffElapses
    <2> QED
      BY <2>1, QueueStepGroups, UntouchedIsOpen DEF SessionMovesOn
  <1>3. CASE UNCHANGED allVars
    BY <1>3, UntouchedIsOpen DEF allVars, vars, importVars, NoNewGroupJobs, Created,
         SessionMovesOn
  <1> QED
    BY <1>1, <1>2, <1>3, UploadIsOpen, HandlesIsOpen, CancelIsOpen DEF ImportNext
\* What a new recording does to the session row and to the sets of files.
LEMMA NewRecording ==
  ASSUME LeaseInv, FilesInv, tally \in TallyRow, StatesCounted, NEW p \in Process,
         RecordUploadedFile(p), ~AlreadyRecorded(FileOf(p), ShaOf(p))
  PROVE  /\ FileOf(p) \in Registered \ Recorded
         /\ StatesCounted' /\ tally' \in TallyRow /\ tally'.declared = tally.declared
         /\ LastFile => tally'.checkpoint = AdvanceCheckpoint(tally.checkpoint, "ARCHIVED")
         /\ ~LastFile => tally'.checkpoint = tally.checkpoint
         /\ session' = StateAfterRecording
         /\ UNCHANGED <<rows, reg, grouped, asked>>
         /\ Registered' = Registered /\ Recorded' = Recorded \cup {FileOf(p)}
  <1> DEFINE f == FileOf(p)
             c == ShaOf(p)
  <1>1. /\ f \in Registered /\ f \in File /\ c \in Content
        /\ files \in [File -> FileRow]
    BY RecordedByHandler DEF FilesInv, StoresOK
  <1>2. /\ f \notin Recorded
        /\ RecordAsOriginal(f, c) \/ RecordAsDuplicate(f, c)
        /\ UNCHANGED <<rows, reg, grouped, asked>>
    BY DEF RecordUploadedFile
  <1>3. /\ \/ files' = SetFile(f, "ARCHIVED", c) /\ RecordIn("archived", f)
           \/ files' = SetFile(f, "SKIPPED_DUPLICATE", c) /\ RecordIn("skipped", f)
        /\ session' = StateAfterRecording
    BY <1>2 DEF RecordAsOriginal, RecordAsDuplicate, RecordIn
  <1> HIDE DEF f, c
  <1>4. /\ files'[f].state \in {"ARCHIVED", "SKIPPED_DUPLICATE"}
        /\ \A g \in File \ {f} : files'[g] = files[g]
    BY <1>1, <1>3 DEF SetFile, FileRow
  <1>5. Registered' = Registered /\ Recorded' = Recorded \cup {f}
    BY <1>1, <1>4 DEF Registered, Recorded, FilesIn
  <1>6. /\ StatesCounted' /\ tally' \in TallyRow /\ tally'.declared = tally.declared
        /\ LastFile => tally'.checkpoint = AdvanceCheckpoint(tally.checkpoint, "ARCHIVED")
        /\ ~LastFile => tally'.checkpoint = tally.checkpoint
    BY <1>1, <1>2, <1>3, RecordCounts
  <1>7. f \in Registered \ Recorded
    BY <1>1, <1>2
  <1> QED
    BY <1>2, <1>3, <1>5, <1>6, <1>7 DEF f, c

\* applyGroupSessionResult sets the groups and the checkpoint.
LEMMA GroupingCompletes ==
  ASSUME LeaseInv, FilesInv, SessionRowsOK, StatesCounted, NEW p \in Process, CompleteGrouping(p)
  PROVE  /\ StatesCounted' /\ SessionRowsOK' /\ tally'.declared = tally.declared
         /\ tally'.checkpoint = AdvanceCheckpoint(tally.checkpoint, "GROUPED")
         /\ proc[p].job \in GroupJob /\ Created(proc[p].job)
         /\ grouped' = FilesIn({"ARCHIVED"})
         /\ UNCHANGED <<files, reg>> /\ NoNewGroupJobs /\ session' = "NEEDS_REVIEW"
  <1>1. /\ proc[p].job \in GroupJob /\ LeaseHeld(p) /\ QueueStep
        /\ UNCHANGED <<files, asked, reg>>
        /\ grouped' = FilesIn({"ARCHIVED"}) /\ session' = "NEEDS_REVIEW"
        /\ tally' = [tally EXCEPT !.checkpoint = AdvanceCheckpoint(tally.checkpoint, "GROUPED")]
    BY DEF CompleteGrouping, CompleteJob, GroupsFit, QueueStep, Works, SessionStates
  <1>2. AdvanceCheckpoint(tally.checkpoint, "GROUPED") \in Checkpoints
    BY CheckpointAdvances DEF SessionRowsOK, TallyRow
  <1>3. /\ tally' \in TallyRow
        /\ tally'.checkpoint = AdvanceCheckpoint(tally.checkpoint, "GROUPED")
        /\ tally'.declared = tally.declared /\ tally'.archived = tally.archived
        /\ tally'.skipped = tally.skipped /\ tally'.failed = tally.failed
    BY <1>1, <1>2 DEF SessionRowsOK, TallyRow
  <1>4. StatesCounted'
    BY <1>1, <1>3 DEF StatesCounted, FilesIn
  <1>5. SessionRowsOK'
    BY <1>1, <1>3 DEF SessionRowsOK, FilesIn
  <1>6. NoNewGroupJobs
    BY <1>1, QueueStepGroups
  <1>7. Created(proc[p].job)
    BY <1>1 DEF LeaseHeld, FilesInv, HandlersOK
  <1> QED
    BY <1>1, <1>3, <1>4, <1>5, <1>6, <1>7

\* A manifest transaction reads, counts, commits or rolls back.
LEMMA ManifestKeepsRows ==
  ASSUME FilesInv, SessionRowsOK, StatesCounted, NEW m \in Manifest, RegisterManifest(m)
  PROVE  SessionRowsOK' /\ StatesCounted'
  <1>1. /\ tally \in TallyRow /\ reg \in [Manifest -> RegRow]
        /\ files \in [File -> FileRow]
    BY DEF SessionRowsOK, FilesInv, StoresOK
  <1>2. NoRegistration \in RegRow
    BY DEF NoRegistration, RegRow
  <1>3. CASE ReadSession(m) \/ CountFiles(m) \/ RollBackManifest(m)
    <2>1. reg' \in [Manifest -> RegRow]
      <3>1. CASE ReadSession(m)
        BY <1>1, <3>1, ZenonT(60) DEF ReadSession, RegRow
      <3>2. CASE CountFiles(m)
        <4>1. /\ FilesOf[m] \ Registered \in SUBSET File
              /\ Registered \cup FilesOf[m] \in SUBSET File
          BY ImportAssumption DEF Registered
        <4>2. Cardinality(Registered \cup FilesOf[m]) \in Nat
          BY <4>1, FileCounts
        <4> QED
          BY <1>1, <3>2, <4>1, <4>2, ZenonT(60) DEF CountFiles, RegRow
      <3>3. CASE RollBackManifest(m)
        BY <1>1, <1>2, <3>3 DEF RollBackManifest
      <3> QED
        BY <1>3, <3>1, <3>2, <3>3
    <2>2. UNCHANGED <<files, tally, grouped, asked>>
      BY <1>3 DEF ReadSession, CountFiles, RollBackManifest
    <2> QED
      BY <1>1, <2>1, <2>2, SameCounts DEF SessionRowsOK
  <1>4. CASE CommitManifest(m)
    <2>1. /\ reg[m].count \in Nat /\ reg[m].adds \subseteq File
          /\ reg[m].adds \cap Registered = {}
      BY <1>1, <1>4 DEF RegRow, CommitManifest
    <2>2. reg' \in [Manifest -> RegRow] /\ UNCHANGED <<grouped, asked>>
      BY <1>1, <1>2, <1>4 DEF CommitManifest
    <2>3. /\ tally' \in TallyRow
          /\ tally'.archived = tally.archived /\ tally'.skipped = tally.skipped
          /\ tally'.failed = tally.failed
      BY <1>1, <1>4, <2>1 DEF CommitManifest, TallyRow
    <2>4. \A f \in File : \/ f \notin reg[m].adds /\ files'[f] = files[f]
                          \/ /\ f \in reg[m].adds /\ files[f].state = "ABSENT"
                             /\ files'[f].state = "PENDING"
      BY <1>1, <1>4, <2>1 DEF CommitManifest, SetAll, FileRow, Registered
    <2>5. \A S \in {{"ARCHIVED"}, {"SKIPPED_DUPLICATE"}, {"FAILED"}} : FilesIn(S)' = FilesIn(S)
      BY <2>4 DEF FilesIn
    <2> QED
      BY <1>1, <2>2, <2>3, <2>5, OtherColumnsCounts DEF SessionRowsOK
  <1> QED
    BY <1>3, <1>4 DEF RegisterManifest

\* startGrouping asks for the archived files.
LEMMA StartGroupingRows ==
  ASSUME FilesInv, SessionRowsOK, StatesCounted, NEW g \in GroupJob, StartGrouping(g)
  PROVE  SessionRowsOK' /\ StatesCounted'
  <1>1. /\ UNCHANGED <<files, tally, grouped, reg>>
        /\ asked' = [asked EXCEPT ![g] = FilesIn({"ARCHIVED"})]
        /\ FilesIn({"ARCHIVED"}) \in SUBSET File
    BY DEF StartGrouping, FilesIn
  <1>2. asked' \in [GroupJob -> SUBSET File]
    BY <1>1 DEF SessionRowsOK
  <1> QED
    BY <1>1, <1>2, SameCounts DEF SessionRowsOK

\* Every step keeps the session row well formed and its counters right.
LEMMA ImportKeepsCounts ==
  ASSUME ImportInv, [ImportNext]_allVars
  PROVE  SessionRowsOK' /\ StatesCounted'
  <1>1. LeaseInv /\ FilesInv /\ SessionRowsOK /\ StatesCounted /\ tally \in TallyRow
    BY DEF ImportInv, SessionRowsOK
  <1>2. CASE OpenStep
    BY <1>1, <1>2 DEF OpenStep, SameDeclaration, SessionRowsOK
  <1>3. ASSUME NEW p \in Process, RecordUploadedFile(p), ~AlreadyRecorded(FileOf(p), ShaOf(p))
        PROVE  SessionRowsOK' /\ StatesCounted'
    BY <1>1, <1>3, NewRecording DEF SessionRowsOK
  <1> QED
    BY <1>1, <1>2, <1>3, ImportStepKinds, ManifestKeepsRows, StartGroupingRows, GroupingCompletes
-----------------------------------------------------------------------------
(* What holds whatever overlaps, crashes or goes unanswered *)

\* A new session has no files, no uploads and no jobs.
LEMMA ImportInitHolds == ImportInit => ImportInv
  <1> SUFFICES ASSUME ImportInit PROVE ImportInv
    OBVIOUS
  <1>1. LeaseInv
    BY InitEstablishesLeaseInv DEF ImportInit
  <1>2. /\ \A f \in File : files[f].state = "ABSENT"
        /\ \A a \in ArchiveJob : upload[a].pc = "new"
        /\ \A j \in Job : ~Created(j) /\ ~Active(rows[j])
        /\ \A p \in Process : ~Busy(p) /\ step[p] = "read"
    BY DEF ImportInit, Init, Created, Active, AbsentRow, Idle, Busy
  <1>3. \A S \in SUBSET FileStates : FilesIn(S) = {}
    BY <1>2 DEF FilesIn, FileStates
  <1>4. Recorded = {}
    BY <1>2 DEF Recorded, FilesIn
  <1>5. StoresOK
    BY DEF ImportInit, StoresOK, FileRow, UploadRow
  <1>6. AttemptsOK /\ ArchiveJobsOK /\ HandlersOK
    BY <1>2 DEF AttemptsOK, ArchiveJobsOK, HandlersOK, ArchiveJob
  <1>7. EvidenceOK
    <2>1. FilesIn({"ARCHIVED"}) = {} /\ FilesIn({"SKIPPED_DUPLICATE"}) = {}
      BY <1>3 DEF FileStates
    <2> QED
      BY <1>4, <2>1 DEF EvidenceOK
  <1>8. SessionRowsOK
    <2>1. NoRegistration \in RegRow
      BY DEF NoRegistration, RegRow
    <2>2. tally \in TallyRow
      BY CheckpointRanks DEF ImportInit, TallyRow
    <2> QED
      BY <2>1, <2>2 DEF ImportInit, SessionRowsOK
  <1>9. StatesCounted
    BY <1>3, FS_EmptySet DEF ImportInit, StatesCounted, FileStates
  <1> QED
    BY <1>1, <1>5, <1>6, <1>7, <1>8, <1>9 DEF ImportInv, FilesInv

\* Every step keeps the invariant.
LEMMA ImportNextHolds == ImportInv /\ [ImportNext]_allVars => ImportInv'
  BY ImportKeepsLease, ImportKeepsFiles, ImportKeepsCounts DEF ImportInv

\* The invariant of the import holds in every reachable state: registrations,
\* uploads, archive handlers, failures and cancellation, in any interleaving.
THEOREM ImportInvariant == ImportSpec => []ImportInv
  BY ImportInitHolds, ImportNextHolds, PTL DEF ImportSpec

\* Every variable of the import keeps its type; the counters never pass below 0.
THEOREM ImportTypesAlways == ImportSpec => []ImportTypeOK
  <1>1. ImportInv => ImportTypeOK
    BY LeaseInvImplies DEF ImportInv, FilesInv, StoresOK, SessionRowsOK, ImportTypeOK, FileRow,
       UploadRow, TallyRow, RegRow
  <1> QED
    BY <1>1, ImportInvariant, PTL

\* What is true of the workers and their leases in every environment stays
\* true in an import, even when registerManifest overwrites its session.
THEOREM LeasesStaySafe ==
  ImportSpec => [](ExclusiveLease /\ CleanupAfterCommit /\ RetryBudget /\ CancelledSessionIsQuiet)
  <1>1. ImportInv =>
          ExclusiveLease /\ CleanupAfterCommit /\ RetryBudget /\ CancelledSessionIsQuiet
    BY LeaseInvImplies DEF ImportInv
  <1> QED
    BY <1>1, ImportInvariant, PTL

\* The bytes of a recorded file are in the archive, and exactly one archived
\* file of the session has its digest, whoever recorded it and how often.
THEOREM EvidenceAlways == ImportSpec => []RecordedFilesHaveEvidence
  <1>1. ASSUME ImportInv PROVE RecordedFilesHaveEvidence
    <2> SUFFICES ASSUME NEW f \in Recorded
                 PROVE  /\ files[f].sha \in originals
                        /\ Cardinality({g \in File :
                             files[g] = [state |-> "ARCHIVED", sha |-> files[f].sha]}) = 1
      BY DEF RecordedFilesHaveEvidence
    <2> DEFINE same == {g \in File : files[g] = [state |-> "ARCHIVED", sha |-> files[f].sha]}
    <2>1. EvidenceOK /\ files \in [File -> FileRow]
      BY <1>1 DEF ImportInv, FilesInv, StoresOK
    <2>2. files[f].sha \in originals
      BY <2>1 DEF EvidenceOK
    <2>3. f \in FilesIn({"ARCHIVED"}) \cup FilesIn({"SKIPPED_DUPLICATE"})
      BY DEF Recorded, FilesIn
    <2>4. PICK g \in FilesIn({"ARCHIVED"}) : files[g].sha = files[f].sha
      BY <2>1, <2>3 DEF EvidenceOK
    <2>5. same = {g}
      <3>1. g \in same
        BY <2>1, <2>4 DEF FilesIn, FileRow
      <3>2. \A h \in same : h \in FilesIn({"ARCHIVED"}) /\ files[h].sha = files[g].sha
        BY <2>4 DEF FilesIn
      <3> QED
        BY <2>1, <3>1, <3>2 DEF EvidenceOK
    <2>6. Cardinality(same) = 1
      BY <2>5, FS_Singleton
    <2> QED
      BY <2>2, <2>6
  <1> QED
    BY <1>1, ImportInvariant, PTL

\* A file has at most one archive job that can still run, and none while it is
\* open to a new upload: enqueueArchiveFile, failUploadReservation and the
\* terminal failure of failJob never leave an old attempt behind.
THEOREM OneArchiveJobAlways == ImportSpec => []OneArchiveJobPerFile
  <1>1. ASSUME ImportInv PROVE OneArchiveJobPerFile
    <2> SUFFICES ASSUME NEW f \in File
                 PROVE  /\ Cardinality(ActiveArchiveJobs(f)) <= 1
                        /\ files[f].state \in {"PENDING", "FAILED"} => ActiveArchiveJobs(f) = {}
      BY DEF OneArchiveJobPerFile
    <2>1. ArchiveJobsOK
      BY <1>1 DEF ImportInv, FilesInv
    <2>2. \A a, b \in ActiveArchiveJobs(f) : a = b
      BY <2>1 DEF ArchiveJobsOK, ActiveArchiveJobs
    <2>3. CASE ActiveArchiveJobs(f) = {}
      BY <2>3, FS_EmptySet
    <2>4. ASSUME NEW a \in ActiveArchiveJobs(f)
          PROVE  /\ Cardinality(ActiveArchiveJobs(f)) <= 1
                 /\ files[f].state \notin {"PENDING", "FAILED"}
      <3>1. ActiveArchiveJobs(f) = {a}
        BY <2>2
      <3> QED
        BY <2>1, <3>1, FS_Singleton DEF ArchiveJobsOK, ActiveArchiveJobs
    <2> QED
      BY <2>3, <2>4
  <1> QED
    BY <1>1, ImportInvariant, PTL

\* A step records files, or leaves the recorded ones alone.
LEMMA RecordedKept ==
  ASSUME ImportInv, ImportNext
  PROVE  (\A f \in Recorded : files'[f] = files[f]) /\ originals \subseteq originals'
  <1>1. LeaseInv /\ FilesInv /\ SessionRowsOK /\ StatesCounted /\ tally \in TallyRow
    BY DEF ImportInv, SessionRowsOK
  <1>2. originals \subseteq originals'
    <2>1. ASSUME NEW m \in Manifest, RegisterManifest(m) PROVE UNCHANGED originals
      BY <2>1 DEF RegisterManifest, ReadSession, CountFiles, CommitManifest, RollBackManifest
    <2>2. ASSUME NEW a \in ArchiveJob, UploadFile(a) PROVE UNCHANGED originals
      BY <2>2 DEF UploadFile, ReserveUpload, StageUpload, StagingFails, UploadRejected,
           EnqueueArchiveFile, RemoveStaging, ReleaseReservation, ReleaseFails, BackendCrash
    <2>3. ASSUME NEW p \in Process, Handles(p) \/ OnlyQueue(WorkerLifecycle(p))
          PROVE  originals \subseteq originals'
      BY <2>3 DEF Handles, OnlyQueue, ReadStaging, PutOriginal, RecordUploadedFile,
           ArchiveThrows, ArchiveReturns, GroupingReturns, GroupingThrows, CompleteArchive,
           CompleteGrouping, CompletionRefused, FailArchive, FailGrouping, CleanUp, importVars
    <2> QED
      BY <2>1, <2>2, <2>3 DEF ImportNext, StartGrouping, OnlyQueue, CancelImport
  <1>3. CASE OpenStep
    BY <1>2, <1>3 DEF OpenStep, FilesStayOpen, Recorded, FilesIn
  <1>4. ASSUME NEW m \in Manifest, RegisterManifest(m) PROVE \A f \in Recorded : files'[f] = files[f]
    <2>1. CASE CommitManifest(m)
      BY <2>1 DEF CommitManifest, SetAll, Recorded, FilesIn, Registered
    <2>2. CASE ~CommitManifest(m)
      BY <1>4, <2>2 DEF RegisterManifest, ReadSession, CountFiles, RollBackManifest
    <2> QED
      BY <2>1, <2>2
  <1>5. ASSUME NEW p \in Process, RecordUploadedFile(p)
        PROVE  \A f \in Recorded : files'[f] = files[f]
    BY <1>1, <1>5, RecordedByHandler, RecordingKeepsEvidence DEF FilesInv, StoresOK
  <1>6. ASSUME NEW g \in GroupJob, StartGrouping(g) PROVE UNCHANGED files
    BY <1>6 DEF StartGrouping
  <1>7. ASSUME NEW p \in Process, CompleteGrouping(p) PROVE UNCHANGED files
    BY <1>7 DEF CompleteGrouping
  <1> QED
    BY <1>1, <1>2, <1>3, <1>4, <1>5, <1>6, <1>7, ImportStepKinds

\* A recorded file keeps its state and digest, and the archive loses nothing,
\* through every retry, late worker, new manifest and cancellation.
THEOREM RecordedStaysFinal == ImportSpec => RecordedIsFinal
  <1>1. ImportInv /\ [ImportNext]_allVars =>
          [/\ \A f \in Recorded : files'[f] = files[f]
           /\ originals \subseteq originals']_allVars
    BY RecordedKept
  <1> QED
    BY <1>1, ImportInvariant, PTL DEF ImportSpec, RecordedIsFinal
-----------------------------------------------------------------------------
(* Staging, if callers learn that their transactions committed *)

\* A step of the workers and their jobs removes the entry of a finished job.
LEMMA QueueKeepsStaged ==
  ASSUME LeaseInv, FilesInv, StagedInv, QueueStep, UNCHANGED upload,
         \A a \in staging \ staging' : rows[a].state = "COMPLETED"
  PROVE  StagedInv'
  <1>1. NoNewJobs /\ ArchiveJob \subseteq Job
    BY QueueStepKeepsJobs DEF ArchiveJob
  <1>2. \A a \in ArchiveJob : Active(rows[a])' => Active(rows[a]) /\ a \in staging'
    BY <1>1 DEF NoNewJobs, StagedInv, StagedWhileActive, Active
  <1>3. \A a \in ArchiveJob : upload[a].pc = "staged" => a \in staging'
    BY DEF StagedInv, FilesInv, AttemptsOK, Created
  <1>4. \A a \in ArchiveJob : Created(a)' => Created(a)
    BY <1>1 DEF NoNewJobs
  <1> QED
    BY <1>2, <1>3, <1>4 DEF StagedInv, StagedWhileActive
\* An upload call keeps the staging entry it has handed to a job: with every
\* answer delivered, its catch block only runs when there is no job.
LEMMA UploadKeepsStaged ==
  ASSUME RepliesArrive, LeaseInv, FilesInv, StagedInv, NEW a \in ArchiveJob, UploadFile(a)
  PROVE  StagedInv'
  <1>1. /\ upload \in [ArchiveJob -> UploadRow]
        /\ ArchiveJob \subseteq Job
    BY DEF FilesInv, StoresOK, ArchiveJob
  <1>2. CASE EnqueueArchiveFile(a)
    <2>1. /\ upload[a].pc = "staged" /\ UploadAt(a, "over") /\ UNCHANGED staging
          /\ rows' = [j \in Job |-> IF j \in {a} THEN QueuedRow ELSE rows[j]]
      BY <1>2 DEF EnqueueArchiveFile, Enqueue
    <2>2. /\ upload'[a].pc = "over"
          /\ \A b \in ArchiveJob \ {a} : upload'[b] = upload[b] /\ rows'[b] = rows[b]
      BY <1>1, <2>1 DEF UploadAt, UploadRow
    <2> QED
      BY <2>1, <2>2 DEF StagedInv, StagedWhileActive, Created
  <1>3. ASSUME UNCHANGED rows,
               \A b \in ArchiveJob \ {a} : upload'[b] = upload[b] /\ (b \in staging => b \in staging'),
               ~Created(a), upload'[a].pc = "staged" => a \in staging'
        PROVE  StagedInv'
    BY <1>3 DEF StagedInv, StagedWhileActive, Created, Active
  <1>4. CASE \E f \in File : ReserveUpload(a, f)
    <2>1. PICK f \in File : ReserveUpload(a, f)
      BY <1>4
    <2>2. ~Created(a)
      BY <2>1 DEF ReserveUpload, FilesInv, AttemptsOK
    <2>3. upload'[a].pc # "staged" /\ \A b \in ArchiveJob \ {a} : upload'[b] = upload[b]
      BY <1>1, <2>1 DEF ReserveUpload, UploadRow
    <2> QED
      BY <1>3, <2>1, <2>2, <2>3 DEF ReserveUpload, vars
  <1>5. CASE \E c \in Content : StageUpload(a, c)
    <2>1. PICK c \in Content : StageUpload(a, c)
      BY <1>5
    <2>2. ~Created(a)
      BY <2>1 DEF StageUpload, FilesInv, AttemptsOK
    <2>3. a \in staging' /\ \A b \in ArchiveJob \ {a} : upload'[b] = upload[b]
      BY <1>1, <2>1 DEF StageUpload
    <2> QED
      BY <1>3, <2>1, <2>2, <2>3 DEF StageUpload, vars
  <1>6. CASE StagingFails(a) \/ UploadRejected(a) \/ RemoveStaging(a) \/ ReleaseReservation(a)
    <2>1. ~Created(a)
      BY <1>6 DEF StagingFails, UploadRejected, RemoveStaging, ReleaseReservation, FilesInv,
           AttemptsOK, StagedInv
    <2>2. /\ UNCHANGED rows
          /\ \E pc \in {"cleaning", "releasing", "over", "abandoned"} : UploadAt(a, pc)
          /\ \A b \in staging \ {a} : b \in staging'
      BY <1>6 DEF StagingFails, UploadRejected, RemoveStaging, ReleaseReservation, vars
    <2>3. upload'[a].pc # "staged" /\ \A b \in ArchiveJob \ {a} : upload'[b] = upload[b]
      BY <1>1, <2>2 DEF UploadAt, UploadRow
    <2> QED
      BY <1>3, <2>1, <2>2, <2>3
  <1>7. CASE ReleaseFails(a) \/ BackendCrash(a)
    <2>1. UNCHANGED <<rows, staging>> /\ UploadAt(a, "abandoned")
      BY <1>7 DEF ReleaseFails, BackendCrash, vars
    <2>2. upload'[a].pc = "abandoned" /\ \A b \in ArchiveJob \ {a} : upload'[b] = upload[b]
      BY <1>1, <2>1 DEF UploadAt, UploadRow
    <2> QED
      BY <2>1, <2>2 DEF StagedInv, StagedWhileActive, Created, Active
  <1> QED
    BY <1>2, <1>4, <1>5, <1>6, <1>7 DEF UploadFile

\* Every step keeps the staging entries that open jobs read.
LEMMA ImportKeepsStaged ==
  ASSUME RepliesArrive
  PROVE  ImportInv /\ StagedInv /\ [ImportNext]_allVars => StagedInv'
  <1> SUFFICES ASSUME ImportInv, StagedInv, [ImportNext]_allVars PROVE StagedInv'
    OBVIOUS
  <1>1. LeaseInv /\ FilesInv
    BY DEF ImportInv
  <1>2. UNCHANGED <<rows, upload, staging>> => StagedInv'
    BY DEF StagedInv, StagedWhileActive, Created
  <1>3. ASSUME NEW m \in Manifest, RegisterManifest(m) PROVE StagedInv'
    BY <1>2, <1>3 DEF RegisterManifest, ReadSession, CountFiles, CommitManifest,
       RollBackManifest, vars
  <1>4. ASSUME NEW a \in ArchiveJob, UploadFile(a) PROVE StagedInv'
    BY <1>1, <1>4, UploadKeepsStaged
  <1>5. ASSUME NEW g \in GroupJob, StartGrouping(g) PROVE StagedInv'
    <2>1. /\ UNCHANGED <<upload, staging>>
          /\ rows' = [j \in Job |-> IF j \in {g} THEN QueuedRow ELSE rows[j]]
      BY <1>5 DEF StartGrouping, Enqueue
    <2>2. \A a \in ArchiveJob : rows'[a] = rows[a]
      BY <1>5, <2>1 DEF ArchiveJob
    <2> QED
      BY <2>1, <2>2 DEF StagedInv, StagedWhileActive, Created
  <1>6. ASSUME NEW p \in Process, CleanUp(p) PROVE StagedInv'
    <2>1. QueueStep /\ UNCHANGED upload
      BY <1>6 DEF CleanUp, QueueStep, Works
    <2>2. rows[proc[p].job].state = "COMPLETED"
      BY <1>1, <1>6 DEF CleanUp, AfterCommit, LeaseInv, CleanupAfterCommit
    <2>3. \A a \in staging \ staging' : rows[a].state = "COMPLETED"
      BY <1>6, <2>2 DEF CleanUp
    <2> QED
      BY <1>1, <2>1, <2>3, QueueKeepsStaged
  <1>7. ASSUME NEW p \in Process, Handles(p), ~CleanUp(p) PROVE StagedInv'
    <2>1. UNCHANGED <<upload, staging>>
      BY <1>7 DEF Handles, ReadStaging, PutOriginal, RecordUploadedFile, ArchiveThrows,
           ArchiveReturns, GroupingReturns, GroupingThrows, CompleteArchive, CompleteGrouping,
           CompletionRefused, FailArchive, FailGrouping, OnlyQueue, importVars
    <2>2. QueueStep \/ UNCHANGED rows
      BY <1>1, <1>7, HandlesWork DEF QueueStep, ReadStaging, PutOriginal, RecordUploadedFile, vars
    <2> QED
      BY <1>1, <1>2, <2>1, <2>2, QueueKeepsStaged
  <1>8. ASSUME NEW p \in Process, OnlyQueue(WorkerLifecycle(p)) PROVE StagedInv'
    <2>1. QueueStep /\ UNCHANGED <<upload, staging>>
      BY <1>8 DEF OnlyQueue, WorkerLifecycle, QueueStep
    <2> QED
      BY <1>1, <2>1, QueueKeepsStaged
  <1>9. ASSUME NEW j \in Job, OnlyQueue(TimePasses(j)) PROVE StagedInv'
    <2>1. QueueStep /\ UNCHANGED <<upload, staging>>
      BY <1>9 DEF OnlyQueue, QueueStep
    <2> QED
      BY <1>1, <2>1, QueueKeepsStaged
  <1>10. CASE CancelImport
    <2>1. QueueStep /\ UNCHANGED <<upload, staging>>
      BY <1>10 DEF CancelImport, QueueStep
    <2> QED
      BY <1>1, <2>1, QueueKeepsStaged
  <1>11. CASE UNCHANGED allVars
    BY <1>2, <1>11 DEF allVars, vars, importVars
  <1> QED
    BY <1>3, <1>4, <1>5, <1>6, <1>7, <1>8, <1>9, <1>10, <1>11 DEF ImportNext

\* Neither the catch block of an upload nor the cleanup of another worker takes
\* the staged bytes of a job that can still run, if the service always learns
\* that its enqueue committed.
THEOREM StagedAlways ==
  ASSUME RepliesArrive
  PROVE  ImportSpec => []StagedWhileActive
  <1>1. ImportInit => StagedInv
    BY DEF ImportInit, Init, StagedInv, StagedWhileActive, Created, Active, AbsentRow, ArchiveJob
  <1>2. StagedInv => StagedWhileActive
    BY DEF StagedInv
  <1> QED
    BY <1>1, <1>2, ImportKeepsStaged, ImportInvariant, PTL DEF ImportSpec
-----------------------------------------------------------------------------
(* What was declared, if nobody commits inside a registerManifest *)

\* An archived or skipped file is counted once: the recorded files are as many
\* as the two counters say.
LEMMA RecordedCounted ==
  ASSUME StatesCounted
  PROVE  Cardinality(Recorded) = tally.archived + tally.skipped
  <1> DEFINE A == FilesIn({"ARCHIVED"})
             S == FilesIn({"SKIPPED_DUPLICATE"})
  <1>1. IsFiniteSet(A) /\ IsFiniteSet(S) /\ Cardinality(A) \in Nat /\ Cardinality(S) \in Nat
    BY FileCounts DEF FilesIn
  <1>2. Recorded = A \cup S /\ A \cap S = {}
    BY DEF Recorded, FilesIn
  <1>3. Cardinality(A \cup S) = Cardinality(A) + Cardinality(S) - Cardinality(A \cap S)
    BY <1>1, FS_Union
  <1>4. Cardinality(A \cap S) = 0
    BY <1>2, FS_EmptySet
  <1> QED
    BY <1>1, <1>2, <1>3, <1>4 DEF StatesCounted

\* The completion test of recordUploadedFile is right: the file it counts last
\* is the only one that was not recorded.
LEMMA LastFileIsLast ==
  ASSUME FilesInv, tally \in TallyRow, StatesCounted, tally.declared = Cardinality(Registered),
         NEW f \in Registered \ Recorded, LastFile
  PROVE  Registered = Recorded \cup {f}
  <1>1. Recorded \subseteq Registered /\ Recorded \in SUBSET File /\ Registered \in SUBSET File
    BY DEF Recorded, FilesIn, Registered
  <1>2. /\ IsFiniteSet(Recorded) /\ IsFiniteSet(Registered)
        /\ Cardinality(Recorded) \in Nat /\ Cardinality(Registered) \in Nat
    BY <1>1, FileCounts
  <1>3. Cardinality(Recorded \cup {f}) = Cardinality(Recorded) + 1
    BY <1>2, FS_AddElement
  <1>4. Cardinality(Recorded \cup {f}) = Cardinality(Registered)
    BY <1>3, RecordedCounted DEF LastFile
  <1>5. Recorded \cup {f} \subseteq Registered
    BY <1>1
  <1> QED
    BY <1>2, <1>4, <1>5, FS_Subset

\* Steps that neither declare, record nor group.
LEMMA OpenKeepsDeclared ==
  ASSUME DeclaredInv, EvidenceOK, OpenStep, originals \subseteq originals'
  PROVE  DeclaredInv'
  <1>1. /\ Registered' = Registered /\ Recorded' = Recorded
        /\ FilesIn({"ARCHIVED"})' = FilesIn({"ARCHIVED"})
    BY EvidenceKept DEF OpenStep
  <1>2. /\ tally'.declared = tally.declared /\ tally'.checkpoint = tally.checkpoint
        /\ UNCHANGED <<reg, grouped>>
    BY DEF OpenStep, SameDeclaration
  <1>3. Closed' => Closed
    BY <1>2 DEF OpenStep, NoNewGroupJobs, Closed
  <1>4. ManifestsOK'
    BY <1>1, <1>2 DEF DeclaredInv, ManifestsOK
  <1>5. GroupsCoverTheArchive'
    BY <1>1, <1>2 DEF DeclaredInv, GroupsCoverTheArchive
  <1>6. Closed' => Registered' = Recorded' /\ session' \notin {"CREATED", "UPLOADING"}
    BY <1>1, <1>3 DEF DeclaredInv, OpenStep, SessionMovesOn
  <1> QED
    BY <1>1, <1>2, <1>4, <1>5, <1>6 DEF DeclaredInv

\* A manifest that commits into the state it read is counted right, and only
\* while the archive is not closed.
LEMMA ManifestKeepsDeclared ==
  ASSUME ~ManifestsOverlap, FilesInv, SessionRowsOK, DeclaredInv,
         NEW m \in Manifest, RegisterManifest(m)
  PROVE  DeclaredInv'
  <1>1. reg \in [Manifest -> RegRow] /\ tally \in TallyRow
    BY DEF SessionRowsOK
  <1>2. ASSUME UNCHANGED <<rows, session, files, tally, grouped>>, ManifestsOK'
        PROVE  DeclaredInv'
    BY <1>2 DEF DeclaredInv, Registered, Recorded, FilesIn, Closed, Created,
       GroupsCoverTheArchive
  <1>3. CASE ReadSession(m) \/ RollBackManifest(m)
    <2>1. ManifestsOK'
      <3>1. /\ UNCHANGED files /\ reg'[m].pc # "counted"
            /\ \A n \in Manifest \ {m} : reg'[n] = reg[n]
        BY <1>1, <1>3 DEF ReadSession, RollBackManifest, NoRegistration, RegRow
      <3> QED
        BY <3>1 DEF DeclaredInv, ManifestsOK, Registered
    <2> QED
      BY <1>2, <1>3, <2>1 DEF ReadSession, RollBackManifest, vars
  <1>4. CASE CountFiles(m)
    <2>1. ManifestsOK'
      <3>1. /\ UNCHANGED files /\ reg'[m].adds = FilesOf[m] \ Registered
            /\ \A n \in Manifest \ {m} : reg'[n] = reg[n]
        BY <1>1, <1>4 DEF CountFiles, RegRow
      <3> QED
        BY <3>1 DEF DeclaredInv, ManifestsOK, Registered
    <2> QED
      BY <1>2, <1>4, <2>1 DEF CountFiles, vars
  <1>5. CASE CommitManifest(m)
    <2>1. /\ session \in {"CREATED", "UPLOADING"}
          /\ reg[m].count = Cardinality(Registered \cup FilesOf[m])
          /\ reg[m].adds \subseteq FilesOf[m] /\ FilesOf[m] \subseteq reg[m].adds \cup Registered
          /\ reg[m].adds \subseteq File /\ reg[m].adds \cap Registered = {}
      BY <1>1, <1>5 DEF CommitManifest, UpToDate, RegRow, DeclaredInv, ManifestsOK
    <2>2. ~Closed
      BY <2>1 DEF DeclaredInv
    <2>3. /\ UNCHANGED <<rows, grouped>>
          /\ tally'.declared = reg[m].count /\ tally'.checkpoint = tally.checkpoint
          /\ reg'[m].pc # "counted" /\ \A n \in Manifest \ {m} : reg'[n] = reg[n]
      BY <1>1, <1>5 DEF CommitManifest, TallyRow, NoRegistration
    <2>4. /\ \A f \in File : files'[f].state =
                IF f \in reg[m].adds THEN "PENDING" ELSE files[f].state
      BY <1>5 DEF CommitManifest, SetAll, FilesInv, StoresOK, FileRow
    <2>5. Registered' = Registered \cup FilesOf[m]
      <3>1. Registered' = Registered \cup reg[m].adds
        BY <2>1, <2>4 DEF Registered
      <3> QED
        BY <2>1, <3>1
    <2>6. ManifestsOK'
      BY <2>3, <2>5 DEF DeclaredInv, ManifestsOK
    <2>7. ~Closed'
      BY <2>2, <2>3 DEF Closed, Created
    <2>8. GroupsCoverTheArchive'
      <3>1. tally.checkpoint = "NONE" /\ grouped = {}
        BY <2>2, CheckpointRanks DEF DeclaredInv, GroupsCoverTheArchive, Closed
      <3> QED
        BY <2>3, <3>1, CheckpointRanks DEF GroupsCoverTheArchive
    <2> QED
      BY <2>1, <2>3, <2>5, <2>6, <2>7, <2>8 DEF DeclaredInv
  <1> QED
    BY <1>3, <1>4, <1>5 DEF RegisterManifest

\* A new recording happens in an archive that is not closed, and closes it if
\* it is the last.
LEMMA RecordingKeepsDeclared ==
  ASSUME LeaseInv, FilesInv, SessionRowsOK, StatesCounted, DeclaredInv, NEW p \in Process,
         RecordUploadedFile(p), ~AlreadyRecorded(FileOf(p), ShaOf(p))
  PROVE  DeclaredInv'
  <1> DEFINE f == FileOf(p)
  <1>1. /\ f \in Registered \ Recorded
        /\ tally \in TallyRow /\ tally'.declared = tally.declared
        /\ LastFile => tally'.checkpoint = AdvanceCheckpoint(tally.checkpoint, "ARCHIVED")
        /\ ~LastFile => tally'.checkpoint = tally.checkpoint
        /\ session' = StateAfterRecording
        /\ UNCHANGED <<rows, reg, grouped>>
        /\ Registered' = Registered /\ Recorded' = Recorded \cup {f}
    BY NewRecording DEF SessionRowsOK
  <1> HIDE DEF f
  <1>2. ~Closed
    BY <1>1 DEF DeclaredInv
  <1>3. tally.checkpoint = "NONE" /\ grouped = {}
    BY <1>2, CheckpointRanks DEF DeclaredInv, GroupsCoverTheArchive, Closed
  <1>4. GroupsCoverTheArchive'
    <2>1. AdvanceCheckpoint("NONE", "ARCHIVED") = "ARCHIVED"
      BY CheckpointRanks DEF AdvanceCheckpoint
    <2>2. tally'.checkpoint \in {"NONE", "ARCHIVED"}
      BY <1>1, <1>3, <2>1
    <2> QED
      BY <1>1, <1>3, <2>2, CheckpointRanks DEF GroupsCoverTheArchive
  <1>5. ManifestsOK'
    BY <1>1 DEF DeclaredInv, ManifestsOK
  <1>6. Closed' => LastFile
    BY <1>1, <1>2 DEF Closed, Created
  <1>7. LastFile => Registered = Recorded \cup {f}
    BY <1>1, LastFileIsLast DEF DeclaredInv
  <1>8. LastFile => session' \notin {"CREATED", "UPLOADING"}
    BY <1>1 DEF StateAfterRecording
  <1> QED
    BY <1>1, <1>4, <1>5, <1>6, <1>7, <1>8 DEF DeclaredInv

\* Grouping starts on a complete archive and covers it.
LEMMA GroupingKeepsDeclared ==
  ASSUME LeaseInv, FilesInv, SessionRowsOK, StatesCounted, DeclaredInv,
         \/ \E g \in GroupJob : StartGrouping(g)
         \/ \E p \in Process : CompleteGrouping(p)
  PROVE  DeclaredInv'
  <1>1. ASSUME NEW g \in GroupJob, StartGrouping(g) PROVE DeclaredInv'
    <2>1. /\ Registered = Recorded /\ session' = "PROCESSING"
          /\ UNCHANGED <<files, tally, grouped, reg>>
      BY <1>1 DEF StartGrouping, Enqueue
    <2> QED
      BY <2>1 DEF DeclaredInv, Registered, Recorded, FilesIn, ManifestsOK, GroupsCoverTheArchive
  <1>2. ASSUME NEW p \in Process, CompleteGrouping(p) PROVE DeclaredInv'
    <2>1. /\ tally \in TallyRow /\ tally'.declared = tally.declared
          /\ tally'.checkpoint = AdvanceCheckpoint(tally.checkpoint, "GROUPED")
          /\ Closed
          /\ grouped' = FilesIn({"ARCHIVED"})
          /\ UNCHANGED <<files, reg>> /\ session' = "NEEDS_REVIEW"
      BY <1>2, GroupingCompletes DEF SessionRowsOK, Closed
    <2>2. Registered = Recorded
      BY <2>1 DEF DeclaredInv
    <2>3. CheckpointRank[tally'.checkpoint] >= CheckpointRank["GROUPED"]
      BY <2>1, CheckpointAdvances DEF TallyRow
    <2> QED
      BY <2>1, <2>2, <2>3 DEF DeclaredInv, Registered, Recorded, FilesIn, ManifestsOK,
         GroupsCoverTheArchive
  <1> QED
    BY <1>1, <1>2

\* Every step keeps what was declared.
LEMMA ImportKeepsDeclared ==
  ASSUME ~ManifestsOverlap
  PROVE  ImportInv /\ DeclaredInv /\ [ImportNext]_allVars => DeclaredInv'
  <1> SUFFICES ASSUME ImportInv, DeclaredInv, [ImportNext]_allVars PROVE DeclaredInv'
    OBVIOUS
  <1>1. /\ LeaseInv /\ FilesInv /\ SessionRowsOK /\ StatesCounted /\ tally \in TallyRow
        /\ EvidenceOK
    BY DEF ImportInv, SessionRowsOK, FilesInv
  <1>2. originals \subseteq originals'
    BY RecordedKept DEF allVars, importVars
  <1> QED
    BY <1>1, <1>2, ImportStepKinds, OpenKeepsDeclared, ManifestKeepsDeclared,
       RecordingKeepsDeclared, GroupingKeepsDeclared
\* What was declared, recorded and grouped agree in every reachable state, if
\* no other writer commits inside a registerManifest.  (ImportManifestRace.cfg
\* shows what happens otherwise.)
THEOREM DeclaredInvariant ==
  ASSUME ~ManifestsOverlap
  PROVE  ImportSpec => []DeclaredInv
  <1>1. ImportInit => DeclaredInv
    <2> SUFFICES ASSUME ImportInit PROVE DeclaredInv
      OBVIOUS
    <2>1. Registered = {}
      BY DEF ImportInit, Registered
    <2>2. ManifestsOK
      BY DEF ImportInit, ManifestsOK, NoRegistration
    <2>3. ~Closed
      BY ImportAssumption DEF ImportInit, Init, Closed, Created, AbsentRow
    <2>4. GroupsCoverTheArchive
      BY CheckpointRanks DEF ImportInit, GroupsCoverTheArchive
    <2> QED
      BY <2>1, <2>2, <2>3, <2>4, FS_EmptySet DEF DeclaredInv, ImportInit
  <1> QED
    BY <1>1, ImportKeepsDeclared, ImportInvariant, PTL DEF ImportSpec

\* The counters of the session row equal a count of its file rows, although
\* some handlers increment them and others recount.
THEOREM CountersAlways ==
  ASSUME ~ManifestsOverlap
  PROVE  ImportSpec => []CountersMatchRows
  <1>1. ImportInv /\ DeclaredInv => CountersMatchRows
    BY DEF ImportInv, StatesCounted, DeclaredInv, CountersMatchRows
  <1> QED
    BY <1>1, ImportInvariant, DeclaredInvariant, PTL

\* Once the ARCHIVED checkpoint is set every declared file is recorded.
THEOREM CheckpointAlways ==
  ASSUME ~ManifestsOverlap
  PROVE  ImportSpec => []CheckpointIsEarned
  <1>1. DeclaredInv => CheckpointIsEarned
    BY DEF DeclaredInv, CheckpointIsEarned, Closed
  <1> QED
    BY <1>1, DeclaredInvariant, PTL

\* Materialized groups hold exactly the archived files.
THEOREM GroupsAlways ==
  ASSUME ~ManifestsOverlap
  PROVE  ImportSpec => []GroupsCoverTheArchive
  <1>1. DeclaredInv => GroupsCoverTheArchive
    BY DEF DeclaredInv
  <1> QED
    BY <1>1, DeclaredInvariant, PTL

\* A manifest that commits into the state it read moves a live session.
LEMMA CommitMovesSession ==
  ASSUME ~ManifestsOverlap, SessionRowsOK, NEW m \in Manifest, CommitManifest(m)
  PROVE  /\ \E s \in SessionStates : SessionMoves(s)
         /\ session' # session => CanTransition(session, session')
  <1>1. /\ reg[m].seen \in {"CREATED", "UPLOADING"} /\ session = reg[m].seen
        /\ session' = "UPLOADING" /\ UNCHANGED <<rows, proc, stopping, faults>>
    BY DEF SessionRowsOK, RegRow, CommitManifest, UpToDate
  <1>2. MovesTo("UPLOADING") /\ "UPLOADING" \in SessionStates
    BY ImportAssumption DEF MovesTo, SessionStates
  <1> QED
    BY <1>1, <1>2 DEF SessionMoves, TerminalSessionStates, CanTransition, SessionTransitions

\* The import is an environment of the job queue that AssetJobLease allows, so
\* every theorem about the queue, its refinement of ExclusiveJobs included,
\* holds of the import.
THEOREM QueueIsUsed ==
  ASSUME ~ManifestsOverlap
  PROVE  ImportSpec => UsesTheQueue
  <1>1. ImportInit => Init
    BY DEF ImportInit
  <1>2. ImportInv /\ [ImportNext]_allVars => [Next]_vars
    BY ImportUsesQueue, CommitMovesSession DEF ImportInv, Next
  <1> QED
    BY <1>1, <1>2, ImportInvariant, PTL DEF ImportSpec, UsesTheQueue, Spec

\* A step of the workers moves the session as the contract allows.
LEMMA WorkersMoveLegally ==
  ASSUME LeaseInv, NEW p \in Process, Handles(p)
  PROVE  session' # session => CanTransition(session, session')
  <1>1. CASE RecordUploadedFile(p)
    <2>1. /\ session \in {"UPLOADING", "ARCHIVING", "PARTIALLY_FAILED"}
          /\ session' = session \/ (session' = "ARCHIVING" /\ session # "PARTIALLY_FAILED")
      BY <1>1 DEF RecordUploadedFile, Accepted, AcceptsUploads, AlreadyRecorded, RecordAsOriginal,
           RecordAsDuplicate, RecordIn, StateAfterRecording
    <2> QED
      BY <2>1 DEF CanTransition, SessionTransitions
  <1>2. CASE CompleteGrouping(p)
    BY <1>2 DEF CompleteGrouping, GroupsFit, CompleteJob, CanTransition, SessionTransitions
  <1>3. CASE FailJob(p)
    <2>1. UNCHANGED session \/
            (RecordsTerminalFailure(session) /\ session' = TerminalFailureState(session))
      BY <1>3 DEF FailJob
    <2> QED
      BY <2>1 DEF RecordsTerminalFailure, TerminalFailureState
  <1>4. CASE CompleteArchive(p)
    BY <1>4 DEF CompleteArchive, CompleteJob
  <1>5. ASSUME Handles(p), ~RecordUploadedFile(p), ~CompleteGrouping(p), ~CompleteArchive(p),
               ~FailJob(p)
        PROVE  UNCHANGED session
    BY <1>5 DEF Handles, ReadStaging, PutOriginal, ArchiveThrows, ArchiveReturns,
       GroupingReturns, GroupingThrows, CompletionRefused, FailArchive, FailGrouping, CleanUp,
       OnlyQueue, WorkerRuns, FirstBeat, LosingBeat, DiscardOutcome, CompletionBreaks, ProbeLease,
       FailureConflicts, HandlerThrows, HandlerReturns, CompletionConflicts, AfterCommit, vars
  <1> QED
    BY <1>1, <1>2, <1>3, <1>4, <1>5

\* The session only makes moves of ASSET_IMPORT_SESSION_TRANSITIONS, and so
\* never leaves a terminal state, if no other writer commits inside a
\* registerManifest.
THEOREM SessionMovesLegally ==
  ASSUME ~ManifestsOverlap
  PROVE  ImportSpec => SessionMovesAreLegal
  <1>1. ASSUME ImportInv, ImportNext
        PROVE  session' # session => CanTransition(session, session')
    <2> DEFINE Legal == session' # session => CanTransition(session, session')
    <2>1. ASSUME NEW m \in Manifest, RegisterManifest(m) PROVE Legal
      BY <1>1, <2>1, CommitMovesSession DEF ImportInv, RegisterManifest, ReadSession, CountFiles,
         RollBackManifest, vars
    <2>2. ASSUME NEW a \in ArchiveJob, UploadFile(a) PROVE Legal
      <3>1. CASE EnqueueArchiveFile(a)
        BY <3>1 DEF EnqueueArchiveFile, Enqueue, CanTransition, SessionTransitions
      <3>2. CASE ~EnqueueArchiveFile(a)
        BY <2>2, <3>2 DEF UploadFile, ReserveUpload, StageUpload, StagingFails, UploadRejected,
           RemoveStaging, ReleaseReservation, ReleaseFails, BackendCrash, vars
      <3> QED
        BY <3>1, <3>2
    <2>3. ASSUME NEW g \in GroupJob, StartGrouping(g) PROVE Legal
      BY <2>3 DEF StartGrouping, Enqueue, CanTransition, SessionTransitions
    <2>4. ASSUME NEW p \in Process, Handles(p) PROVE Legal
      BY <1>1, <2>4, WorkersMoveLegally DEF ImportInv
    <2>5. ASSUME NEW p \in Process, OnlyQueue(WorkerLifecycle(p)) PROVE Legal
      BY <2>5 DEF OnlyQueue, WorkerLifecycle, Claims, Claim, RequestShutdown, Restart, Crash
    <2>6. ASSUME NEW j \in Job, OnlyQueue(TimePasses(j)) PROVE Legal
      BY <2>6 DEF OnlyQueue, TimePasses, LeaseExpires, Stall, BackoffElapses
    <2>7. CASE CancelImport
      BY <2>7 DEF CancelImport, CancelSession
    <2> QED
      BY <1>1, <2>1, <2>2, <2>3, <2>4, <2>5, <2>6, <2>7 DEF ImportNext
  <1>2. ImportInv /\ [ImportNext]_allVars =>
          [session' # session => CanTransition(session, session')]_allVars
    BY <1>1
  <1> QED
    BY <1>2, ImportInvariant, PTL DEF ImportSpec, SessionMovesAreLegal
\* The jobs of an import are exclusive jobs, overlapping manifests or not: the
\* commit of a manifest moves the session and leaves the job table alone.
THEOREM ImportJobsAreExclusive == ImportSpec => ExclusiveSpec
  <1>1. ImportInit => Exclusive!AInit
    BY InitMaps DEF ImportInit
  <1>2. ASSUME ImportInv, ImportInv', [ImportNext]_allVars PROVE AbstractStep
    <2>1. LeaseInv /\ LeaseInv'
      BY <1>2 DEF ImportInv
    <2>2. CASE [Next]_vars
      BY <2>1, <2>2, NextMaps
    <2>3. ASSUME NEW m \in Manifest, CommitManifest(m) PROVE AbstractStep
      <3>1. UNCHANGED <<rows, proc>>
        BY <2>3 DEF CommitManifest
      <3>2. SameStatus /\ SameHolders
        BY <3>1 DEF SameStatus, SameHolders, Holds, LeaseHeld, Busy
      <3> QED
        BY <2>1, <3>2, LeaseInvGivesOwner, OwnerAfterStep, StutterStep
    <2> QED
      BY <1>2, <2>1, <2>2, <2>3, ImportUsesQueue
  <1>3. ImportInv /\ ImportInv' /\ [ImportNext]_allVars => [Exclusive!ANext]_(Exclusive!avars)
    BY <1>2 DEF AbstractStep
  <1> QED
    BY <1>1, <1>3, ImportInvariant, PTL DEF ImportSpec, ExclusiveSpec, Exclusive!ASpec

=============================================================================
