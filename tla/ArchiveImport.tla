--------------------------- MODULE ArchiveImport ---------------------------
(***************************************************************************)
(* From a declared manifest to materialized groups: registerManifest, the  *)
(* upload service (BeadAssetImportService.uploadFile over                  *)
(* resolveUploadTarget, enqueueArchiveFile and failUploadReservation), the *)
(* ARCHIVE_FILE handler of the worker with recordUploadedFile, and         *)
(* startGrouping with its GROUP_SESSION job, over the job queue of         *)
(* AssetJobLease and two stores outside the database: staging entries and  *)
(* archived originals.                                                     *)
(*                                                                         *)
(* An upload attempt, its staging key and the archive job it enqueues      *)
(* share one identity, a member of Job.  Contents stand for SHA-256        *)
(* digests; the archive key of an original is a function of its digest.    *)
(***************************************************************************)
EXTENDS AssetJobLease, FiniteSets

CONSTANTS
  File,             \* client file ids the manifests may declare
  Manifest,         \* registerManifest requests
  FilesOf,          \* the files each request declares
  Content,          \* SHA-256 digests
  NoFile, NoContent,
  GroupJob,         \* job ids of startGrouping; the others are archive jobs
  ManifestsOverlap, \* may other writers commit inside a registerManifest?
  RepliesArrive,    \* does a caller always learn that its transaction committed?
  BackendCrashes    \* may the backend die in the middle of an upload?

ArchiveJob == Job \ GroupJob

ASSUME ImportAssumption ==
  /\ IsFiniteSet(File)
  /\ FilesOf \in [Manifest -> SUBSET File]
  /\ NoFile \notin File
  /\ NoContent \notin Content
  /\ GroupJob \subseteq Job
  /\ {"CREATED", "UPLOADING", "ARCHIVING", "PROCESSING", "NEEDS_REVIEW"} \subseteq OtherStates
  /\ {ManifestsOverlap, RepliesArrive, BackendCrashes} \subseteq BOOLEAN

VARIABLES
  files,     \* asset_source_files: state and digest
  tally,     \* the counters and checkpoint columns of the session row
  grouped,   \* files whose group_id is set
  asked,     \* the payload files of each GROUP_SESSION job
  reg,       \* registerManifest transactions in flight
  upload,    \* uploadFile calls in flight; file and digest outlive the call
  staging,   \* attempts whose staging entry exists
  originals, \* digests whose original is in the archive
  step       \* how far each worker's ARCHIVE_FILE handler is

importVars == <<files, tally, grouped, asked, reg, upload, staging, originals, step>>

allVars == <<vars, importVars>>

NoRegistration == [pc |-> "idle", seen |-> "CREATED", adds |-> {}, count |-> 0]

ImportTypeOK ==
  /\ TypeOK
  /\ files \in [File -> [state : FileStates \cup {"ABSENT"}, sha : Content \cup {NoContent}]]
  /\ tally \in [declared : Nat, archived : Nat, skipped : Nat, failed : Nat,
                checkpoint : Checkpoints]
  /\ grouped \subseteq File
  /\ asked \in [GroupJob -> SUBSET File]
  /\ reg \in [Manifest -> [pc : {"idle", "read", "counted"}, seen : {"CREATED", "UPLOADING"},
                          adds : SUBSET File, count : Nat]]
  /\ upload \in [ArchiveJob ->
       [pc : {"new", "reserved", "staged", "cleaning", "releasing", "over", "abandoned"},
        file : File \cup {NoFile}, sha : Content \cup {NoContent}]]
  /\ staging \subseteq ArchiveJob
  /\ originals \subseteq Content
  /\ step \in [Process -> {"read", "put", "record", "return"}]

ImportInit ==
  /\ Init
  /\ session = "CREATED"
  /\ files = [f \in File |-> [state |-> "ABSENT", sha |-> NoContent]]
  /\ tally = [declared |-> 0, archived |-> 0, skipped |-> 0, failed |-> 0,
              checkpoint |-> "NONE"]
  /\ grouped = {}
  /\ asked = [g \in GroupJob |-> {}]
  /\ reg = [m \in Manifest |-> NoRegistration]
  /\ upload = [a \in ArchiveJob |-> [pc |-> "new", file |-> NoFile, sha |-> NoContent]]
  /\ staging = {}
  /\ originals = {}
  /\ step = [p \in Process |-> "read"]

Registered == {f \in File : files[f].state # "ABSENT"}

FilesIn(states) == {f \in File : files[f].state \in states}

Recorded == FilesIn({"ARCHIVED", "SKIPPED_DUPLICATE"})

\* Sessions in which uploads are reserved, released, enqueued and recorded.
AcceptsUploads == session \in {"UPLOADING", "ARCHIVING", "PARTIALLY_FAILED"}

ActiveArchiveJobs(f) == {a \in ArchiveJob : Active(rows[a]) /\ upload[a].file = f}

SetFile(f, state, sha) == [files EXCEPT ![f] = [state |-> state, sha |-> sha]]

\* updateMany over the files in the given states.
SetAll(fs, state) == [f \in File |-> IF f \in fs THEN [files[f] EXCEPT !.state = state] ELSE files[f]]

\* Mutation: the failed files are not counted again.
RecountForgotten(rowsOfFiles) == tally

\* failedFileCount := the number of FAILED rows, counted after the update.
Recount(rowsOfFiles) ==
  [tally EXCEPT !.failed = Cardinality({f \in File : rowsOfFiles[f].state = "FAILED"})]

OneLess(n) == IF n = 0 THEN 0 ELSE n - 1

-----------------------------------------------------------------------------
(* registerManifest: a transaction that does not lock the session row.     *)
(* It reads the state, inserts the files that are not declared yet, counts *)
(* the rows it sees, and at the end writes the state it read at the start. *)
(* A request may come again under another key, or declare files of another *)
(* request; under its last key it only reads its rows back.  One that      *)
(* declares nothing new matters only where it overlaps another writer: by  *)
(* itself it writes back what is there.                                    *)

ReadSession(m) ==
  /\ reg[m].pc = "idle"
  /\ ManifestsOverlap \/ ~(FilesOf[m] \subseteq Registered)
  /\ session \in {"CREATED", "UPLOADING"}
  /\ reg' = [reg EXCEPT ![m].pc = "read", ![m].seen = session]
  /\ UNCHANGED <<vars, files, tally, grouped, asked, upload, staging, originals, step>>

\* Its own inserts are not visible to others yet, nor are theirs to it.
CountFiles(m) ==
  /\ reg[m].pc = "read"
  /\ reg' = [reg EXCEPT ![m].pc = "counted",
                        ![m].adds = FilesOf[m] \ Registered,
                        ![m].count = Cardinality(Registered \cup FilesOf[m])]
  /\ UNCHANGED <<vars, files, tally, grouped, asked, upload, staging, originals, step>>

UpToDate(m) ==
  reg[m].seen = session /\ reg[m].count = Cardinality(Registered \cup FilesOf[m])

\* One row per session and client file id: who inserts a file second rolls back.
CommitManifest(m) ==
  /\ reg[m].pc = "counted"
  /\ reg[m].adds \cap Registered = {}
  /\ ManifestsOverlap \/ UpToDate(m)
  /\ session' = IF reg[m].seen = "CREATED" THEN "UPLOADING" ELSE reg[m].seen
  /\ files' = SetAll(reg[m].adds, "PENDING")
  /\ tally' = [tally EXCEPT !.declared = reg[m].count]
  /\ reg' = [reg EXCEPT ![m] = NoRegistration]
  /\ UNCHANGED <<rows, proc, stopping, faults, grouped, asked, upload, staging, originals, step>>

\* The transaction fails, conflicts, or loses its connection before the commit.
RollBackManifest(m) ==
  /\ reg[m].pc # "idle"
  /\ reg' = [reg EXCEPT ![m] = NoRegistration]
  /\ UNCHANGED <<vars, files, tally, grouped, asked, upload, staging, originals, step>>

-----------------------------------------------------------------------------
(* uploadFile *)

UploadAt(a, pc) == upload' = [upload EXCEPT ![a].pc = pc]

Uploadable(f) == files[f].state \in {"PENDING", "FAILED"}

\* resolveUploadTarget of a mutable file.  (For an ARCHIVED file the call only
\* compares the bytes with the archived evidence and changes nothing.)  The
\* service awaits it before its try block: when the answer to a committed
\* reservation is lost, nobody releases it.
ReserveUpload(a, f) ==
  /\ upload[a].pc = "new"
  /\ AcceptsUploads
  /\ Uploadable(f)
  /\ files' = [files EXCEPT ![f].state = "UPLOADING"]
  /\ tally' = IF files[f].state = "FAILED"
                THEN [tally EXCEPT !.failed = OneLess(@)] ELSE tally
  /\ \/ upload' = [upload EXCEPT ![a].pc = "reserved", ![a].file = f]
     \/ ~RepliesArrive /\ upload' = [upload EXCEPT ![a].pc = "abandoned", ![a].file = f]
  /\ UNCHANGED <<vars, grouped, asked, reg, staging, originals, step>>

\* putStagingStream finished; the entry now exists, whatever is checked next.
StageUpload(a, c) ==
  /\ upload[a].pc = "reserved"
  /\ staging' = staging \cup {a}
  /\ upload' = [upload EXCEPT ![a].pc = "staged", ![a].sha = c]
  /\ UNCHANGED <<vars, files, tally, grouped, asked, reg, originals, step>>

\* The stream broke: no staging key to remove, only a reservation to release.
StagingFails(a) ==
  /\ upload[a].pc = "reserved"
  /\ UploadAt(a, "releasing")
  /\ UNCHANGED <<vars, files, tally, grouped, asked, reg, staging, originals, step>>

\* Length, digest or kind differ from what was declared, or the enqueue was
\* refused or failed before its commit.
UploadRejected(a) ==
  /\ upload[a].pc = "staged"
  /\ UploadAt(a, "cleaning")
  /\ UNCHANGED <<vars, files, tally, grouped, asked, reg, staging, originals, step>>

\* enqueueArchiveFile commits.  If its answer is lost the service sees an
\* exception and takes the same path as for a rejected upload.
EnqueueArchiveFile(a) ==
  /\ upload[a].pc = "staged"
  /\ AcceptsUploads
  /\ files[upload[a].file].state = "UPLOADING"
  /\ ActiveArchiveJobs(upload[a].file) = {}
  /\ Enqueue({a}, IF session = "UPLOADING" THEN "ARCHIVING" ELSE session)
  /\ \/ UploadAt(a, "over")
     \/ ~RepliesArrive /\ UploadAt(a, "cleaning")
  /\ UNCHANGED <<files, tally, grouped, asked, reg, staging, originals, step>>

\* The catch block, first half.  removeStaging's own failure is swallowed.
RemoveStaging(a) ==
  /\ upload[a].pc = "cleaning"
  /\ UploadAt(a, "releasing")
  /\ \/ staging' = staging \ {a}
     \/ UNCHANGED staging
  /\ UNCHANGED <<vars, files, tally, grouped, asked, reg, originals, step>>

Releasable(f) ==
  files[f].state = "UPLOADING" /\ AcceptsUploads /\ ActiveArchiveJobs(f) = {}

\* The catch block, second half: failUploadReservation.
ReleaseReservation(a) ==
  LET f == upload[a].file IN
  /\ upload[a].pc = "releasing"
  /\ UploadAt(a, "over")
  /\ files' = IF Releasable(f) THEN SetAll({f}, "FAILED") ELSE files
  /\ tally' = IF AcceptsUploads /\ files'[f].state = "FAILED" THEN Recount(files') ELSE tally
  /\ UNCHANGED <<vars, grouped, asked, reg, staging, originals, step>>

\* failUploadReservation throws: the error is swallowed and the call is over.
ReleaseFails(a) ==
  /\ upload[a].pc = "releasing"
  /\ UploadAt(a, "abandoned")
  /\ UNCHANGED <<vars, files, tally, grouped, asked, reg, staging, originals, step>>

\* The backend dies inside uploadFile: no catch block runs.
BackendCrash(a) ==
  /\ BackendCrashes
  /\ upload[a].pc \in {"reserved", "staged", "cleaning", "releasing"}
  /\ UploadAt(a, "abandoned")
  /\ UNCHANGED <<vars, files, tally, grouped, asked, reg, staging, originals, step>>

-----------------------------------------------------------------------------
(* The ARCHIVE_FILE handler: read staging, put the original, record it *)

\* throwIfLeaseLost guards every step.
Handling(p, at) ==
  /\ proc[p].pc = "running"
  /\ ~proc[p].lost
  /\ proc[p].job \in ArchiveJob
  /\ step[p] = at

FileOf(p) == upload[proc[p].job].file
ShaOf(p) == upload[proc[p].job].sha

StepTo(p, at) == step' = [step EXCEPT ![p] = at]

\* Mutation: reading the staging entry consumes it.
TakeStaging(p) ==
  /\ Handling(p, "read")
  /\ proc[p].job \in staging
  /\ staging' = staging \ {proc[p].job}
  /\ StepTo(p, "put")
  /\ UNCHANGED <<vars, files, tally, grouped, asked, reg, upload, originals>>

ReadStaging(p) ==
  /\ Handling(p, "read")
  /\ proc[p].job \in staging
  /\ StepTo(p, "put")
  /\ UNCHANGED <<vars, files, tally, grouped, asked, reg, upload, staging, originals>>

PutOriginal(p) ==
  /\ Handling(p, "put")
  /\ originals' = originals \cup {ShaOf(p)}
  /\ StepTo(p, "record")
  /\ UNCHANGED <<vars, files, tally, grouped, asked, reg, upload, staging>>

Accepted(p) == AcceptsUploads /\ LeaseHeld(p)

\* Mutation: failed files count as done.
LastFileOrFailed == tally.archived + tally.skipped + tally.failed + 1 = tally.declared

\* Is the file being recorded the last one of the session?
LastFile == tally.archived + tally.skipped + 1 = tally.declared

\* The counters after one more recorded file.
Counted(field, f) ==
  [tally EXCEPT ![field] = @ + 1,
                !.failed = IF files[f].state = "FAILED" THEN OneLess(@) ELSE @]

StateAfterRecording ==
  IF LastFile /\ session # "PARTIALLY_FAILED" THEN "ARCHIVING" ELSE session

RecordIn(field, f) ==
  /\ tally' = IF LastFile
                THEN [Counted(field, f) EXCEPT !.checkpoint = AdvanceCheckpoint(@, "ARCHIVED")]
                ELSE Counted(field, f)
  /\ session' = StateAfterRecording

\* Mutation: a digest that is already archived is archived again.
RecordWithoutDedup(f, c) ==
  /\ files' = SetFile(f, "ARCHIVED", c)
  /\ RecordIn("archived", f)

RecordAsOriginal(f, c) ==
  /\ ~ \E g \in File \ {f} : files[g] = [state |-> "ARCHIVED", sha |-> c]
  /\ files' = SetFile(f, "ARCHIVED", c)
  /\ RecordIn("archived", f)

RecordAsDuplicate(f, c) ==
  /\ \E g \in File \ {f} : files[g] = [state |-> "ARCHIVED", sha |-> c]
  /\ files' = SetFile(f, "SKIPPED_DUPLICATE", c)
  /\ RecordIn("skipped", f)

\* A replay of a file that an earlier lease holder already recorded.
AlreadyRecorded(f, c) ==
  /\ f \in Recorded
  /\ files[f].sha = c
  /\ UNCHANGED <<files, tally, session>>

RecordUploadedFile(p) ==
  LET f == FileOf(p) IN
  /\ Handling(p, "record")
  /\ Accepted(p)
  /\ \/ AlreadyRecorded(f, ShaOf(p))
     \/ f \notin Recorded /\ (RecordAsOriginal(f, ShaOf(p)) \/ RecordAsDuplicate(f, ShaOf(p)))
  /\ StepTo(p, "return")
  /\ UNCHANGED <<rows, proc, stopping, faults, grouped, asked, reg, upload, staging, originals>>

\* A handler that is no longer running forgets how far it was.
ForgetSteps == step' = [p \in Process |-> IF proc'[p].pc = "running" THEN step[p] ELSE "read"]

\* Unreadable or corrupt staging, a failed write, a refused recordUploadedFile,
\* or one whose commit the worker never learned of.
ArchiveThrows(p) ==
  /\ proc[p].job \in ArchiveJob
  /\ step[p] # "return" \/ ~RepliesArrive
  /\ HandlerThrows(p)
  /\ ForgetSteps
  /\ UNCHANGED <<files, tally, grouped, asked, reg, upload, staging, originals>>

ArchiveReturns(p) ==
  /\ Handling(p, "return")
  /\ HandlerReturns(p)
  /\ ForgetSteps
  /\ UNCHANGED <<files, tally, grouped, asked, reg, upload, staging, originals>>

\* validateArchiveFileResult
EvidenceMatches(p) == FileOf(p) \in Recorded /\ files[FileOf(p)].sha = ShaOf(p)

CompleteArchive(p) ==
  /\ proc[p].job \in ArchiveJob
  /\ EvidenceMatches(p)
  /\ CompleteJob(p, session)
  /\ UNCHANGED importVars

\* Mutation: the last failure forgets the source file.
FailArchiveJobOnly(p) ==
  /\ proc[p].job \in ArchiveJob
  /\ FailJob(p)
  /\ UNCHANGED importVars

FailArchive(p) ==
  LET last == LastAttempt(rows[proc[p].job]) IN
  /\ proc[p].job \in ArchiveJob
  /\ FailJob(p)
  /\ files' = IF last /\ files[FileOf(p)].state = "UPLOADING"
                THEN SetAll({FileOf(p)}, "FAILED") ELSE files
  /\ tally' = IF last THEN Recount(files') ELSE tally
  /\ UNCHANGED <<grouped, asked, reg, upload, staging, originals, step>>

CleanUp(p) ==
  /\ AfterCommit(p)
  /\ \/ staging' = staging \ {proc[p].job}
     \/ UNCHANGED staging
  /\ UNCHANGED <<files, tally, grouped, asked, reg, upload, originals, step>>

-----------------------------------------------------------------------------
(* Grouping *)

StartGrouping(g) ==
  /\ g \in GroupJob
  /\ session \in {"ARCHIVING", "PARTIALLY_FAILED"}
  /\ Registered # {}
  /\ Registered = Recorded
  /\ FilesIn({"ARCHIVED"}) # {}
  /\ grouped = {}
  /\ Enqueue({g}, "PROCESSING")
  /\ asked' = [asked EXCEPT ![g] = FilesIn({"ARCHIVED"})]
  /\ UNCHANGED <<files, tally, grouped, reg, upload, staging, originals, step>>

GroupingReturns(p) ==
  /\ proc[p].job \in GroupJob
  /\ asked[proc[p].job] \subseteq {f \in File : files[f].sha \in originals}
  /\ HandlerReturns(p)
  /\ UNCHANGED importVars

GroupingThrows(p) ==
  /\ proc[p].job \in GroupJob
  /\ HandlerThrows(p)
  /\ UNCHANGED importVars

\* applyGroupSessionResult: every archived file, none grouped yet.
GroupsFit(p) ==
  /\ session = "PROCESSING"
  /\ grouped = {}
  /\ asked[proc[p].job] = FilesIn({"ARCHIVED"})

CompleteGrouping(p) ==
  /\ proc[p].job \in GroupJob
  /\ GroupsFit(p)
  /\ CompleteJob(p, "NEEDS_REVIEW")
  /\ grouped' = asked[proc[p].job]
  /\ tally' = [tally EXCEPT !.checkpoint = AdvanceCheckpoint(@, "GROUPED")]
  /\ UNCHANGED <<files, asked, reg, upload, staging, originals, step>>

FailGrouping(p) ==
  /\ proc[p].job \in GroupJob
  /\ FailJob(p)
  /\ tally' = IF LastAttempt(rows[proc[p].job]) THEN Recount(files) ELSE tally
  /\ UNCHANGED <<files, grouped, asked, reg, upload, staging, originals, step>>

-----------------------------------------------------------------------------

\* completeJob throws CONFLICT: terminal session, lost lease, refused result.
CompletionRefused(p) ==
  /\ CompletionConflicts(p)
  /\ \/ session \in TerminalSessionStates
     \/ ~LeaseHeld(p)
     \/ proc[p].job \in ArchiveJob /\ ~EvidenceMatches(p)
     \/ proc[p].job \in GroupJob /\ ~GroupsFit(p)
  /\ UNCHANGED importVars

\* Mutation: cancellation leaves the jobs alone.
CancelFilesOnly ==
  /\ CanTransition(session, "CANCELLED")
  /\ session' = "CANCELLED"
  /\ files' = SetAll(FilesIn({"PENDING", "UPLOADING"}), "FAILED")
  /\ tally' = Recount(files')
  /\ UNCHANGED <<rows, proc, stopping, faults, grouped, asked, reg, upload, staging,
                 originals, step>>

CancelImport ==
  /\ CancelSession
  /\ files' = SetAll(FilesIn({"PENDING", "UPLOADING"}), "FAILED")
  /\ tally' = Recount(files')
  /\ UNCHANGED <<grouped, asked, reg, upload, staging, originals, step>>

\* What the queue does without touching files, counters or stores.
OnlyQueue(queueStep) ==
  /\ queueStep
  /\ ForgetSteps
  /\ UNCHANGED <<files, tally, grouped, asked, reg, upload, staging, originals>>

WorkerRuns(p) ==
  \/ FirstBeat(p) \/ LosingBeat(p) \/ DiscardOutcome(p)
  \/ CompletionBreaks(p) \/ ProbeLease(p) \/ FailureConflicts(p)

WorkerLifecycle(p) == Claims(p) \/ RequestShutdown(p) \/ Restart(p) \/ Crash(p)

RegisterManifest(m) ==
  ReadSession(m) \/ CountFiles(m) \/ CommitManifest(m) \/ RollBackManifest(m)

UploadFile(a) ==
  \/ \E f \in File : ReserveUpload(a, f)
  \/ \E c \in Content : StageUpload(a, c)
  \/ StagingFails(a) \/ UploadRejected(a) \/ EnqueueArchiveFile(a)
  \/ RemoveStaging(a) \/ ReleaseReservation(a) \/ ReleaseFails(a) \/ BackendCrash(a)

Handles(p) ==
  \/ ReadStaging(p) \/ PutOriginal(p) \/ RecordUploadedFile(p)
  \/ ArchiveThrows(p) \/ ArchiveReturns(p)
  \/ GroupingReturns(p) \/ GroupingThrows(p)
  \/ CompleteArchive(p) \/ CompleteGrouping(p) \/ CompletionRefused(p)
  \/ FailArchive(p) \/ FailGrouping(p) \/ CleanUp(p)
  \/ OnlyQueue(WorkerRuns(p))

ImportNext ==
  \/ \E m \in Manifest : RegisterManifest(m)
  \/ \E a \in ArchiveJob : UploadFile(a)
  \/ \E g \in GroupJob : StartGrouping(g)
  \/ \E p \in Process : Handles(p) \/ OnlyQueue(WorkerLifecycle(p))
  \/ \E j \in Job : OnlyQueue(TimePasses(j))
  \/ CancelImport

ImportSpec == ImportInit /\ [][ImportNext]_allVars

\* A call that reserved a file runs to its end.
UploadProceeds(a) ==
  \/ \E c \in Content : StageUpload(a, c)
  \/ StagingFails(a) \/ UploadRejected(a) \/ EnqueueArchiveFile(a)
  \/ RemoveStaging(a) \/ ReleaseReservation(a) \/ ReleaseFails(a)

\* Uploads in progress run to their end, workers keep polling and finish what
\* they run, clocks advance, and a process that shut down is started again;
\* nobody has to upload, start grouping or cancel.
ImportFairness ==
  /\ \A a \in ArchiveJob : WF_allVars(UploadProceeds(a))
  /\ \A p \in Process :
       /\ WF_allVars(Handles(p))
       /\ WF_allVars(OnlyQueue(Claims(p)))
       /\ WF_allVars(OnlyQueue(Restart(p)))
  /\ \A j \in Job :
       /\ WF_allVars(OnlyQueue(LeaseExpires(j)))
       /\ WF_allVars(OnlyQueue(BackoffElapses(j)))

LiveImportSpec == ImportSpec /\ ImportFairness

-----------------------------------------------------------------------------
(* Safety *)

(***************************************************************************)
(* The counters of the session row always equal what a count of its file   *)
(* rows would give.  Five handlers maintain them, some by increment and    *)
(* some by recount, and reservation, release, recording, terminal failure  *)
(* and cancellation interleave; the completion test of recordUploadedFile  *)
(* depends on them.                                                        *)
(***************************************************************************)
CountersMatchRows ==
  /\ tally.declared = Cardinality(Registered)
  /\ tally.archived = Cardinality(FilesIn({"ARCHIVED"}))
  /\ tally.skipped = Cardinality(FilesIn({"SKIPPED_DUPLICATE"}))
  /\ tally.failed = Cardinality(FilesIn({"FAILED"}))

(***************************************************************************)
(* A recorded file has its evidence: the bytes of every archived file are  *)
(* in the archive, every duplicate points at an archived file with the     *)
(* same digest, and no two archived files share a digest.                  *)
(***************************************************************************)
RecordedFilesHaveEvidence ==
  \A f \in Recorded :
    /\ files[f].sha \in originals
    /\ Cardinality({g \in File : files[g] = [state |-> "ARCHIVED", sha |-> files[f].sha]}) = 1

(***************************************************************************)
(* A file has at most one archive job that can still run, and none while   *)
(* the file is open to a new upload: an old attempt can never archive its  *)
(* bytes over a newer one.                                                 *)
(***************************************************************************)
OneArchiveJobPerFile ==
  \A f \in File :
    /\ Cardinality(ActiveArchiveJobs(f)) <= 1
    /\ files[f].state \in {"PENDING", "FAILED"} => ActiveArchiveJobs(f) = {}

(***************************************************************************)
(* The staged bytes of a job that can still run are there: neither the     *)
(* catch block of an upload nor the cleanup of another holder removes the  *)
(* input a reclaimed job needs (docs/ASSET_PIPELINE.md:82).                *)
(***************************************************************************)
StagedWhileActive ==
  \A a \in ArchiveJob : Active(rows[a]) => a \in staging

(***************************************************************************)
(* The ARCHIVED checkpoint is earned: once it is set, every declared file  *)
(* is archived or a recorded duplicate.                                    *)
(***************************************************************************)
CheckpointIsEarned ==
  tally.checkpoint # "NONE" => Registered = Recorded

(***************************************************************************)
(* Once grouping has been materialized the groups hold exactly the         *)
(* archived files, and until then no file has a group, whatever failed and *)
(* was retried in between.                                                 *)
(***************************************************************************)
GroupsCoverTheArchive ==
  grouped = IF CheckpointRank[tally.checkpoint] >= CheckpointRank["GROUPED"]
              THEN FilesIn({"ARCHIVED"}) ELSE {}

(***************************************************************************)
(* The session only makes moves of ASSET_IMPORT_SESSION_TRANSITIONS, and   *)
(* so never leaves PUBLISHED, FAILED or CANCELLED                          *)
(* (docs/API_SPECIFICATION.md:183).                                        *)
(***************************************************************************)
SessionMovesAreLegal ==
  [][session' # session => CanTransition(session, session')]_allVars

(***************************************************************************)
(* A recorded file keeps its state and its digest, and an original is      *)
(* never lost, through every retry, late worker and cancellation.          *)
(***************************************************************************)
RecordedIsFinal ==
  [][/\ \A f \in Recorded : files'[f] = files[f]
     /\ originals \subseteq originals']_allVars

(***************************************************************************)
(* An upload attempt releases its own reservation only: while another      *)
(* attempt has the file reserved or staged, nobody else's catch block      *)
(* fails it.                                                               *)
(***************************************************************************)
ReleasesItsOwnReservation ==
  [][\A a \in ArchiveJob :
       upload[a].pc = "releasing" /\ upload'[a].pc = "over"
         => \A b \in ArchiveJob \ {a} :
              upload[b].pc \in {"reserved", "staged"} => files'[upload[b].file] = files[upload[b].file]]_allVars

(***************************************************************************)
(* The import uses the job queue as AssetJobLease specifies it, so what    *)
(* holds of the queue in every environment holds here.                     *)
(***************************************************************************)
UsesTheQueue == Spec

(***************************************************************************)
(* A worker that reclaims the job of a file it or another worker already   *)
(* recorded is accepted again, and so completes the job: the crash window  *)
(* between recordUploadedFile and completeJob is harmless                  *)
(* (docs/ASSET_PIPELINE.md:121).                                           *)
(***************************************************************************)
ReplayIsAccepted ==
  \A p \in Process :
    Handling(p, "record") /\ LeaseHeld(p) /\ EvidenceMatches(p) => Accepted(p)

-----------------------------------------------------------------------------
(* Liveness *)

\* The file is reserved, no call and no job is at work on it, and the call that
\* ended last did so without its catch block taking effect.
Stranded(f) ==
  /\ files[f].state = "UPLOADING"
  /\ ActiveArchiveJobs(f) = {}
  /\ \A a \in ArchiveJob : upload[a].file = f => upload[a].pc \in {"over", "abandoned"}
  /\ \E a \in ArchiveJob :
       upload[a].file = f /\ upload[a].pc = "abandoned" /\ rows[a].state = "ABSENT"

(***************************************************************************)
(* Every reserved file is eventually archived, skipped, or failed and open *)
(* to a new upload, through worker crashes, lapsed leases, failed jobs,    *)
(* lost answers and cancellation, unless its upload was cut off before it  *)
(* could queue a job or release the file: by a backend crash, by the loss  *)
(* of the answer to its reservation, or by a failure of the release itself.*)
(***************************************************************************)
EveryUploadResolves ==
  \A f \in File :
    files[f].state = "UPLOADING" ~> (files[f].state # "UPLOADING" \/ Stranded(f))

(***************************************************************************)
(* No upload leaves its file in limbo.  A file that stays UPLOADING can    *)
(* neither be uploaded again nor be left out of the grouping.  The code    *)
(* lacks what would bring such a file back: a reservation does not lapse.  *)
(***************************************************************************)
NoUploadIsStranded ==
  \A f \in File : files[f].state = "UPLOADING" ~> files[f].state # "UPLOADING"

=============================================================================
