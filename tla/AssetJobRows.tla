---------------------------- MODULE AssetJobRows ----------------------------
(***************************************************************************)
(* One row of asset_processing_jobs and what each statement of the         *)
(* repository does to it: the claiming UPDATE, the lease compare-and-set   *)
(* that heartbeatJob, recordUploadedFile, completeJob and failJob share,   *)
(* and the cancelling UPDATE.  Constant-level: the modules that own a job  *)
(* table apply these operators to their own variables.                     *)
(*                                                                         *)
(* Time is abstracted to what the statements compare: "lease" says whether *)
(* lease_until is null, ahead of the clock (live) or behind it (lapsed),   *)
(* and "due" whether next_attempt_at is null or past.                      *)
(***************************************************************************)
EXTENDS Naturals

CONSTANTS
  WorkerId,     \* worker_id values
  Token,        \* lease_token values (randomUUID)
  NoWorker,     \* worker_id IS NULL
  NoToken,      \* lease_token IS NULL
  MaxRetries    \* max_retries: 3 in the code

ASSUME RowsAssumption ==
  /\ MaxRetries \in Nat
  /\ NoWorker \notin WorkerId
  /\ NoToken \notin Token

Rows ==
  [state  : {"ABSENT", "QUEUED", "RUNNING", "COMPLETED", "FAILED"},
   worker : WorkerId \cup {NoWorker},
   token  : Token \cup {NoToken},
   lease  : {"none", "live", "lapsed"},
   retry  : 0..(MaxRetries + 1),
   due    : BOOLEAN]

\* A job id that has not been created yet.
AbsentRow ==
  [state |-> "ABSENT", worker |-> NoWorker, token |-> NoToken,
   lease |-> "none", retry |-> 0, due |-> TRUE]

\* assetProcessingJob.create: QUEUED, retryCount 0, nextAttemptAt null.
QueuedRow == [AbsentRow EXCEPT !.state = "QUEUED"]

Active(row) == row.state \in {"QUEUED", "RUNNING"}

Settled(row) == row.state \in {"COMPLETED", "FAILED"}

\* Mutation: a running job is claimable whatever its lease says.
ClaimableWhileLeased(row) ==
  (row.state = "QUEUED" /\ row.due) \/ row.state = "RUNNING"

\* Mutation: a lapsed lease is never reclaimed.
ClaimableWhenQueued(row) == row.state = "QUEUED" /\ row.due

\* The WHERE clause of claimNextJob.
Claimable(row) ==
  \/ row.state = "QUEUED" /\ row.due
  \/ row.state = "RUNNING" /\ row.lease = "lapsed"

\* Claiming neither reads nor writes retry_count and next_attempt_at.
ClaimedRow(row, w, t) ==
  [row EXCEPT !.state = "RUNNING", !.worker = w, !.token = t, !.lease = "live"]

\* Mutation: the compare-and-set identifies the worker by its id alone.
HeldByWorkerId(row, w, t) ==
  row.state = "RUNNING" /\ row.worker = w /\ row.lease = "live"

\* jobId + RUNNING + workerId + leaseToken + leaseUntil > now.
HeldBy(row, w, t) ==
  /\ row.state = "RUNNING"
  /\ row.worker = w
  /\ row.token = t
  /\ row.lease = "live"

\* completeJob keeps worker_id as evidence and clears the lease.
CompletedRow(row) ==
  [row EXCEPT !.state = "COMPLETED", !.token = NoToken, !.lease = "none", !.due = TRUE]

\* Mutation: one attempt too many.
LastAttemptTooLate(row) == row.retry > MaxRetries

\* failJob: retryCount + 1, terminal once it exceeds maxRetries.
LastAttempt(row) == row.retry + 1 > MaxRetries

\* Mutation: a job that failed for the last time is queued again.
FailedRowRequeued(row) ==
  [row EXCEPT !.state = "QUEUED", !.worker = NoWorker, !.token = NoToken,
              !.lease = "none", !.retry = @ + 1]

FailedRow(row) ==
  [state  |-> IF LastAttempt(row) THEN "FAILED" ELSE "QUEUED",
   worker |-> NoWorker, token |-> NoToken, lease |-> "none",
   retry  |-> row.retry + 1,
   due    |-> LastAttempt(row)]

\* Mutation: cancellation misses the running jobs.
CancelledIfQueued(row) ==
  IF row.state = "QUEUED" THEN [row EXCEPT !.state = "FAILED"] ELSE row

\* The job UPDATE of cancelSession: only QUEUED and RUNNING rows match.
CancelledRow(row) ==
  IF Active(row)
    THEN [row EXCEPT !.state = "FAILED", !.worker = NoWorker, !.token = NoToken,
                     !.lease = "none", !.due = TRUE]
    ELSE row

=============================================================================
