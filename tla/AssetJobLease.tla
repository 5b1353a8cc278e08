--------------------------- MODULE AssetJobLease ---------------------------
(***************************************************************************)
(* The job queue of the bead asset import: the table of processing jobs of *)
(* one import session (AssetImportRepository.claimNextJob, heartbeatJob,   *)
(* completeJob, failJob, cancelSession) and the worker processes that run  *)
(* the loop of apps/asset-worker (AssetWorker).                            *)
(*                                                                         *)
(* Each repository call is one transaction and one action.  Between two    *)
(* calls of a worker anything may happen: its lease may lapse, another     *)
(* worker may reclaim the job, the session may be cancelled, the process   *)
(* may crash.  What the handlers do to files and groups is left to         *)
(* ArchiveImport and GroupReview; here a completion is accepted or         *)
(* rejected, and the session is moved by handlers of other modules.        *)
(***************************************************************************)
EXTENDS AssetJobRows, AssetImportContract

CONSTANTS
  Job,          \* job ids of one session
  Process,      \* asset-worker processes
  IdOf,         \* the configured worker id of each process
  NoJob,
  Nobody,
  OtherStates,  \* session states that handlers outside this module may set
  MaxFaults     \* bound on crashes, stalls past the lease and shutdowns

ASSUME LeaseAssumption ==
  /\ IdOf \in [Process -> WorkerId]
  /\ NoJob \notin Job
  /\ Nobody \notin Process
  /\ OtherStates \subseteq SessionStates
  /\ MaxFaults \in Nat

VARIABLES
  rows,       \* asset_processing_jobs
  session,    \* asset_import_sessions.state
  proc,       \* what each worker process remembers
  stopping,   \* processes whose shutdown was requested
  faults      \* crashes, stalls and shutdowns so far

vars == <<rows, session, proc, stopping, faults>>

Idle == [pc |-> "idle", job |-> NoJob, token |-> NoToken, lost |-> FALSE]

Phases == {"idle", "claimed", "running", "completing", "probing", "failing", "cleanup"}

TypeOK ==
  /\ rows \in [Job -> Rows]
  /\ session \in SessionStates
  /\ proc \in [Process -> [pc : Phases, job : Job \cup {NoJob},
                           token : Token \cup {NoToken}, lost : BOOLEAN]]
  /\ stopping \subseteq Process
  /\ faults \in 0..MaxFaults

Init ==
  /\ rows = [j \in Job |-> AbsentRow]
  /\ session \in OtherStates \ TerminalSessionStates
  /\ proc = [p \in Process |-> Idle]
  /\ stopping = {}
  /\ faults = 0

Busy(p) == proc[p].pc # "idle"

\* The lease compare-and-set as p would issue it for the job it works on.
LeaseHeld(p) == Busy(p) /\ HeldBy(rows[proc[p].job], IdOf[p], proc[p].token)

\* randomUUID: a token nobody holds and no row stores.
FreshTokens ==
  Token \ ({rows[j].token : j \in Job} \cup {proc[p].token : p \in Process})

Goto(p, pc) == proc' = [proc EXCEPT ![p].pc = pc]

Abandon(p) == proc' = [proc EXCEPT ![p] = Idle]

-----------------------------------------------------------------------------
(* The rest of the repository *)

\* What a transaction of another handler may leave in the session.
MovesTo(s) == s = session \/ s \in OtherStates \ {"CANCELLED"}

\* Any handler that queues work (enqueueArchiveFile, startGrouping,
\* startProcessing, reprocessGroup) does so only in a live session, which the
\* same transaction may move.
Enqueue(js, s) ==
  /\ \A j \in js : rows[j].state = "ABSENT"
  /\ session \notin TerminalSessionStates
  /\ MovesTo(s)
  /\ session' = s
  /\ rows' = [j \in Job |-> IF j \in js THEN QueuedRow ELSE rows[j]]
  /\ UNCHANGED <<proc, stopping, faults>>

\* Handlers outside this module move a live session; cancelSession is below.
SessionMoves(s) ==
  /\ session \notin TerminalSessionStates
  /\ MovesTo(s)
  /\ session' = s
  /\ UNCHANGED <<rows, proc, stopping, faults>>

CancelSession ==
  /\ CanTransition(session, "CANCELLED")
  /\ session' = "CANCELLED"
  /\ rows' = [j \in Job |-> CancelledRow(rows[j])]
  /\ UNCHANGED <<proc, stopping, faults>>

-----------------------------------------------------------------------------
(* The worker loop *)

\* runOnce: claimNextJob.  FOR UPDATE SKIP LOCKED passes over rows that other
\* transactions hold, so any claimable row may be the oldest one it sees.
Claim(p, j, t) ==
  /\ ~Busy(p)
  /\ p \notin stopping
  /\ Claimable(rows[j])
  /\ t \in FreshTokens
  /\ rows' = [rows EXCEPT ![j] = ClaimedRow(@, IdOf[p], t)]
  /\ proc' = [proc EXCEPT ![p] = [pc |-> "claimed", job |-> j, token |-> t, lost |-> FALSE]]
  /\ UNCHANGED <<session, stopping, faults>>

\* processClaimedJob: the first heartbeat proves the lease before any work.
FirstBeat(p) ==
  /\ proc[p].pc = "claimed"
  /\ IF LeaseHeld(p) THEN Goto(p, "running") ELSE Abandon(p)
  /\ UNCHANGED <<rows, session, stopping, faults>>

\* startHeartbeat: a beat that finds the lease lost aborts the handler's
\* signal.  A beat that finds it held leaves it as live as it was.
LosingBeat(p) ==
  /\ proc[p].pc = "running"
  /\ ~proc[p].lost
  /\ ~LeaseHeld(p)
  /\ proc' = [proc EXCEPT ![p].lost = TRUE]
  /\ UNCHANGED <<rows, session, stopping, faults>>

\* The handler returned or threw after its lease was lost.
DiscardOutcome(p) ==
  /\ proc[p].pc = "running"
  /\ proc[p].lost
  /\ Abandon(p)
  /\ UNCHANGED <<rows, session, stopping, faults>>

HandlerReturns(p) ==
  /\ proc[p].pc = "running"
  /\ ~proc[p].lost
  /\ Goto(p, "completing")
  /\ UNCHANGED <<rows, session, stopping, faults>>

HandlerThrows(p) ==
  /\ proc[p].pc = "running"
  /\ ~proc[p].lost
  /\ Goto(p, "failing")
  /\ UNCHANGED <<rows, session, stopping, faults>>

\* completeJob commits: the session is live, the lease is held, the result is
\* accepted, and applying it may move the session.
CompleteJob(p, s) ==
  /\ proc[p].pc = "completing"
  /\ session \notin TerminalSessionStates
  /\ LeaseHeld(p)
  /\ rows' = [rows EXCEPT ![proc[p].job] = CompletedRow(@)]
  /\ Goto(p, "cleanup")
  /\ MovesTo(s)
  /\ session' = s
  /\ UNCHANGED <<stopping, faults>>

\* Mutation: the staging entry is removed in a finally block.
CleanupAfterConflict(p) ==
  /\ proc[p].pc = "completing"
  /\ Goto(p, "cleanup")
  /\ UNCHANGED <<rows, session, stopping, faults>>

\* completeJob throws CONFLICT: terminal session, lost lease, or a result the
\* database rejects while the lease is held.
CompletionConflicts(p) ==
  /\ proc[p].pc = "completing"
  /\ Goto(p, "probing")
  /\ UNCHANGED <<rows, session, stopping, faults>>

\* completeJob throws anything else: COMPLETION_REJECTED without a probe.
CompletionBreaks(p) ==
  /\ proc[p].pc = "completing"
  /\ Goto(p, "failing")
  /\ UNCHANGED <<rows, session, stopping, faults>>

\* One more beat tells a lease takeover from a rejected result.
ProbeLease(p) ==
  /\ proc[p].pc = "probing"
  /\ IF LeaseHeld(p) THEN Goto(p, "failing") ELSE Abandon(p)
  /\ UNCHANGED <<rows, session, stopping, faults>>

\* submitFailure: failJob with retries left requeues with a backoff; the last
\* attempt also records the failure on the session in the same transaction.
FailJob(p) ==
  /\ proc[p].pc = "failing"
  /\ LeaseHeld(p)
  /\ rows' = [rows EXCEPT ![proc[p].job] = FailedRow(@)]
  /\ IF LastAttempt(rows[proc[p].job])
       THEN /\ RecordsTerminalFailure(session)
            /\ session' = TerminalFailureState(session)
       ELSE UNCHANGED session
  /\ Abandon(p)
  /\ UNCHANGED <<stopping, faults>>

\* failJob throws CONFLICT: the lease is lost, or the session can record no
\* failure.  The whole transaction rolls back and the lease is left to expire.
FailureConflicts(p) ==
  /\ proc[p].pc = "failing"
  /\ \/ ~LeaseHeld(p)
     \/ LastAttempt(rows[proc[p].job]) /\ ~RecordsTerminalFailure(session)
  /\ Abandon(p)
  /\ UNCHANGED <<rows, session, stopping, faults>>

\* afterCommit: removes the staging entry; its failure is only logged.
AfterCommit(p) ==
  /\ proc[p].pc = "cleanup"
  /\ Abandon(p)
  /\ UNCHANGED <<rows, session, stopping, faults>>

-----------------------------------------------------------------------------
(* Shutdown, crashes and the clock *)

\* requestShutdown: the job in flight finishes first, nothing new is claimed.
RequestShutdown(p) ==
  /\ p \notin stopping
  /\ faults < MaxFaults
  /\ faults' = faults + 1
  /\ stopping' = stopping \cup {p}
  /\ UNCHANGED <<rows, session, proc>>

\* The supervisor starts the process again, with the same configured id.
Restart(p) ==
  /\ p \in stopping
  /\ ~Busy(p)
  /\ stopping' = stopping \ {p}
  /\ UNCHANGED <<rows, session, proc, faults>>

\* Also the exit past the shutdown grace, a heartbeat that could not reach the
\* database, and a call whose answer never came: the work is abandoned.
Crash(p) ==
  /\ Busy(p)
  /\ faults < MaxFaults
  /\ faults' = faults + 1
  /\ Abandon(p)
  /\ UNCHANGED <<rows, session, stopping>>

\* A live lease nobody works under runs out.
LeaseExpires(j) ==
  /\ rows[j].state = "RUNNING"
  /\ rows[j].lease = "live"
  /\ \A p \in Process : ~(LeaseHeld(p) /\ proc[p].job = j)
  /\ rows' = [rows EXCEPT ![j].lease = "lapsed"]
  /\ UNCHANGED <<session, proc, stopping, faults>>

\* A worker stalls, or cannot reach the database, for longer than its lease.
Stall(j) ==
  /\ rows[j].lease = "live"
  /\ \E p \in Process : LeaseHeld(p) /\ proc[p].job = j
  /\ faults < MaxFaults
  /\ faults' = faults + 1
  /\ rows' = [rows EXCEPT ![j].lease = "lapsed"]
  /\ UNCHANGED <<session, proc, stopping>>

BackoffElapses(j) ==
  /\ rows[j].state = "QUEUED"
  /\ ~rows[j].due
  /\ rows' = [rows EXCEPT ![j].due = TRUE]
  /\ UNCHANGED <<session, proc, stopping, faults>>

-----------------------------------------------------------------------------

Works(p) ==
  \/ FirstBeat(p) \/ LosingBeat(p)
  \/ DiscardOutcome(p) \/ HandlerReturns(p) \/ HandlerThrows(p)
  \/ \E s \in SessionStates : CompleteJob(p, s)
  \/ CompletionConflicts(p) \/ CompletionBreaks(p)
  \/ ProbeLease(p) \/ FailJob(p) \/ FailureConflicts(p) \/ AfterCommit(p)

Claims(p) == \E j \in Job, t \in Token : Claim(p, j, t)

TimePasses(j) == LeaseExpires(j) \/ Stall(j) \/ BackoffElapses(j)

Next ==
  \/ \E p \in Process :
       Claims(p) \/ Works(p) \/ RequestShutdown(p) \/ Restart(p) \/ Crash(p)
  \/ \E j \in Job : TimePasses(j)
  \/ \E s \in SessionStates :
       SessionMoves(s) \/ \E js \in SUBSET Job : Enqueue(js, s)
  \/ CancelSession

Spec == Init /\ [][Next]_vars

-----------------------------------------------------------------------------
(* Safety *)

(***************************************************************************)
(* No two worker processes hold the same job, although they may be         *)
(* configured with the same worker id (the default id is the process id,   *)
(* which repeats across containers and restarts): the token that each      *)
(* claim mints is what keeps a process that lost its lease out.            *)
(***************************************************************************)
ExclusiveLease ==
  \A p, q \in Process :
    LeaseHeld(p) /\ LeaseHeld(q) /\ proc[p].job = proc[q].job => p = q

(***************************************************************************)
(* The staging entry of a job is removed only after its completion         *)
(* committed, whatever happened to the session and to the lease since: a   *)
(* worker in the post-commit step always finds its job COMPLETED.          *)
(***************************************************************************)
CleanupAfterCommit ==
  \A p \in Process :
    proc[p].pc = "cleanup" => rows[proc[p].job].state = "COMPLETED"

(***************************************************************************)
(* The retry budget is never exceeded by any interleaving of reclaims and  *)
(* failures: a job that can still run has recorded at most MaxRetries      *)
(* failures, and one that its failures killed has recorded exactly one     *)
(* more.  (A job that cancellation killed has recorded fewer.)             *)
(***************************************************************************)
RetryBudget ==
  \A j \in Job :
    /\ Active(rows[j]) => rows[j].retry <= MaxRetries
    /\ rows[j].retry > MaxRetries => rows[j].state = "FAILED"

(***************************************************************************)
(* Cancelling a session leaves no job that a worker could still claim or   *)
(* complete, and none appears afterwards.                                  *)
(***************************************************************************)
CancelledSessionIsQuiet ==
  session = "CANCELLED" => \A j \in Job : ~Active(rows[j])

(***************************************************************************)
(* A settled job keeps its outcome: no late completion, late failure or    *)
(* cancellation of a worker that lost its lease changes the row.           *)
(***************************************************************************)
OutcomeIsFinal ==
  [][\A j \in Job : Settled(rows[j]) => rows'[j] = rows[j]]_vars

(***************************************************************************)
(* Only the process that holds the live lease moves a running job to       *)
(* COMPLETED or back to QUEUED; the only other way out of RUNNING is       *)
(* cancellation.                                                           *)
(***************************************************************************)
OnlyTheHolderSettles ==
  [][\A j \in Job :
       rows[j].state = "RUNNING" /\ rows'[j].state # "RUNNING"
         => \/ session' = "CANCELLED"
            \/ \E p \in Process :
                 /\ LeaseHeld(p)
                 /\ proc[p].job = j
                 /\ proc'[p] # proc[p]]_vars

-----------------------------------------------------------------------------
(* The abstract specification this module implements *)

JobStatus(row) ==
  CASE row.state = "ABSENT" -> "absent"
    [] Active(row) -> "open"
    [] row.state = "COMPLETED" -> "done"
    [] row.state = "FAILED" -> "dead"

Owner(j) ==
  IF \E p \in Process : LeaseHeld(p) /\ proc[p].job = j
    THEN CHOOSE p \in Process : LeaseHeld(p) /\ proc[p].job = j
    ELSE Nobody

Exclusive ==
  INSTANCE ExclusiveJobs
    WITH status <- [j \in Job |-> JobStatus(rows[j])],
         owner  <- [j \in Job |-> Owner(j)]

\* The queue implements exclusive jobs.
ExclusiveSpec == Exclusive!ASpec

-----------------------------------------------------------------------------
(* Liveness *)

(***************************************************************************)
(* Every job that was queued is eventually completed or failed, through    *)
(* every crash, stall and restart, by lease expiry and reclaim alone.      *)
(* AssetJobLease alone does not have it: in a session where failJob can    *)
(* record no failure and completeJob accepts nothing, a job is reclaimed   *)
(* again and again.  ArchiveImport, which says how the session moves, does *)
(* (under LiveImportSpec).                                                 *)
(***************************************************************************)
EveryJobSettles ==
  \A j \in Job : rows[j].state = "QUEUED" ~> Settled(rows[j])

=============================================================================
