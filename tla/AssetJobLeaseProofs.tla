------------------------ MODULE AssetJobLeaseProofs ------------------------
(***************************************************************************)
(* Theorems about AssetJobLease, for any number of jobs, processes and     *)
(* tokens, any assignment of worker ids and any retry budget.              *)
(*                                                                         *)
(* The argument rests on one strengthening, LeaseInv.  Of the processes it *)
(* says that a busy one has a job and a token and that no two busy ones    *)
(* have the same token; of the rows, that a job that can still run has     *)
(* retries left, which is what bounds retry_count; and that a process in   *)
(* its post-commit step has committed.                                     *)
(***************************************************************************)
EXTENDS AssetJobLease, TLAPS

ProcRecord ==
  [pc : Phases, job : Job \cup {NoJob}, token : Token \cup {NoToken}, lost : BOOLEAN]

ProcessesOK ==
  /\ proc \in [Process -> ProcRecord]
  /\ \A p \in Process : Busy(p) => proc[p].job \in Job /\ proc[p].token \in Token
  /\ \A p, q \in Process :
       Busy(p) /\ Busy(q) /\ proc[p].token = proc[q].token => p = q

\* The retry budget of one row.
WithinBudget(row) ==
  /\ Active(row) => row.retry <= MaxRetries
  /\ row.retry > MaxRetries => row.state = "FAILED"

RowsOK ==
  /\ rows \in [Job -> Rows]
  /\ \A j \in Job : WithinBudget(rows[j])

RestOK ==
  /\ session \in SessionStates
  /\ stopping \subseteq Process
  /\ faults \in 0..MaxFaults

LeaseInv ==
  /\ ProcessesOK
  /\ RowsOK
  /\ RestOK
  /\ CleanupAfterCommit
  /\ CancelledSessionIsQuiet

-----------------------------------------------------------------------------
(* What each statement of the repository does to a row *)

\* A row that is well formed and within its budget.
GoodRow(row) == row \in Rows /\ WithinBudget(row)

\* A job that is absent or freshly queued is well formed and within budget.
LEMMA QueuedRowIsGood == GoodRow(AbsentRow) /\ GoodRow(QueuedRow)
  <1>1. 0 \in 0..(MaxRetries + 1)
    BY RowsAssumption
  <1>2. AbsentRow \in Rows
    BY <1>1, Zenon DEF Rows, AbsentRow
  <1>3. QueuedRow \in Rows
    BY <1>2 DEF Rows, QueuedRow
  <1> QED
    BY <1>2, <1>3, RowsAssumption DEF GoodRow, WithinBudget, Active, QueuedRow, AbsentRow

\* Claiming keeps the failures counted so far.
LEMMA ClaimedRowIsGood ==
  ASSUME NEW row, GoodRow(row), Claimable(row), NEW w \in WorkerId, NEW t \in Token
  PROVE  GoodRow(ClaimedRow(row, w, t))
  BY RowsAssumption DEF GoodRow, WithinBudget, Active, Claimable, ClaimedRow, Rows

\* Completing keeps the row within its budget.
LEMMA CompletedRowIsGood ==
  ASSUME NEW row, GoodRow(row), row.state = "RUNNING"
  PROVE  GoodRow(CompletedRow(row))
  BY RowsAssumption DEF GoodRow, WithinBudget, Active, CompletedRow, Rows

\* Cancelling leaves every row well formed and none active.
LEMMA CancelledRowIsGood ==
  ASSUME NEW row, GoodRow(row)
  PROVE  GoodRow(CancelledRow(row)) /\ ~Active(CancelledRow(row))
  BY RowsAssumption DEF GoodRow, WithinBudget, Active, CancelledRow, Rows

\* Failing requeues within the budget or kills the job one past it.
LEMMA FailedRowIsGood ==
  ASSUME NEW row, GoodRow(row), row.state = "RUNNING"
  PROVE  GoodRow(FailedRow(row))
  <1>1. row.retry + 1 \in 0..(MaxRetries + 1)
    BY RowsAssumption DEF GoodRow, WithinBudget, Active, Rows
  <1>2. LastAttempt(row) \in BOOLEAN
    BY DEF LastAttempt
  <1>3. FailedRow(row) \in Rows
    BY <1>1, <1>2, Zenon DEF Rows, FailedRow
  <1>4. WithinBudget(FailedRow(row))
    BY <1>1, RowsAssumption DEF WithinBudget, Active, FailedRow, LastAttempt
  <1> QED
    BY <1>3, <1>4 DEF GoodRow

\* The clock changes neither who holds a row nor its failures.
LEMMA ClockKeepsRowsGood ==
  ASSUME NEW row, GoodRow(row)
  PROVE  /\ GoodRow([row EXCEPT !.lease = "lapsed"])
         /\ GoodRow([row EXCEPT !.due = TRUE])
  BY RowsAssumption DEF GoodRow, WithinBudget, Active, Rows

\* The rows stay good when one of them is replaced by a good one.
LEMMA OneRowChanges ==
  ASSUME RowsOK, NEW j \in Job, NEW row, GoodRow(row), rows' = [rows EXCEPT ![j] = row]
  PROVE  RowsOK'
  BY DEF RowsOK, GoodRow

-----------------------------------------------------------------------------
(* What the worker loop does to the process records *)

\* Moving one busy process to another phase keeps the process part.
LEMMA GotoKeepsProcesses ==
  ASSUME ProcessesOK, NEW p \in Process, Busy(p), NEW pc \in Phases, Goto(p, pc)
  PROVE  ProcessesOK'
  BY DEF ProcessesOK, ProcRecord, Goto, Busy

\* A process that drops its job keeps the process part.
LEMMA AbandonKeepsProcesses ==
  ASSUME ProcessesOK, NEW p \in Process, Abandon(p)
  PROVE  ProcessesOK'
  BY DEF ProcessesOK, ProcRecord, Abandon, Busy, Idle, Phases

-----------------------------------------------------------------------------

\* The inductive invariant holds initially.
LEMMA InitEstablishesLeaseInv == Init => LeaseInv
  <1> SUFFICES ASSUME Init PROVE LeaseInv
    OBVIOUS
  <1>1. RowsOK /\ CancelledSessionIsQuiet
    BY QueuedRowIsGood DEF Init, RowsOK, GoodRow, CancelledSessionIsQuiet, AbsentRow, Active
  <1>2. ProcessesOK /\ CleanupAfterCommit
    BY DEF Init, ProcessesOK, ProcRecord, CleanupAfterCommit, Busy, Idle, Phases
  <1>3. RestOK
    BY LeaseAssumption DEF Init, RestOK
  <1> QED
    BY <1>1, <1>2, <1>3 DEF LeaseInv

-----------------------------------------------------------------------------
(* Facts about a lease that several steps need *)

\* Whoever holds a lease holds a RUNNING row.
LEMMA HolderRuns ==
  ASSUME LeaseInv, NEW p \in Process, LeaseHeld(p)
  PROVE  /\ proc[p].job \in Job
         /\ rows[proc[p].job].state = "RUNNING"
         /\ GoodRow(rows[proc[p].job])
  BY DEF LeaseInv, ProcessesOK, RowsOK, GoodRow, LeaseHeld, HeldBy

\* A running job means the session was not cancelled.
LEMMA RunningMeansNotCancelled ==
  ASSUME LeaseInv, NEW j \in Job, rows[j].state = "RUNNING"
  PROVE  session # "CANCELLED"
  BY DEF LeaseInv, CancelledSessionIsQuiet, Active

\* No step changes a settled row.
KeepsOutcomes == \A j \in Job : Settled(rows[j]) => rows'[j] = rows[j]

\* A step that keeps COMPLETED rows and starts no cleanup keeps CleanupAfterCommit.
LEMMA CleanupKept ==
  ASSUME LeaseInv, KeepsOutcomes,
         \A p \in Process : proc'[p].pc = "cleanup" => proc'[p] = proc[p]
  PROVE  CleanupAfterCommit'
  BY DEF LeaseInv, ProcessesOK, KeepsOutcomes, CleanupAfterCommit, Busy, Settled

\* The steps that touch one process only: everything but proc is as before.
LEMMA ProcessStepKeepsRest ==
  ASSUME LeaseInv, UNCHANGED <<rows, session, stopping, faults>>, ProcessesOK',
         \A p \in Process : proc'[p].pc = "cleanup" => proc'[p] = proc[p]
  PROVE  LeaseInv' /\ KeepsOutcomes
  <1>1. KeepsOutcomes
    BY DEF KeepsOutcomes
  <1>2. CleanupAfterCommit'
    BY <1>1, CleanupKept
  <1>3. RowsOK' /\ RestOK' /\ CancelledSessionIsQuiet'
    BY DEF LeaseInv, RowsOK, RestOK, CancelledSessionIsQuiet
  <1> QED
    BY <1>1, <1>2, <1>3 DEF LeaseInv

\* A phase change that touches no row preserves the invariant.
LEMMA GotoStep ==
  ASSUME LeaseInv, NEW p \in Process, Busy(p), NEW pc \in Phases, pc # "cleanup",
         Goto(p, pc), UNCHANGED <<rows, session, stopping, faults>>
  PROVE  LeaseInv' /\ KeepsOutcomes
  <1>1. ProcessesOK'
    BY GotoKeepsProcesses DEF LeaseInv
  <1>2. \A q \in Process : proc'[q].pc = "cleanup" => proc'[q] = proc[q]
    BY DEF LeaseInv, ProcessesOK, ProcRecord, Goto
  <1> QED
    BY <1>1, <1>2, ProcessStepKeepsRest

\* Dropping a job without touching its row preserves the invariant.
LEMMA AbandonStep ==
  ASSUME LeaseInv, NEW p \in Process, Abandon(p), UNCHANGED <<rows, session, stopping, faults>>
  PROVE  LeaseInv' /\ KeepsOutcomes
  <1>1. ProcessesOK'
    BY AbandonKeepsProcesses DEF LeaseInv
  <1>2. \A q \in Process : proc'[q].pc = "cleanup" => proc'[q] = proc[q]
    BY DEF LeaseInv, ProcessesOK, ProcRecord, Abandon, Idle
  <1> QED
    BY <1>1, <1>2, ProcessStepKeepsRest

-----------------------------------------------------------------------------
(* One lemma per action of the rest of the repository *)

\* enqueueArchiveFile, startGrouping, startProcessing, reprocessGroup.
LEMMA EnqueueStep ==
  ASSUME LeaseInv, NEW js \in SUBSET Job, NEW s \in SessionStates, Enqueue(js, s)
  PROVE  LeaseInv' /\ KeepsOutcomes
  <1>1. ProcessesOK'
    BY DEF LeaseInv, ProcessesOK, Enqueue, Busy
  <1>2. RowsOK'
    BY QueuedRowIsGood DEF LeaseInv, RowsOK, GoodRow, Enqueue
  <1>3. RestOK'
    BY DEF LeaseInv, RestOK, Enqueue
  <1>4. KeepsOutcomes
    BY DEF KeepsOutcomes, Settled, Enqueue
  <1>5. CleanupAfterCommit'
    BY <1>4, CleanupKept DEF Enqueue
  <1>6. session' # "CANCELLED"
    BY DEF Enqueue, MovesTo, TerminalSessionStates
  <1> QED
    BY <1>1, <1>2, <1>3, <1>4, <1>5, <1>6 DEF LeaseInv, CancelledSessionIsQuiet

\* Session moves of other handlers.
LEMMA SessionMovesStep ==
  ASSUME LeaseInv, NEW s \in SessionStates, SessionMoves(s)
  PROVE  LeaseInv' /\ KeepsOutcomes
  BY DEF SessionMoves, MovesTo, TerminalSessionStates, LeaseInv, ProcessesOK, RowsOK, RestOK,
         CleanupAfterCommit, CancelledSessionIsQuiet, KeepsOutcomes, Busy

\* cancelSession.
LEMMA CancelSessionStep ==
  ASSUME LeaseInv, CancelSession
  PROVE  LeaseInv' /\ KeepsOutcomes
  <1>1. ProcessesOK'
    BY DEF LeaseInv, ProcessesOK, CancelSession, Busy
  <1>2. \A j \in Job : GoodRow(rows'[j]) /\ ~Active(rows'[j])
    BY CancelledRowIsGood DEF LeaseInv, RowsOK, GoodRow, CancelSession
  <1>3. RowsOK'
    BY <1>2 DEF RowsOK, GoodRow, CancelSession
  <1>4. RestOK'
    BY DEF LeaseInv, RestOK, CancelSession, SessionStates
  <1>5. KeepsOutcomes
    BY DEF KeepsOutcomes, CancelSession, CancelledRow, Active, Settled
  <1>6. CleanupAfterCommit'
    BY <1>5, CleanupKept DEF CancelSession
  <1> QED
    BY <1>1, <1>2, <1>3, <1>4, <1>5, <1>6 DEF LeaseInv, CancelledSessionIsQuiet

-----------------------------------------------------------------------------
(* One lemma per action of the worker loop that is not a Goto or Abandon *)

\* The claim mints a token that no busy process has.
LEMMA ClaimStep ==
  ASSUME LeaseInv, NEW p \in Process, NEW j \in Job, NEW t \in Token, Claim(p, j, t)
  PROVE  LeaseInv' /\ KeepsOutcomes
  <1>1. ProcessesOK'
    <2>1. \A q \in Process : proc[q].token # t
      BY DEF Claim, FreshTokens
    <2> QED
      BY <2>1 DEF LeaseInv, ProcessesOK, ProcRecord, Claim, Busy, Phases
  <1>2. RowsOK'
    <2>1. IdOf[p] \in WorkerId
      BY LeaseAssumption
    <2>2. GoodRow(ClaimedRow(rows[j], IdOf[p], t))
      BY <2>1, ClaimedRowIsGood DEF LeaseInv, RowsOK, GoodRow, Claim
    <2> QED
      BY <2>2, OneRowChanges DEF LeaseInv, Claim
  <1>3. RestOK'
    BY DEF LeaseInv, RestOK, Claim
  <1>4. KeepsOutcomes
    BY DEF KeepsOutcomes, Settled, Claim, Claimable, LeaseInv, RowsOK
  <1>5. CleanupAfterCommit'
    <2>1. \A q \in Process : proc'[q].pc = "cleanup" => proc'[q] = proc[q]
      BY DEF Claim, LeaseInv, ProcessesOK
    <2> QED
      BY <1>4, <2>1, CleanupKept
  <1>6. CancelledSessionIsQuiet'
    BY DEF LeaseInv, CancelledSessionIsQuiet, Claim, Claimable, Active
  <1> QED
    BY <1>1, <1>2, <1>3, <1>4, <1>5, <1>6 DEF LeaseInv

\* A heartbeat that finds the lease lost.
LEMMA LosingBeatStep ==
  ASSUME LeaseInv, NEW p \in Process, LosingBeat(p)
  PROVE  LeaseInv' /\ KeepsOutcomes
  <1>1. ProcessesOK'
    BY DEF LeaseInv, ProcessesOK, ProcRecord, LosingBeat, Busy
  <1>2. \A q \in Process : proc'[q].pc = "cleanup" => proc'[q] = proc[q]
    BY DEF LeaseInv, ProcessesOK, ProcRecord, LosingBeat
  <1> QED
    BY <1>1, <1>2, ProcessStepKeepsRest DEF LosingBeat

\* completeJob.
LEMMA CompleteJobStep ==
  ASSUME LeaseInv, NEW p \in Process, NEW s \in SessionStates, CompleteJob(p, s)
  PROVE  LeaseInv' /\ KeepsOutcomes
  <1>1. /\ proc[p].job \in Job
        /\ rows[proc[p].job].state = "RUNNING"
        /\ GoodRow(rows[proc[p].job])
    BY HolderRuns DEF CompleteJob
  <1>2. ProcessesOK'
    BY GotoKeepsProcesses DEF LeaseInv, CompleteJob, Busy, Phases
  <1>3. RowsOK'
    BY <1>1, CompletedRowIsGood, OneRowChanges DEF LeaseInv, CompleteJob
  <1>4. RestOK'
    BY DEF LeaseInv, RestOK, CompleteJob
  <1>5. KeepsOutcomes
    BY <1>1 DEF KeepsOutcomes, Settled, CompleteJob, LeaseInv, RowsOK
  <1>6. CleanupAfterCommit'
    <2>1. ASSUME NEW q \in Process, proc'[q].pc = "cleanup"
          PROVE  rows'[proc'[q].job].state = "COMPLETED"
      <3>1. CASE q = p
        BY <1>1, <3>1 DEF CompleteJob, Goto, CompletedRow, LeaseInv, ProcessesOK, ProcRecord,
              RowsOK, Rows
      <3>2. CASE q # p
        <4>1. proc'[q] = proc[q]
          BY <3>2 DEF CompleteJob, Goto, LeaseInv, ProcessesOK
        <4>2. proc[q].job \in Job /\ rows[proc[q].job].state = "COMPLETED"
          BY <2>1, <4>1 DEF LeaseInv, CleanupAfterCommit, ProcessesOK, Busy
        <4> QED
          BY <4>1, <4>2, <1>5 DEF KeepsOutcomes, Settled
      <3> QED
        BY <3>1, <3>2
    <2> QED
      BY <2>1 DEF CleanupAfterCommit
  <1>7. session' # "CANCELLED"
    BY DEF CompleteJob, MovesTo, TerminalSessionStates
  <1> QED
    BY <1>2, <1>3, <1>4, <1>5, <1>6, <1>7 DEF LeaseInv, CancelledSessionIsQuiet

\* failJob, requeueing or terminal.
LEMMA FailJobStep ==
  ASSUME LeaseInv, NEW p \in Process, FailJob(p)
  PROVE  LeaseInv' /\ KeepsOutcomes
  <1>1. /\ proc[p].job \in Job
        /\ rows[proc[p].job].state = "RUNNING"
        /\ GoodRow(rows[proc[p].job])
    BY HolderRuns DEF FailJob
  <1>2. ProcessesOK'
    BY AbandonKeepsProcesses DEF LeaseInv, FailJob
  <1>3. RowsOK'
    BY <1>1, FailedRowIsGood, OneRowChanges DEF LeaseInv, FailJob
  <1>4. session' \in SessionStates /\ session' # "CANCELLED"
    BY <1>1, RunningMeansNotCancelled
       DEF LeaseInv, RestOK, FailJob, TerminalFailureState, SessionStates
  <1>5. RestOK'
    BY <1>4 DEF LeaseInv, RestOK, FailJob
  <1>6. KeepsOutcomes
    BY <1>1 DEF KeepsOutcomes, Settled, FailJob, LeaseInv, RowsOK
  <1>7. CleanupAfterCommit'
    <2>1. \A q \in Process : proc'[q].pc = "cleanup" => proc'[q] = proc[q]
      BY DEF FailJob, Abandon, Idle, LeaseInv, ProcessesOK
    <2> QED
      BY <1>6, <2>1, CleanupKept
  <1> QED
    BY <1>2, <1>3, <1>4, <1>5, <1>6, <1>7 DEF LeaseInv, CancelledSessionIsQuiet

-----------------------------------------------------------------------------
(* Shutdown and the clock *)

\* Shutdown, restart and crash.
LEMMA ProcessLifecycleStep ==
  ASSUME LeaseInv, NEW p \in Process, RequestShutdown(p) \/ Restart(p) \/ Crash(p)
  PROVE  LeaseInv' /\ KeepsOutcomes
  <1>1. CASE RequestShutdown(p)
    BY <1>1, LeaseAssumption
       DEF RequestShutdown, LeaseInv, ProcessesOK, RowsOK, RestOK, CleanupAfterCommit,
           CancelledSessionIsQuiet, KeepsOutcomes, Busy
  <1>2. CASE Restart(p)
    BY <1>2
       DEF Restart, LeaseInv, ProcessesOK, RowsOK, RestOK, CleanupAfterCommit,
           CancelledSessionIsQuiet, KeepsOutcomes, Busy
  <1>3. CASE Crash(p)
    <2>1. ProcessesOK'
      BY <1>3, AbandonKeepsProcesses DEF LeaseInv, Crash
    <2>2. RowsOK' /\ RestOK' /\ CancelledSessionIsQuiet' /\ KeepsOutcomes
      BY <1>3, LeaseAssumption
         DEF Crash, LeaseInv, RowsOK, RestOK, CancelledSessionIsQuiet, KeepsOutcomes
    <2>3. \A q \in Process : proc'[q].pc = "cleanup" => proc'[q] = proc[q]
      BY <1>3 DEF Crash, Abandon, Idle, LeaseInv, ProcessesOK
    <2>4. CleanupAfterCommit'
      BY <2>2, <2>3, CleanupKept
    <2> QED
      BY <2>1, <2>2, <2>4 DEF LeaseInv
  <1> QED
    BY <1>1, <1>2, <1>3

\* Lease expiry, stalls and backoff.
LEMMA TimePassesStep ==
  ASSUME LeaseInv, NEW j \in Job, TimePasses(j)
  PROVE  LeaseInv' /\ KeepsOutcomes
  <1>1. /\ ~Settled(rows[j])
        /\ UNCHANGED <<proc, session, stopping>>
        /\ \/ rows' = [rows EXCEPT ![j].lease = "lapsed"]
           \/ rows' = [rows EXCEPT ![j].due = TRUE]
        /\ faults' \in 0..MaxFaults
    BY HolderRuns, LeaseAssumption
       DEF TimePasses, LeaseExpires, Stall, BackoffElapses, Settled, LeaseInv, RestOK
  <1>2. PICK row : /\ GoodRow(row)
                   /\ row.state = rows[j].state
                   /\ rows' = [rows EXCEPT ![j] = row]
    <2>1. GoodRow(rows[j])
      BY DEF LeaseInv, RowsOK, GoodRow
    <2> DEFINE lapsed == [rows[j] EXCEPT !.lease = "lapsed"]
               due    == [rows[j] EXCEPT !.due = TRUE]
    <2>2. /\ GoodRow(lapsed) /\ lapsed.state = rows[j].state
          /\ GoodRow(due) /\ due.state = rows[j].state
      BY <2>1, ClockKeepsRowsGood DEF GoodRow, Rows
    <2>3. rows' = [rows EXCEPT ![j] = lapsed] \/ rows' = [rows EXCEPT ![j] = due]
      BY <1>1
    <2> QED
      BY <2>2, <2>3
  <1>3. RowsOK'
    BY <1>2, OneRowChanges DEF LeaseInv
  <1>4. KeepsOutcomes
    BY <1>1, <1>2 DEF KeepsOutcomes, LeaseInv, RowsOK
  <1>5. CleanupAfterCommit'
    BY <1>1, <1>4, CleanupKept
  <1>6. ProcessesOK' /\ RestOK'
    BY <1>1 DEF LeaseInv, ProcessesOK, RestOK, Busy
  <1>7. CancelledSessionIsQuiet'
    BY <1>1, <1>2 DEF LeaseInv, CancelledSessionIsQuiet, Active, RowsOK
  <1> QED
    BY <1>3, <1>4, <1>5, <1>6, <1>7 DEF LeaseInv

-----------------------------------------------------------------------------

\* Every step of the worker loop after the claim.
LEMMA WorksStep ==
  ASSUME LeaseInv, NEW p \in Process, Works(p)
  PROVE  LeaseInv' /\ KeepsOutcomes
  <1> USE DEF Phases, Busy
  <1>1. CASE FirstBeat(p)
    BY <1>1, GotoStep, AbandonStep DEF FirstBeat
  <1>2. CASE LosingBeat(p)
    BY <1>2, LosingBeatStep
  <1>3. CASE DiscardOutcome(p)
    BY <1>3, AbandonStep DEF DiscardOutcome
  <1>4. CASE HandlerReturns(p)
    BY <1>4, GotoStep DEF HandlerReturns
  <1>5. CASE HandlerThrows(p)
    BY <1>5, GotoStep DEF HandlerThrows
  <1>6. CASE \E s \in SessionStates : CompleteJob(p, s)
    BY <1>6, CompleteJobStep
  <1>7. CASE CompletionConflicts(p)
    BY <1>7, GotoStep DEF CompletionConflicts
  <1>8. CASE CompletionBreaks(p)
    BY <1>8, GotoStep DEF CompletionBreaks
  <1>9. CASE ProbeLease(p)
    BY <1>9, GotoStep, AbandonStep DEF ProbeLease
  <1>10. CASE FailJob(p)
    BY <1>10, FailJobStep
  <1>11. CASE FailureConflicts(p)
    BY <1>11, AbandonStep DEF FailureConflicts
  <1>12. CASE AfterCommit(p)
    BY <1>12, AbandonStep DEF AfterCommit
  <1> QED
    BY <1>1, <1>2, <1>3, <1>4, <1>5, <1>6, <1>7, <1>8, <1>9, <1>10, <1>11, <1>12 DEF Works

\* Every step preserves the invariant and the outcomes of settled jobs.
LEMMA NextPreservesLeaseInv == LeaseInv /\ [Next]_vars => LeaseInv' /\ KeepsOutcomes
  <1> SUFFICES ASSUME LeaseInv, [Next]_vars PROVE LeaseInv' /\ KeepsOutcomes
    OBVIOUS
  <1>1. ASSUME NEW p \in Process, Claims(p) PROVE LeaseInv' /\ KeepsOutcomes
    BY <1>1, ClaimStep DEF Claims
  <1>2. ASSUME NEW p \in Process, Works(p) PROVE LeaseInv' /\ KeepsOutcomes
    BY <1>2, WorksStep
  <1>3. ASSUME NEW p \in Process, RequestShutdown(p) \/ Restart(p) \/ Crash(p)
        PROVE  LeaseInv' /\ KeepsOutcomes
    BY <1>3, ProcessLifecycleStep
  <1>4. ASSUME NEW j \in Job, TimePasses(j) PROVE LeaseInv' /\ KeepsOutcomes
    BY <1>4, TimePassesStep
  <1>5. ASSUME NEW s \in SessionStates,
               SessionMoves(s) \/ \E js \in SUBSET Job : Enqueue(js, s)
        PROVE  LeaseInv' /\ KeepsOutcomes
    BY <1>5, SessionMovesStep, EnqueueStep
  <1>6. CASE CancelSession
    BY <1>6, CancelSessionStep
  <1>7. CASE UNCHANGED vars
    BY <1>7 DEF vars, LeaseInv, ProcessesOK, RowsOK, RestOK, CleanupAfterCommit,
                CancelledSessionIsQuiet, KeepsOutcomes, Busy
  <1> QED
    BY <1>1, <1>2, <1>3, <1>4, <1>5, <1>6, <1>7 DEF Next

-----------------------------------------------------------------------------
(* The theorems *)

\* The inductive invariant of the queue holds in every reachable state.
THEOREM LeaseInvHolds == Spec => []LeaseInv
  BY InitEstablishesLeaseInv, NextPreservesLeaseInv, PTL DEF Spec

\* The invariant implies the safety invariants the runs check.
LEMMA LeaseInvImplies ==
  LeaseInv => TypeOK /\ ExclusiveLease /\ CleanupAfterCommit /\ RetryBudget
                     /\ CancelledSessionIsQuiet
  <1> SUFFICES ASSUME LeaseInv
               PROVE  TypeOK /\ ExclusiveLease /\ CleanupAfterCommit /\ RetryBudget
                             /\ CancelledSessionIsQuiet
    OBVIOUS
  <1>1. TypeOK
    BY DEF LeaseInv, TypeOK, ProcessesOK, ProcRecord, RowsOK, RestOK
  <1>2. ExclusiveLease
    BY DEF LeaseInv, ProcessesOK, ExclusiveLease, LeaseHeld, HeldBy
  <1>3. RetryBudget
    BY DEF LeaseInv, RowsOK, WithinBudget, RetryBudget
  <1> QED
    BY <1>1, <1>2, <1>3 DEF LeaseInv

\* Every reachable state of the job table and of its workers is well formed;
\* in particular no job records more than MaxRetries + 1 failures.
THEOREM TypeCorrect == Spec => []TypeOK
  BY LeaseInvHolds, LeaseInvImplies, PTL

\* No two worker processes hold the same job, whatever their configured ids:
\* the compare-and-set of heartbeatJob, completeJob and failJob is a lock.
THEOREM LeaseIsExclusive == Spec => []ExclusiveLease
  BY LeaseInvHolds, LeaseInvImplies, PTL

\* A worker only removes the staging entry of a job whose completion committed.
THEOREM CleanupFollowsCommit == Spec => []CleanupAfterCommit
  BY LeaseInvHolds, LeaseInvImplies, PTL

\* No interleaving of claims, reclaims and failures exceeds the retry budget.
THEOREM BudgetIsKept == Spec => []RetryBudget
  BY LeaseInvHolds, LeaseInvImplies, PTL

\* A cancelled session has no job that a worker could claim or complete.
THEOREM CancellationQuiets == Spec => []CancelledSessionIsQuiet
  BY LeaseInvHolds, LeaseInvImplies, PTL

\* Nothing a worker that lost its lease can do changes a settled job.
THEOREM OutcomesAreFinal == Spec => OutcomeIsFinal
  <1>1. LeaseInv /\ [Next]_vars =>
          [\A j \in Job : Settled(rows[j]) => rows'[j] = rows[j]]_vars
    BY NextPreservesLeaseInv DEF KeepsOutcomes
  <1> QED
    BY <1>1, LeaseInvHolds, PTL DEF Spec, OutcomeIsFinal

\* How a job leaves RUNNING: by cancellation or by a step of its holder.
SettledByHolder(j) ==
  rows[j].state = "RUNNING" /\ rows'[j].state # "RUNNING"
    => \/ session' = "CANCELLED"
       \/ \E p \in Process : LeaseHeld(p) /\ proc[p].job = j /\ proc'[p] # proc[p]

\* A step that takes a job out of RUNNING is one of its holder, or a cancellation.
LEMMA NextSettlesByHolder ==
  ASSUME LeaseInv, Next, NEW j \in Job
  PROVE  SettledByHolder(j)
  <1> USE DEF SettledByHolder
  <1>1. ASSUME NEW p \in Process, Claims(p) PROVE SettledByHolder(j)
    BY <1>1 DEF Claims, Claim, ClaimedRow, LeaseInv, RowsOK, Rows
  <1>2. ASSUME NEW p \in Process, NEW s \in SessionStates, CompleteJob(p, s)
        PROVE  SettledByHolder(j)
    <2>1. proc'[p] # proc[p]
      BY <1>2 DEF CompleteJob, Goto, LeaseInv, ProcessesOK, ProcRecord
    <2> QED
      BY <1>2, <2>1 DEF CompleteJob, LeaseInv, RowsOK
  <1>3. ASSUME NEW p \in Process, FailJob(p) PROVE SettledByHolder(j)
    <2>1. proc'[p] # proc[p]
      BY <1>3 DEF FailJob, Abandon, Idle, LeaseInv, ProcessesOK
    <2> QED
      BY <1>3, <2>1 DEF FailJob, LeaseInv, RowsOK
  <1>4. ASSUME NEW p \in Process, Works(p), ~FailJob(p),
               ~\E s \in SessionStates : CompleteJob(p, s)
        PROVE  SettledByHolder(j)
    BY <1>4 DEF Works, FirstBeat, LosingBeat, DiscardOutcome, HandlerReturns, HandlerThrows,
         CompletionConflicts, CompletionBreaks, ProbeLease, FailureConflicts, AfterCommit
  <1>5. ASSUME NEW p \in Process, RequestShutdown(p) \/ Restart(p) \/ Crash(p)
        PROVE  SettledByHolder(j)
    BY <1>5 DEF RequestShutdown, Restart, Crash
  <1>6. ASSUME NEW k \in Job, TimePasses(k) PROVE SettledByHolder(j)
    BY <1>6 DEF TimePasses, LeaseExpires, Stall, BackoffElapses, LeaseInv, RowsOK, Rows
  <1>7. ASSUME NEW s \in SessionStates,
               SessionMoves(s) \/ \E js \in SUBSET Job : Enqueue(js, s)
        PROVE  SettledByHolder(j)
    BY <1>7 DEF SessionMoves, Enqueue, QueuedRow, AbsentRow
  <1>8. CASE CancelSession
    BY <1>8 DEF CancelSession
  <1> QED
    BY <1>1, <1>2, <1>3, <1>4, <1>5, <1>6, <1>7, <1>8 DEF Next

\* Only the holder of the live lease completes, fails or requeues a job.
THEOREM HolderSettles == Spec => OnlyTheHolderSettles
  <1>1. LeaseInv /\ [Next]_vars =>
          [\A j \in Job :
             rows[j].state = "RUNNING" /\ rows'[j].state # "RUNNING"
               => \/ session' = "CANCELLED"
                  \/ \E p \in Process :
                       /\ LeaseHeld(p)
                       /\ proc[p].job = j
                       /\ proc'[p] # proc[p]]_vars
    BY NextSettlesByHolder DEF SettledByHolder
  <1> QED
    BY <1>1, LeaseInvHolds, PTL DEF Spec, OnlyTheHolderSettles

-----------------------------------------------------------------------------
(***************************************************************************)
(* The lease queue implements exclusive jobs: every step of the job table  *)
(* and its workers is a step of ExclusiveJobs or leaves it as it was.  The *)
(* heart of it is that the owner of a job is well defined (at most one     *)
(* process passes the compare-and-set) and that a claim finds the job      *)
(* without an owner, because a lapsed lease fails the compare-and-set of   *)
(* whoever still believes in it.                                           *)
(***************************************************************************)

Holds(p, j) == LeaseHeld(p) /\ proc[p].job = j

\* What Owner means, given that the lease is exclusive.
OwnerIsHolder ==
  \A j \in Job :
    /\ Owner(j) \in Process \cup {Nobody}
    /\ \A p \in Process : Owner(j) = p <=> Holds(p, j)

\* The owner of a job is the one process that holds it, or nobody.
LEMMA LeaseInvGivesOwner == LeaseInv => OwnerIsHolder
  <1> SUFFICES ASSUME LeaseInv, NEW j \in Job
               PROVE  /\ Owner(j) \in Process \cup {Nobody}
                      /\ \A p \in Process : Owner(j) = p <=> Holds(p, j)
    BY DEF OwnerIsHolder
  <1>1. ExclusiveLease
    BY LeaseInvImplies
  <1>2. CASE \E p \in Process : Holds(p, j)
    <2>1. PICK p \in Process : Holds(p, j)
      BY <1>2
    <2>2. \A q \in Process : Holds(q, j) <=> q = p
      BY <1>1, <2>1 DEF ExclusiveLease, Holds
    <2>3. Owner(j) = p
      BY <2>1, <2>2 DEF Owner, Holds
    <2> QED
      BY <2>2, <2>3
  <1>3. CASE ~\E p \in Process : Holds(p, j)
    BY <1>3, LeaseAssumption DEF Owner, Holds
  <1> QED
    BY <1>2, <1>3

\* The same of the state after a step.
LEMMA OwnerAfterStep == LeaseInv' => OwnerIsHolder'
  BY LeaseInvGivesOwner, PTL

-----------------------------------------------------------------------------
(* The shapes a step can have, seen from the abstract specification *)

SameStatus == \A j \in Job : JobStatus(rows'[j]) = JobStatus(rows[j])

SameHolders == \A p \in Process, j \in Job : Holds(p, j)' <=> Holds(p, j)

\* p lets go of j, and nothing else changes hands.
OnlyReleases(p, j) ==
  /\ Holds(p, j)
  /\ \A q \in Process, k \in Job : Holds(q, k)' <=> (Holds(q, k) /\ ~(q = p /\ k = j))

AbstractStep == [Exclusive!ANext]_(Exclusive!avars)

\* A step that changes no status and no holder is a stutter.
LEMMA StutterStep ==
  ASSUME OwnerIsHolder, OwnerIsHolder', SameStatus, SameHolders
  PROVE  AbstractStep
  <1>1. \A j \in Job : Owner(j)' = Owner(j)
    BY DEF OwnerIsHolder, SameHolders
  <1> QED
    BY <1>1 DEF AbstractStep, Exclusive!avars, SameStatus

\* A step in which one holder lets go is a Release.
LEMMA ReleaseStep ==
  ASSUME OwnerIsHolder, OwnerIsHolder', SameStatus,
         NEW p \in Process, NEW j \in Job, OnlyReleases(p, j)
  PROVE  AbstractStep
  <1>1. Owner(j) = p /\ Owner(j)' = Nobody
    BY LeaseAssumption DEF OwnerIsHolder, OnlyReleases
  <1>2. \A k \in Job \ {j} : Owner(k)' = Owner(k)
    BY DEF OwnerIsHolder, OnlyReleases
  <1>3. Exclusive!Release(p, j)
    BY <1>1, <1>2 DEF Exclusive!Release, SameStatus
  <1> QED
    BY <1>3 DEF AbstractStep, Exclusive!ANext

\* p settles j with this outcome and so no longer owns it.
LEMMA SettleStep ==
  ASSUME OwnerIsHolder, OwnerIsHolder',
         NEW p \in Process, NEW j \in Job, OnlyReleases(p, j),
         NEW outcome \in {"done", "dead"},
         JobStatus(rows[j]) = "open", JobStatus(rows'[j]) = outcome,
         \A k \in Job \ {j} : JobStatus(rows'[k]) = JobStatus(rows[k])
  PROVE  AbstractStep
  <1>1. Owner(j) = p /\ Owner(j)' = Nobody
    BY LeaseAssumption DEF OwnerIsHolder, OnlyReleases
  <1>2. \A k \in Job \ {j} : Owner(k)' = Owner(k)
    BY DEF OwnerIsHolder, OnlyReleases
  <1>3. Exclusive!Settle(p, j, outcome)
    BY <1>1, <1>2 DEF Exclusive!Settle
  <1> QED
    BY <1>3 DEF AbstractStep, Exclusive!ANext

-----------------------------------------------------------------------------
(* One lemma per kind of step *)

\* A live lease is stored in a RUNNING row, and an open one at that.
LEMMA HeldJobIsOpen ==
  ASSUME LeaseInv, NEW p \in Process, NEW j \in Job, Holds(p, j)
  PROVE  rows[j].state = "RUNNING" /\ JobStatus(rows[j]) = "open"
  BY DEF Holds, LeaseHeld, HeldBy, JobStatus, Active

\* A phase change is a stutter.
LEMMA GotoMaps ==
  ASSUME LeaseInv, OwnerIsHolder, OwnerIsHolder', UNCHANGED rows,
         NEW p \in Process, Busy(p), NEW pc \in Phases, pc # "idle", Goto(p, pc)
  PROVE  AbstractStep
  <1>1. SameHolders
    BY DEF SameHolders, Holds, LeaseHeld, Busy, Goto, LeaseInv, ProcessesOK, ProcRecord
  <1> QED
    BY <1>1, StutterStep DEF SameStatus

\* Dropping a job is a Release if the lease was held, else a stutter.
LEMMA AbandonMaps ==
  ASSUME LeaseInv, OwnerIsHolder, OwnerIsHolder', UNCHANGED rows,
         NEW p \in Process, Abandon(p)
  PROVE  AbstractStep
  <1>1. \A q \in Process, k \in Job : Holds(q, k)' <=> (Holds(q, k) /\ q # p)
    BY DEF Holds, LeaseHeld, Busy, Abandon, Idle, LeaseInv, ProcessesOK
  <1>2. SameStatus
    BY DEF SameStatus
  <1>3. CASE LeaseHeld(p)
    <2>1. proc[p].job \in Job
      BY <1>3, HolderRuns
    <2>2. OnlyReleases(p, proc[p].job)
      BY <1>1, <1>3 DEF OnlyReleases, Holds
    <2> QED
      BY <1>2, <2>1, <2>2, ReleaseStep
  <1>4. CASE ~LeaseHeld(p)
    BY <1>1, <1>2, <1>4, StutterStep DEF SameHolders, Holds
  <1> QED
    BY <1>3, <1>4

\* A claim is a Take: a claimable job has no owner.
LEMMA ClaimMaps ==
  ASSUME LeaseInv, OwnerIsHolder, OwnerIsHolder',
         NEW p \in Process, NEW j \in Job, NEW t \in Token, Claim(p, j, t)
  PROVE  AbstractStep
  <1>1. /\ \A q \in Process : ~Holds(q, j)
        /\ \A k \in Job : ~Holds(p, k)
    BY DEF Claim, Claimable, Holds, LeaseHeld, HeldBy
  <1>2. rows'[j].token = t /\ rows'[j].state = "RUNNING"
        /\ rows'[j].worker = IdOf[p] /\ rows'[j].lease = "live"
    BY DEF Claim, ClaimedRow, LeaseInv, RowsOK, Rows
  <1>3. proc'[p] = [pc |-> "claimed", job |-> j, token |-> t, lost |-> FALSE]
    BY DEF Claim, LeaseInv, ProcessesOK
  <1>4. \A q \in Process \ {p} : proc'[q] = proc[q] /\ proc[q].token # t
    BY DEF Claim, FreshTokens, LeaseInv, ProcessesOK
  <1>5. \A k \in Job \ {j} : rows'[k] = rows[k]
    BY DEF Claim, LeaseInv, RowsOK
  <1>6. Holds(p, j)' /\ \A k \in Job \ {j} : ~Holds(p, k)'
    BY <1>2, <1>3 DEF Holds, LeaseHeld, HeldBy, Busy
  <1>7. \A q \in Process \ {p} : ~Holds(q, j)'
    BY <1>2, <1>4 DEF Holds, LeaseHeld, HeldBy
  <1>8. \A q \in Process \ {p}, k \in Job \ {j} : Holds(q, k)' <=> Holds(q, k)
    BY <1>4, <1>5 DEF Holds, LeaseHeld, HeldBy, Busy
  <1>9. Owner(j) = Nobody /\ Owner(j)' = p
    BY <1>1, <1>6, LeaseAssumption DEF OwnerIsHolder
  <1>10. \A k \in Job \ {j} : Owner(k)' = Owner(k)
    BY <1>1, <1>6, <1>8, LeaseAssumption DEF OwnerIsHolder
  <1>11. JobStatus(rows[j]) = "open" /\ JobStatus(rows'[j]) = "open"
    BY <1>2 DEF Claim, Claimable, JobStatus, Active
  <1>12. Exclusive!Take(p, j)
    BY <1>5, <1>9, <1>10, <1>11 DEF Exclusive!Take
  <1> QED
    BY <1>12 DEF AbstractStep, Exclusive!ANext

\* A completion is a Settle with outcome done.
LEMMA CompleteJobMaps ==
  ASSUME LeaseInv, OwnerIsHolder, OwnerIsHolder',
         NEW p \in Process, NEW s \in SessionStates, CompleteJob(p, s)
  PROVE  AbstractStep
  <1>1. PICK j \in Job : /\ j = proc[p].job
                        /\ Holds(p, j)
                        /\ JobStatus(rows[j]) = "open"
    BY HolderRuns, HeldJobIsOpen DEF CompleteJob, Holds
  <1>2. rows'[j].state = "COMPLETED" /\ \A k \in Job \ {j} : rows'[k] = rows[k]
    BY <1>1 DEF CompleteJob, CompletedRow, LeaseInv, RowsOK, Rows
  <1>3. JobStatus(rows'[j]) = "done"
    BY <1>2 DEF JobStatus, Active
  <1>4. OnlyReleases(p, j)
    <2>1. \A q \in Process : ~Holds(q, j)'
      BY <1>2 DEF Holds, LeaseHeld, HeldBy
    <2>2. \A q \in Process : (Holds(q, j) => q = p)
      BY <1>1, LeaseInvImplies DEF ExclusiveLease, Holds
    <2>3. \A q \in Process, k \in Job \ {j} : Holds(q, k)' <=> Holds(q, k)
      BY <1>1, <1>2 DEF CompleteJob, Goto, Holds, LeaseHeld, HeldBy, Busy, LeaseInv, ProcessesOK,
            ProcRecord
    <2> QED
      BY <1>1, <2>1, <2>2, <2>3 DEF OnlyReleases
  <1> QED
    BY <1>1, <1>2, <1>3, <1>4, SettleStep

\* A failure is a Settle with outcome dead, or a Release.
LEMMA FailJobMaps ==
  ASSUME LeaseInv, OwnerIsHolder, OwnerIsHolder', NEW p \in Process, FailJob(p)
  PROVE  AbstractStep
  <1>1. PICK j \in Job : /\ j = proc[p].job
                        /\ Holds(p, j)
                        /\ JobStatus(rows[j]) = "open"
    BY HolderRuns, HeldJobIsOpen DEF FailJob, Holds
  <1>2. /\ rows'[j].state = IF LastAttempt(rows[j]) THEN "FAILED" ELSE "QUEUED"
        /\ \A k \in Job \ {j} : rows'[k] = rows[k]
    BY <1>1 DEF FailJob, FailedRow, LeaseInv, RowsOK
  <1>3. OnlyReleases(p, j)
    <2>1. \A q \in Process : ~Holds(q, j)'
      BY <1>2 DEF Holds, LeaseHeld, HeldBy
    <2>2. \A q \in Process : (Holds(q, j) => q = p)
      BY <1>1, LeaseInvImplies DEF ExclusiveLease, Holds
    <2>3. \A q \in Process, k \in Job \ {j} : Holds(q, k)' <=> Holds(q, k)
      BY <1>1, <1>2 DEF FailJob, Abandon, Idle, Holds, LeaseHeld, HeldBy, Busy, LeaseInv, ProcessesOK
    <2> QED
      BY <1>1, <2>1, <2>2, <2>3 DEF OnlyReleases
  <1>4. CASE LastAttempt(rows[j])
    <2>1. JobStatus(rows'[j]) = "dead"
      BY <1>2, <1>4 DEF JobStatus, Active
    <2> QED
      BY <1>1, <1>2, <1>3, <2>1, SettleStep
  <1>5. CASE ~LastAttempt(rows[j])
    <2>1. SameStatus
      BY <1>1, <1>2, <1>5 DEF SameStatus, JobStatus, Active
    <2> QED
      BY <1>1, <1>3, <2>1, ReleaseStep
  <1> QED
    BY <1>4, <1>5

\* Every step of the worker loop after the claim.
LEMMA WorksMaps ==
  ASSUME LeaseInv, OwnerIsHolder, OwnerIsHolder', NEW p \in Process, Works(p)
  PROVE  AbstractStep
  <1> USE DEF Phases
  <1>1. CASE FirstBeat(p)
    BY <1>1, GotoMaps, AbandonMaps DEF FirstBeat, Busy
  <1>2. CASE LosingBeat(p)
    <2>1. SameHolders
      BY <1>2 DEF LosingBeat, SameHolders, Holds, LeaseHeld, Busy, LeaseInv, ProcessesOK,
            ProcRecord
    <2> QED
      BY <1>2, <2>1, StutterStep DEF LosingBeat, SameStatus
  <1>3. CASE DiscardOutcome(p)
    BY <1>3, AbandonMaps DEF DiscardOutcome
  <1>4. CASE HandlerReturns(p)
    BY <1>4, GotoMaps DEF HandlerReturns, Busy
  <1>5. CASE HandlerThrows(p)
    BY <1>5, GotoMaps DEF HandlerThrows, Busy
  <1>6. CASE \E s \in SessionStates : CompleteJob(p, s)
    BY <1>6, CompleteJobMaps
  <1>7. CASE CompletionConflicts(p)
    BY <1>7, GotoMaps DEF CompletionConflicts, Busy
  <1>8. CASE CompletionBreaks(p)
    BY <1>8, GotoMaps DEF CompletionBreaks, Busy
  <1>9. CASE ProbeLease(p)
    BY <1>9, GotoMaps, AbandonMaps DEF ProbeLease, Busy
  <1>10. CASE FailJob(p)
    BY <1>10, FailJobMaps
  <1>11. CASE FailureConflicts(p)
    BY <1>11, AbandonMaps DEF FailureConflicts
  <1>12. CASE AfterCommit(p)
    BY <1>12, AbandonMaps DEF AfterCommit
  <1> QED
    BY <1>1, <1>2, <1>3, <1>4, <1>5, <1>6, <1>7, <1>8, <1>9, <1>10, <1>11, <1>12 DEF Works

\* Shutdown, restart and crash.
LEMMA LifecycleMaps ==
  ASSUME LeaseInv, OwnerIsHolder, OwnerIsHolder', NEW p \in Process,
         RequestShutdown(p) \/ Restart(p) \/ Crash(p)
  PROVE  AbstractStep
  <1>1. CASE Crash(p)
    BY <1>1, AbandonMaps DEF Crash
  <1>2. CASE RequestShutdown(p) \/ Restart(p)
    <2>1. UNCHANGED <<rows, proc>>
      BY <1>2 DEF RequestShutdown, Restart
    <2>2. SameStatus /\ SameHolders
      BY <2>1 DEF SameStatus, SameHolders, Holds, LeaseHeld, Busy
    <2> QED
      BY <2>2, StutterStep
  <1> QED
    BY <1>1, <1>2

\* A lease that lapses under its holder is a Release.
LEMMA TimePassesMaps ==
  ASSUME LeaseInv, OwnerIsHolder, OwnerIsHolder', NEW j \in Job, TimePasses(j)
  PROVE  AbstractStep
  <1>1. rows' = [rows EXCEPT ![j].lease = "lapsed"] \/ rows' = [rows EXCEPT ![j].due = TRUE]
    BY DEF TimePasses, LeaseExpires, Stall, BackoffElapses
  <1>2. \A k \in Job : rows'[k].state = rows[k].state
    BY <1>1 DEF LeaseInv, RowsOK, Rows
  <1>3. SameStatus
    BY <1>2 DEF SameStatus, JobStatus, Active
  <1>4. UNCHANGED proc
    BY DEF TimePasses, LeaseExpires, Stall, BackoffElapses
  <1>5. CASE Stall(j)
    <2>1. PICK p \in Process : Holds(p, j)
      BY <1>5 DEF Stall, Holds
    <2>2. rows'[j].lease = "lapsed" /\ \A k \in Job \ {j} : rows'[k] = rows[k]
      BY <1>5 DEF Stall, LeaseInv, RowsOK, Rows
    <2>3. \A q \in Process : ~Holds(q, j)'
      BY <2>2 DEF Holds, LeaseHeld, HeldBy
    <2>4. \A q \in Process : Holds(q, j) => q = p
      BY <2>1, LeaseInvImplies DEF ExclusiveLease, Holds
    <2>5. \A q \in Process, k \in Job \ {j} : Holds(q, k)' <=> Holds(q, k)
      BY <1>4, <2>2 DEF Holds, LeaseHeld, HeldBy, Busy
    <2> QED
      BY <1>3, <2>1, <2>3, <2>4, <2>5, ReleaseStep DEF OnlyReleases
  <1>6. CASE LeaseExpires(j)
    <2>1. \A q \in Process : ~Holds(q, j) /\ ~Holds(q, j)'
      BY <1>6 DEF LeaseExpires, Holds, LeaseHeld, HeldBy, LeaseInv, RowsOK, Rows
    <2>2. \A k \in Job \ {j} : rows'[k] = rows[k]
      BY <1>6 DEF LeaseExpires, LeaseInv, RowsOK
    <2>3. SameHolders
      BY <1>4, <2>1, <2>2 DEF SameHolders, Holds, LeaseHeld, HeldBy, Busy
    <2> QED
      BY <1>3, <2>3, StutterStep
  <1>7. CASE BackoffElapses(j)
    <2>1. /\ rows'[j] = [rows[j] EXCEPT !.due = TRUE]
          /\ \A k \in Job \ {j} : rows'[k] = rows[k]
      BY <1>7 DEF BackoffElapses, LeaseInv, RowsOK
    <2>2. \A q \in Process : ~Holds(q, j) /\ ~Holds(q, j)'
      BY <1>2, <1>7 DEF BackoffElapses, Holds, LeaseHeld, HeldBy
    <2>3. SameHolders
      BY <1>4, <2>1, <2>2 DEF SameHolders, Holds, LeaseHeld, HeldBy, Busy
    <2> QED
      BY <1>3, <2>3, StutterStep
  <1> QED
    BY <1>5, <1>6, <1>7 DEF TimePasses

\* Queueing is a Create.
LEMMA EnqueueMaps ==
  ASSUME LeaseInv, OwnerIsHolder, OwnerIsHolder',
         NEW js \in SUBSET Job, NEW s \in SessionStates, Enqueue(js, s)
  PROVE  AbstractStep
  <1>1. \A j \in Job : IF j \in js THEN rows[j].state = "ABSENT" /\ rows'[j] = QueuedRow
                      ELSE rows'[j] = rows[j]
    BY DEF Enqueue
  <1>2. SameHolders
    BY <1>1 DEF Enqueue, SameHolders, Holds, LeaseHeld, HeldBy, Busy, QueuedRow, AbsentRow
  <1>3. \A j \in Job : Owner(j)' = Owner(j)
    BY <1>2 DEF OwnerIsHolder, SameHolders
  <1>4. \A j \in js : JobStatus(rows[j]) = "absent" /\ JobStatus(rows'[j]) = "open"
    BY <1>1 DEF JobStatus, Active, QueuedRow, AbsentRow
  <1>5. Exclusive!Create(js)
    BY <1>1, <1>3, <1>4 DEF Exclusive!Create
  <1> QED
    BY <1>5 DEF AbstractStep, Exclusive!ANext

\* Cancelling is a Withdraw.
LEMMA CancelSessionMaps ==
  ASSUME LeaseInv, OwnerIsHolder, OwnerIsHolder', CancelSession
  PROVE  AbstractStep
  <1>1. \A j \in Job : rows'[j] = CancelledRow(rows[j]) /\ rows[j] \in Rows
    BY DEF CancelSession, LeaseInv, RowsOK
  <1>2. \A j \in Job : rows'[j].state = IF Active(rows[j]) THEN "FAILED" ELSE rows[j].state
    BY <1>1 DEF CancelledRow, Rows
  <1>3. \A p \in Process, j \in Job : ~Holds(p, j)'
    BY <1>2 DEF Holds, LeaseHeld, HeldBy, Active
  <1>4. \A j \in Job : Owner(j)' = Nobody
    BY <1>3 DEF OwnerIsHolder
  <1>5. \A j \in Job :
          JobStatus(rows'[j]) = IF JobStatus(rows[j]) = "open" THEN "dead" ELSE JobStatus(rows[j])
    BY <1>1, <1>2 DEF JobStatus, Active, Rows
  <1>6. Exclusive!Withdraw
    BY <1>4, <1>5 DEF Exclusive!Withdraw
  <1> QED
    BY <1>6 DEF AbstractStep, Exclusive!ANext

\* Every step of the queue is a step or a stutter of exclusive jobs.
LEMMA NextMaps == LeaseInv /\ LeaseInv' /\ [Next]_vars => AbstractStep
  <1> SUFFICES ASSUME LeaseInv, LeaseInv', [Next]_vars PROVE AbstractStep
    OBVIOUS
  <1>0. OwnerIsHolder /\ OwnerIsHolder'
    BY LeaseInvGivesOwner, OwnerAfterStep
  <1>1. ASSUME NEW p \in Process, Claims(p) PROVE AbstractStep
    BY <1>0, <1>1, ClaimMaps DEF Claims
  <1>2. ASSUME NEW p \in Process, Works(p) PROVE AbstractStep
    BY <1>0, <1>2, WorksMaps
  <1>3. ASSUME NEW p \in Process, RequestShutdown(p) \/ Restart(p) \/ Crash(p)
        PROVE  AbstractStep
    BY <1>0, <1>3, LifecycleMaps
  <1>4. ASSUME NEW j \in Job, TimePasses(j) PROVE AbstractStep
    BY <1>0, <1>4, TimePassesMaps
  <1>5. ASSUME NEW s \in SessionStates, NEW js \in SUBSET Job, Enqueue(js, s)
        PROVE  AbstractStep
    BY <1>0, <1>5, EnqueueMaps
  <1>6. CASE CancelSession
    BY <1>0, <1>6, CancelSessionMaps
  <1>7. ASSUME UNCHANGED <<rows, proc>> PROVE AbstractStep
    <2>1. SameStatus /\ SameHolders
      BY <1>7 DEF SameStatus, SameHolders, Holds, LeaseHeld, Busy
    <2> QED
      BY <1>0, <2>1, StutterStep
  <1>8. ASSUME NEW s \in SessionStates, SessionMoves(s) PROVE AbstractStep
    BY <1>7, <1>8 DEF SessionMoves
  <1>9. CASE UNCHANGED vars
    BY <1>7, <1>9 DEF vars
  <1> QED
    BY <1>1, <1>2, <1>3, <1>4, <1>5, <1>6, <1>8, <1>9 DEF Next

\* Initial states map to initial states.
LEMMA InitMaps == Init => Exclusive!AInit
  <1> SUFFICES ASSUME Init PROVE Exclusive!AInit
    OBVIOUS
  <1>1. \A j \in Job : JobStatus(rows[j]) = "absent"
    BY DEF Init, AbsentRow, JobStatus, Active
  <1>2. \A j \in Job : Owner(j) = Nobody
    BY DEF Init, Idle, Owner, LeaseHeld, Busy
  <1> QED
    BY <1>1, <1>2 DEF Exclusive!AInit

\* The lease queue implements exclusive jobs, for any number of workers: a job
\* is worked on by one process at a time, only that process can finish it or
\* give it up, and what is done or dead never changes.
THEOREM QueueImplementsExclusiveJobs == Spec => ExclusiveSpec
  <1>1. LeaseInv /\ LeaseInv' /\ [Next]_vars => [Exclusive!ANext]_(Exclusive!avars)
    BY NextMaps DEF AbstractStep
  <1> QED
    BY <1>1, InitMaps, LeaseInvHolds, PTL DEF Spec, ExclusiveSpec, Exclusive!ASpec

=============================================================================
