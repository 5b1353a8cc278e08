# Mystcrag in TLA+

Mystcrag is a design platform for crystal bracelets. This directory holds TLA+
specifications of the parts of it where several actors change shared state, the
TLC configurations that check them on small instances, and TLAPS proofs.

Most of them are about the **bead asset import**: an operator registers a folder of
photographs, the browser uploads them, a worker archives, groups and processes
them, the operator reviews and publishes the results as catalogue products. It is
the part of the repository with leases, retries, crashes and cancellation. Beside it
stand the **designs**, from the optimistic editor in the browser to the orders that
reserve stock for them, the **oracle and tarot sessions** that recommend designs, and
the **knowledge base** from ingestion to publication.

Paths below are relative to the repository root. Abbreviations:

| short | file |
|---|---|
| repository | `packages/database/src/repositories/asset-import.repository.ts` |
| runtime | `apps/asset-worker/src/runtime.ts` |
| handlers | `apps/asset-worker/src/jobs.ts` |
| service | `apps/backend/src/modules/bead-asset-import/bead-asset-import.service.ts` |
| contract | `packages/design-contract/src/schemas/bead-asset-import-api.schema.ts` |
| upload queue | `apps/frontend/src/features/admin-bead-import/upload-queue.ts` |
| lifecycle, workflow state | `session-lifecycle.ts`, `workflow-state.ts` in the same directory |
| editor | `apps/frontend/src/features/design/components/diy-editor.tsx` and `model/optimistic-design.ts` |
| design service | `apps/backend/src/modules/design/design-api.service.ts` |
| knowledge repository | `packages/database/src/repositories/knowledge.repository.ts` |

## 1. Inventory

### The import

| component | state | operations | what must hold |
|---|---|---|---|
| job queue (repository) and worker (runtime) | `asset_processing_jobs`; what each worker remembers: phase, lease token, whether the lease was lost | `claimNextJob`, `heartbeatJob`, `completeJob`, `failJob`, `cancelSession`; shutdown, restart | one holder per job, outcomes are final, retries are bounded, nothing survives a cancellation, no job is stranded |
| archive import (repository, service, handlers, storage) | `asset_source_files`, counters and checkpoint of the session, staging entries, archived originals, uploads in flight | `registerManifest`, `uploadFile` (`resolveUploadTarget`, `enqueueArchiveFile`, `failUploadReservation`), `handleArchiveFile`, `recordUploadedFile`, `startGrouping`, grouping completion, `cancelSession` | counters agree with rows, archived files have their bytes, staging outlives its job, checkpoints are earned, uploads resolve |
| group review (repository, handlers) | `bead_image_groups`, `processed_assets`, group membership of files, publications, processed files on disk | `updateGroup`, `saveGroupDraft`, `startProcessing`, `reprocessGroup`, PROCESS_GROUP completion and failure, `reviewProcessedAsset`, `selectProcessedVersion`, `publishGroup` | versions match members, one current version, offered sessions are settled, published products resolve for ever |
| upload queue (browser) | rows, phase, count of PUTs in flight, the promise a run waits on | `start`, `retryRegistered`, `retry`, `cancel`, replies | at most three PUTs, runs settle, cancelled runs stay quiet |

They meet in the database. The browser calls the backend over HTTP; the backend
and the workers call the repository, each call one PostgreSQL transaction; the
workers also read and write the file store. Nothing but the job table tells a
worker about the backend, and nothing but the lease tells workers about each other.

What makes it hard: a worker may lose its lease between any two of its calls; two
processes may be configured with the same worker id; a committed transaction may
look like a failure to its caller; staging files and rows are changed by separate
steps with crashes between them; `registerManifest` is the one writer that takes no
lock; the session state is derived from groups by several handlers; the browser
reuses one queue object for overlapping runs.

### Designs, sessions and knowledge

| component | state | operations | what must hold |
|---|---|---|---|
| import console state (browser) | what of the session is shown, forms with the revision they were typed against, stale marks, the conflict block, reads, the poll timer | the lifecycle's `run`, `schedule`, `refresh`, `stop`; edits, resets, saves and group mutations of the loaders with their answers; conflict acknowledgement | no save overwrites what its form was not based on; what an upload changed is shown in the end |
| design studio (browser) | confirmed design, pending edits, undo and redo, recoverable and discarded edits, the record in `sessionStorage` | edit, undo, redo, the synchronizing effect, `settleEdit`, retry, `resolveConflict`, reload and `restoreRecoveredEdits`, save, order | no edit disappears unannounced, edits reach the server in the order they were made |
| designs and revisions (service, `design.repository.ts`) | `designs`, `design_revisions` | create, clone, `createDiyFirstBead`, update, save, delete | a request key makes one design; revisions are counted and stored together |
| orders and inventory (`order.repository.ts`) | `orders`, `inventory_snapshots` | `createOrderFromDesign` | one order per revision; what is reserved exists and belongs to an order |
| oracle and tarot sessions (services and repositories) | `oracle_sessions`, `tarot_sessions` with their links to designs | create, select, reveal, recommendations, save | an operation takes effect once, accepted steps stand, answers agree with the session |
| knowledge base (knowledge repository, `review-service.ts`, ingestion) | `knowledge_rules`, `knowledge_versions` | `insertRule`, `corroborateRule`, the review pipeline, `transitionRule`, `mergeCorroboratingRules`, `updateRuleReview`, `importFixtureCorpus`, `publishKnowledgeVersion` | production is stable until a human supersedes, merging loses no fact, one version is current |

The design service saves the designs that sessions recommend, the studio edits them
against their revision, and orders name a revision of them; each session links
designs that any owner may delete. What makes these hard: transactions run at READ
COMMITTED and take no locks, so a read of one statement may be stale in the next;
only unique keys and conditional updates decide races, and the loser has to find out
whether it was its own earlier attempt that won; the knowledge repository writes
statuses back without a condition; the browser shows what it has not yet been
granted and survives reloads, lost answers and other devices.

### Components that are not modelled

| component | why |
|---|---|
| commerce showroom | an approval workflow over an in-memory repository; left for `ShowroomApprovals` (section 5) |
| identity and tokens | row lookups and cryptography; the cache of `jwks-key-source.ts` is the only state, left for `JwksKeySource` |
| console transport and views | request building, form validation and rendering keep no state of their own |
| asset pipeline algorithms | image processing and heuristics over pixels; the store is modelled as far as the import uses it |
| design and rule engines (`design-engine`, `bracelet-engine`, `tarot-engine`, `oracle-engine`) | pure functions: candidates for operators checked over bounded inputs, after the stateful parts |
| 3D rendering and UI kit | no state that a property could be about |
| AI agent and MCP server | stateless orchestration of model calls, read-only projections |

## 2. Modules

```
AssetImportContract      states, transition tables, checkpoints (constant level)
AssetJobRows             one job row and each statement on it (constant level)
  AssetJobLease          the job table and its workers
    ExclusiveJobs        what the queue promises (abstract)
    AssetJobLeaseProofs  and that AssetJobLease implements ExclusiveJobs
    ArchiveImport        manifest to groups, over the queue
      ArchiveImportProofs
GroupReview              groups to products, over what ExclusiveJobs promises
  GroupReviewProofs
UploadQueue              the upload queue in the browser
ImportConsole            the session page in the browser
  ImportConsoleProofs    of both, which the page shows together
StudioEditor             the optimistic editor in the browser
  StudioEditorProofs
KnowledgeReview          rules from ingestion to publication
  KnowledgeReviewProofs
IdempotentCreation       what a request key promises (abstract)
  DesignOrders           designs, orders and stock
    DesignOrdersProofs
  GuidedSessions         oracle and tarot sessions
    GuidedSessionsProofs
MC...                    TLC instances
```

**AssetJobLease.** One action per repository call and per step of the worker loop.
A row keeps of its timestamps what the SQL compares: whether `lease_until` is null,
ahead or behind, and whether `next_attempt_at` is due. `proc` is what a worker knows:
its phase (`claimed` before the first heartbeat, `running` in the handler,
`completing`, `probing` the lease after a conflict, `failing`, `cleanup` in
`afterCommit`), its job and its token. The rest of the repository appears as
`Enqueue` and `SessionMoves`, which may put the session into any of `OtherStates`.
A heartbeat that reports the lease held changes nothing that the model
distinguishes, so there is no action for it. An unreachable database, the exit past
the shutdown grace and a reply that never comes all abandon the work: `Crash`.

**ArchiveImport** extends the queue. `registerManifest` is three actions because it
reads, counts and writes without a lock; every other repository call is one
transaction under the session's row lock and one action. What a manifest inserts is
what it found missing (`adds`); a file that another one inserted meanwhile runs into
the unique index on session and client file id (`schema.prisma:769`), and the whole
manifest fails. `uploadFile` is a sequence
of calls with its `catch` block as actions of its own (`RemoveStaging`,
`ReleaseReservation`), and so is the ARCHIVE_FILE handler. The `catch` block covers
neither the reservation, which is awaited before the `try` (service:175), nor its own
last call, whose failure is swallowed (service:237): a reservation whose reply is lost
and a release that fails (`ReleaseFails`) leave the call `abandoned`, and a file that
only abandoned calls hold is `Stranded`. An upload attempt, its
staging key and its archive job share one identity. SHA-256 digests are model values.

**GroupReview** starts from the groups that grouping leaves. Every handler locks the
session row and is one action. Jobs are only open or gone: that a job is settled
once, by one worker, is what `ExclusiveJobs` promises and `AssetJobLeaseProofs` proves.
An asset remembers the members it was made from (`made`), which the code does not
store; it is history, read only by properties and carried from the job.
`outputs` is the file store, by the reserved key.

**UploadQueue.** JavaScript runs one callback at a time, so an action is a user event
or a reply with every continuation it triggers. `server` is what the backend knows
of the files of the current run. The runs of one page share the counter, the phase and
the rows, and the page looks at nothing but the phase before it starts one, so a run may start while
PUTs of an earlier one are in flight; it sets the counter to 0, and they are taken off it
when they end. The history variable `uncounted` is the number of PUTs in flight that
the last such reset forgot.

**ImportConsole** has a server that any operator may write, the controller of
session-lifecycle.ts and the reducer of workflow-state.ts with the loaders that send
its forms. One group has two parts with a revision each: the product form edits the
group, the curation form its crystal draft. A read is begun, served by the server
with what the session is then, and shown when it arrives; in between anything may
happen. The lifecycle has one read of its own; the loaders have as many re-reads as
`MaxReads`, whose answers come in any order. Two variables are history, read only by
properties: `known`, the uploads of the newest session that was ever shown, and
`overtaken`, whether a session older than a group mutation under way was shown.

**StudioEditor** takes a design for the sequence of edits it came from, and its
revision for their number. `ui` is `OptimisticDesignState` with the notice shown above
it, `Record` what `sessionStorage` holds, `wire` the requests that may still reach the
server after the page stopped waiting for them. React runs the synchronizing effect
only when the state is another one, so `due` says that it has yet to run: a reducer
that returns the same state leaves it asleep.

**DesignOrders** splits `createOrderFromDesign` where READ COMMITTED lets others
commit: the first reads (`StartOrder`), the inventory read (`ReadStock`), the insert of
the order, which waits for an uncommitted row with its key (`InsertOrder`), and the
commit (`CommitOrder`); a duplicate key rolls back and answers with the order that is
there (`LoseInsert`). Of the snapshots a reader sees the one captured last.

**GuidedSessions** has both kinds of session in one module because their writes have
one shape: a service reads, decides whether the call is a replay, and a repository
writes under the condition that `stateRevision` did not move; a loser reads again.
An oracle session is one with an operation id. `GenerateDesign` makes the designs of a
recommendation one by one before they are counted and linked.

**KnowledgeReview** writes a pipeline run, a decision and a merge as a script of
statements that are run one by one (`CheckTransition`, `WriteTransition`, `ReadMerge`,
`WriteRefs`), because each is its own statement in PostgreSQL: a crash leaves the rest
of the script undone, another caller may commit in between. Several callers run at
once: whether a listed status or a passed check still holds when it is acted upon is what
the properties ask. The history variable `overtaken` keeps, for each call, the rules whose
status other calls changed since it listed what it is to do.

**IdempotentCreation** is the promise that `DesignOrders` (orders by revision,
first beads by `creationRequestId`) and `GuidedSessions` (casts and card selections by
operation id) are checked to implement.

### Abstractions

- Requests with a stale revision, replays of an idempotency key and reads change
  nothing and are left out. A file is declared by one manifest. A `PUT` of an
  archived file only compares digests.
- The identity of the primary image of a group is abstracted (`SetPrimary` keeps its
  effects on the group); drafts are "saved" or not, names "set" or not, permission
  decisions "clear" a version or not. A split creates one group. The purpose of a
  processed asset is always `MAIN`.
- Grouping is the set of files it covers; how it partitions them is `ReviewInit`'s
  free choice.
- Expiry of a lease nobody works under is free; expiry under a working holder is a
  `Stall` and counted, because the runtime renews every 20 s of a 60 s lease.
- In `UploadQueue` a duplicate counts as archived.
- In `ArchiveImport` the session is created by `ImportInit`.
- `DesignOrders` leaves out prices and price checks, publication of designs and
  restocking, for which the code has no operation. What clears a revision is a free
  choice made when it is stored.
- `GuidedSessions` abstracts decks, casts, copy and signals; a catalogue is the set of
  designs it leads to, so a changed catalogue is another set.
- In `KnowledgeReview` all rules state one property of one crystal and are facts, so
  they have one conflict key; the listing of several statuses is one step. Texts,
  changes of authority, crawl state, documents and collection runs are left out.
- In `StudioEditor` what an operation does to a design, the selection, the
  catalogue and the limit of 50 entries of the undo stack are left out; a refusal for
  another reason than the revision is a call that is lost and then fails. An optimization
  is awaited before its result is submitted as an edit (`diy-editor.tsx:544-566`), with
  the conflict flag of the render that asked for it: an edit submitted while a conflict
  that arose meanwhile is shown is not in the model, whose edits look at the current state.
- In `ImportConsole` a form is a number. Group names, the creation of a crystal draft
  by its first save, the processing, preview and dashboard loaders, navigation,
  completeness checks and notices are left out. Leaving the page ends the behaviour,
  since no answer is looked at after it.

### Constants that state an assumption

Some flaws of the code would mask everything else, so the assumption without which
they occur is a constant, set in the runs about the rest so that it does not, and the
other way in the configuration, or the change of one, that shows the flaw.

| constant | meaning |
|---|---|
| `ManifestsOverlap` | other writers may commit inside a `registerManifest` |
| `RepliesArrive` | a caller always learns that its transaction committed |
| `BackendCrashes` | the backend may die inside an upload |
| `SelectDuringWork` | an operator may select a version while a job is open |
| `LateDrop` | a dropped folder, read asynchronously, may start a run at any time |
| `LateRegistration` | a run may start while a cancelled one still registers |
| `LateAbort` | a run may start before the callbacks of the PUTs that a cancellation aborted have run |

`BackendCrashes` holds in ImportSafety and ImportLiveness, `LateRegistration` in
UploadQueue; the rest is FALSE in the runs, `RepliesArrive` TRUE but in ImportLiveness.
`LateAbort` is FALSE because a browser rejects an aborted `fetch`, and runs what waits for
it, before it delivers the next click. `Pipelines`, `Reviewers` and `Edited` of
`KnowledgeReview` are no assumptions but bounds: which of the operators runs the
pipeline, which decides, edits, imports and publishes, and which rules they edit. They keep the
instances small, and the theorems hold for every choice.

## 3. Runs

| configuration | bounds | shows |
|---|---|---|
| JobLeaseSafety | 2 processes with one id, 2 jobs, 1 retry, 2 faults, 4 tokens | lease exclusive, budget kept, cancelled sessions quiet, cleanup after commit; the queue implements `ExclusiveJobs` |
| ImportSafety | 2 processes, 2 files, 2 attempts, 2 grouping jobs, 2 digests, 1 fault, backend crashes | counters, evidence, staging, checkpoints, groups, use of the queue |
| ImportLiveness | 1 process, 1 file, 1 attempt, 1 grouping job, 1 retry, 1 fault, lost replies, failing releases, backend crashes | a reserved upload is archived, skipped or failed in the end unless its call abandoned it, and every queued job settles |
| ReviewEdits | 2 groups, 3 files, 1 processing run each, 4 edits | versions match members, groups partition files |
| ReviewVersions | 2 groups, 2 files, 3 processing runs each | jobs, readiness, publications, current versions |
| UploadQueue | 3 files, 2 PUTs, 3 runs, 2 retries, late registrations | bound and completion but for forgotten PUTs, cancellation; runs settle |
| ImportConsole | 2 uploads, or 2 edits of either form; 3 revisions, 1 failure, 1 loader read beside the lifecycle's | no accepted save overwrites unseen work; an upload is shown in the end |
| DesignOrders | 2 designs, 2 revisions, 2 calls, 1 request key, 2 orders, 1 product of 2 pieces | reservations are backed by orders, orders fulfil the cleared revision they name, creations happen once |
| OrdersOversold | the same with 3 orders | violation: see below |
| GuidedSessions | 2 sessions of which 1 goes on, 2 calls, 2 operations, spreads of 2 cards | operations take effect once, accepted steps stand, answers agree |
| KnowledgeReview | 3 rules (two renderings of one value, one of another), 3 sources, 1 ingestion run, 2 operators (one runs the pipeline, one reviews and publishes), 1 version, 1 edited rule, crashes | only a decision, or a call that another one overtook on that rule, takes a rule out of production; merging keeps every fact, with the same exception |
| StudioEditor | 3 edits, undos or redos, 3 requests, 3 revisions, 1 update by another device | no edit disappears unannounced, edits apply in order |

Why these bounds. A takeover needs two processes and one lapse; the second fault of
JobLeaseSafety lets the one that took over lose its lease too. Duplicates need two
files and equal digests; a second attempt for one file needs two archive jobs. Three
processing runs let an old version be approved, a newer one rejected and the old one
selected again, with a third in progress; four edits let a group be split, moved
into, merged back and edited. Three files and two PUTs leave one row queued behind a
full pump, which is what the pump decides about; the code's bound is 3. Three runs are what it
takes to reset the counter over PUTs in flight: the first is cancelled while it
registers, the failure of its registration reports the second as failed while its PUTs
are out, and the third starts. JobLeaseSafety
has as many tokens as the other process and the rows can hold, and one fresh, so that
a claim never waits for one; the import runs have three, enough for the leases that
one fault leaves behind. `MaxRetries` is 3 in the code; 0 and 1
between them reach both branches of `failJob` and the replay of a recorded file,
and the theorems hold for every value. In ImportSafety it is 0, so that every
failure is the last; ImportLiveness has the retry.

A race for a key or a revision needs two calls, and both the winner's retry and the
loser's are calls again, so two at a time reach them all in `DesignOrders` and
`GuidedSessions`. There a first revision takes one of two pieces and a second takes
three, so that stock is sufficient, just used up, and short; with two orders it runs
out for a third call. Two cards let a selection be overtaken by another operation, by
the same position and by its own retry; of three designs two make a recommendation,
so two catalogues share a design. One session casts only: it is there for operation
ids that meet. Three rules are the smallest set with a merge and a conflict, and three sources
the smallest where a rule is corroborated on its own or by its merged twin, from strong
authority or not. A pipeline and a reviewer are the two callers whose statements meet on
one rule; a second version does so by retiring the first. Two configurations beside the runs vary the bounds
of KnowledgeReview, and both pass: `KnowledgeVersions` has two versions and no edits, and in
`KnowledgeCallers` both operators make every call, on two rules that state one value.
In `StudioEditor` three edits
leave one behind a failed one and one in flight, three requests let a lost one arrive
after its retry. In `ImportConsole` product form and curation form are explored one
at a time: the reducer treats them apart except for the block and the lock on the
card, which either of them reaches. Three revisions let a form be typed against the
first, another operator write the second and a save, a retry or a mutation write the
third. They are too few for an older session to overtake a mutation, which takes a
fourth (`ConsoleOvertaken`); the theorem about the saves holds for any number.

`CHECK_DEADLOCK FALSE` everywhere: a published or cancelled session, a finished
queue, and a model whose bounds on requests, orders and revisions are used up really
stop.

### Where the code and its documentation differ

`OrdersOversold` is the one expected violation among the runs: two orders of different
designs read one inventory snapshot and both reserve its remainder
(`order.repository.ts:87`), although `docs/DATABASE_SCHEMA.md:13` says that the remaining
inventory never becomes negative. The later snapshot hides the earlier reservation, so
`ReservationsAreBacked`, which looks at the snapshot, goes on to hold.

Twelve more configurations that fail are kept beside the runs. Each finds a behaviour in which the
named property, which a document, a comment or a message of the code states, is
violated, and shows what the assumptions of the passing runs exclude:

| configuration | property | what happens |
|---|---|---|
| ImportManifestRace | `SessionMovesAreLegal` | `registerManifest` (repository:1072) writes back a session state it read without a lock: a cancelled session becomes `UPLOADING` |
| ImportBackendCrash | `NoUploadIsStranded` | a backend that dies inside an upload leaves the file in `UPLOADING` for ever |
| ReviewSelectRace | `ReviewMovesAreLegal` | a version is selected while a job is open; the job's completion pulls a publishing session back |
| OrdersStaleDelete | `DeletesTheConfirmedRevision` | `delete` (design service:1337) compares the revision it read and then deletes unconditionally; `docs/API_SPECIFICATION.md:549` makes a stale revision a `CONFLICT` |
| GuidedUnreadable | `SessionsStayReadable` | a session whose recommended design was deleted can no longer be read; `docs/API_SPECIFICATION.md:565`: "Historical sessions remain readable" |
| UploadOverlap | `NeverMoreAtOnce` | the registration of a cancelled run fails late and sets the phase to `FAILED` (`upload-queue.ts:361-368`) while the PUTs of the next run are out; a third run starts, resets `active` (:318, or :422 in `retryRegistered`) and launches as many again, although the comment says "never more than three at once" (:12) |
| KnowledgeApprovalRace | `ApprovedStaysInProduction` | the pipeline parks or retires, from an older list, a rule that was approved meanwhile: `transitionRule` (knowledge repository:808) writes without a condition |
| StudioDiscarded | `DiscardedEditsStayOff` | an edit whose answer was lost is on the server while the banner (`diy-editor.tsx:155`) says that it will not be written there |
| StudioStalls | `WaitingEditsSettle` | an answer from before a reload settles nothing and returns the same state, so the effect does not run and the next edit waits for another action of the user |
| ConsoleTypingLost | `UnsavedWorkWins` | `PRODUCT_DRAFT_SAVED` (workflow-state.ts:914) replaces what was typed during the save; the comment at :497 says unsaved work wins |
| ConsoleStaleLocked | `StaleWorkCanBeConfirmed` | a poll that finds another operator's save marks the card stale and locks it (`draft-panel.tsx:534`), but the confirmation is offered only after a conflict (:616) |
| ConsoleOvertaken | `ProductSavesCoverSeenWork` | a session read before another operator's save is shown while a group mutation is under way, and the form is typed against it; the answer to the mutation (workflow-state.ts:819) then raises the shown revision past that save and clears the stale mark without moving the form, so the next save is accepted and overwrites it, although "Rebasing moves the revision an operator confirms against" (:627) |

### Other divergences

Rarer ones have no configuration of their own. Each is reproduced by taking the
configuration named, changing what the second column says, and checking the property,
which is defined in the module:

| start from | change | property | what happens |
|---|---|---|---|
| ImportSafety | one process, file, digest and attempt; `BackendCrashes` FALSE; no symmetry | `ReplayIsAccepted` | `recordUploadedFile` (repository:1967) refuses the replay of a recorded file once grouping has started; `docs/ASSET_PIPELINE.md:121` |
| ImportSafety | the same, `RepliesArrive` FALSE | `StagedWhileActive` | the `catch` of `uploadFile` (service:233) deletes the staging entry of a job whose enqueue committed but whose reply was lost |
| ReviewVersions | one group, one file, one output, `Digests <- AnyDigests`, `MaxRuns` 2, no symmetry | `CurrentVersionIsApprovable` | reprocessing to the same bytes yields a version that cannot be approved; `docs/DATABASE_SCHEMA.md:90` |
| ReviewVersions | the same, two outputs, `MaxEdits` 1 | `ReservedOutputIsWritable` | a failed run leaves its output behind; the next run reserves the same version and key for other bytes |
| ImportLiveness | `BackendCrashes` FALSE | `NoUploadIsStranded` | a reservation commits, its reply is lost, and `uploadFile` throws before its `try` (service:175): the file stays `UPLOADING` for ever |
| ImportLiveness | the same, `RepliesArrive` TRUE | `NoUploadIsStranded` | the `catch` block swallows the failure of `failUploadReservation` (service:237), with the same outcome |
| UploadOverlap | `LiveQueueSpec` | `EveryRunSettles` | the PUTs of an earlier run take the counter below zero, where the end of the run is never seen: the page stays `UPLOADING` |
| UploadQueue | `QueueSpec`, 2 files, `Concurrency` 1, `MaxRetries` 0, `LateDrop` TRUE, `LateRegistration` FALSE | `NeverMoreAtOnce` | a folder dropped before a run and read during it starts a second run and doubles the PUTs in flight |
| UploadQueue | `QueueSpec`, 2 files, `Concurrency` 1, `MaxRetries` 0 | `RowsWaitForRegistration` | the answer of a cancelled run fails the rows of the next |
| UploadQueue | `QueueSpec`, 2 files, `Concurrency` 1, 1 run, 1 retry, `LateRegistration` FALSE | `FailedRowIsRetryable` | the backend's ordinary `UPLOADING` answer is shown as a failure whose retry is refused (upload queue:121) |
| DesignOrders | `MaxOrders` 3 | `RetryFindsTheOrder` | the retry of an order is `NOT_FOUND` once its design was deleted |
| KnowledgeReview | | `EvidenceStaysReviewable` | a document that states a rendering retired before, by a merge or a decision, is recorded on the retired rule although another rule that states the value is live; there no reviewer sees it (comment at knowledge repository:655) |
| KnowledgeApprovalRace | `MaxVersion` 2 | `OnePublishedVersion` | two publications that read the published versions at once retire neither |
| StudioEditor | 1 edit, 2 requests | `EditsApplyOnce` | an edit whose answer was lost is retried and applied again, once a synchronization has brought the revision it made |
| StudioEditor | 1 edit, 2 requests | `ConfirmedIsMonotonic` | the late answer of a save or an order replaces a newer confirmed design (`diy-editor.tsx:603`, `:779`) |
| ImportConsole | `Works <- EditAndUpload` | `UploadsStayShown` | a loader's re-read served earlier arrives after the lifecycle's and shows an older session for good |

Some differences need no run. `ASSET_SOURCE_FILE_TRANSITIONS` (contract:102) has neither
`PENDING` to `FAILED`, which cancellation makes, nor `UPLOADING` to
`SKIPPED_DUPLICATE`, which recording a duplicate makes; the model follows the
repository. `updateRuleReview` has no guard on the status of the rule. The worker's
knowledge job checks only that a source is enabled (compare
`docs/DATABASE_SCHEMA.md:15`). An oracle creation that is repeated once its session
went on is a `CONFLICT` (`oracle.service.ts:203`), and a repeated publication is one too.

Hazards outside what is modelled, found while reading: a deleted design whose id is
derived from its content strands every later recommendation of that content;
`mapTarotSession` reads a session and its links in two statements and may see them
torn; `getProductionKnowledge` reads version and rules in two statements that a
publication may part; `recordFetchOutcome` reads a source and writes its counter and its
enabled flag back, so it may enable a source that was disabled meanwhile; a job that
always kills its worker is reclaimed for ever.

### Liveness and fairness

`ImportFairness`: every worker keeps polling and finishes what it runs (the loop of
the runtime leaves a phase by a call that returns or throws), leases nobody renews
run out and backoffs elapse (clocks), a stopped process is started again by its
supervisor, and an upload call in progress runs to its end, unless the backend dies in
it. Nobody has to upload, start grouping or cancel. Weak fairness suffices: each of these stays enabled until
it happens. Faults are bounded by `MaxFaults`: a worker that crashed on every attempt
would be reclaimed for ever, since claiming does not count against the budget.
`EveryJobSettles` is stated in `AssetJobLease` but holds only where a session can
record a terminal failure or accept a completion; elsewhere `failJob` rolls back and
the job is reclaimed again and again. The import is checked to be such a place.

`FairConsoleSpec` assumes that a read of the lifecycle is answered and its answer
handled, and that the browser's timer rings; nobody has to save, and the loaders may
never re-read. `StudioFairness` (used by StudioStalls) lets the page's effect run, its
calls end and a loaded design be adopted.

`EveryUploadResolves` excepts `Stranded` files, which no fairness would bring back: no
call of the code takes up a reservation that was left behind. `NoUploadIsStranded` states
the same without the exception, and the divergences show the three ways in which it fails.

`LiveQueueSpec` assumes only that one of the outstanding calls of the browser is
answered or fails in the end. `RunSettles` excepts runs that began over PUTs in flight,
which the divergence about `EveryRunSettles` shows.

## 4. Proofs

Every theorem below is proved for every value of the constants that the assumptions
of its module admit: any number of jobs, workers, files, groups, calls, edits and
runs, every assignment of worker ids, digests and bills, every retry budget. The
assumptions say that sets are finite, that numbers are natural, that special values
are not elements of the sets they stand beside, and that keys of different kinds are
different. Where a theorem needs more, the table says so.

Each proof module has the same layout: the inductive invariant and its parts first,
then lemmas about operators, one lemma for each kind of step, the induction, and the
theorems. Each invariant was checked by TLC on the instance of its run before it was
proved.

### The job queue: `AssetJobLeaseProofs`

| theorem | property |
|---|---|
| `TypeCorrect` | `TypeOK` |
| `LeaseIsExclusive` | `ExclusiveLease` |
| `CleanupFollowsCommit` | `CleanupAfterCommit` |
| `BudgetIsKept` | `RetryBudget` |
| `CancellationQuiets` | `CancelledSessionIsQuiet` |
| `OutcomesAreFinal` | `OutcomeIsFinal` |
| `HolderSettles` | `OnlyTheHolderSettles` |
| `QueueImplementsExclusiveJobs` | `ExclusiveSpec`, under a refinement mapping |

`ExclusiveLease` alone is not inductive: two busy processes with one worker id and one
token would both pass the compare-and-set as soon as a row carried that token.
`LeaseInv` therefore says that **no two busy processes have the same token**; a claim
keeps it because it mints a token nobody holds. `RetryBudget` needs that an active row
has retries left, which bounds what `failJob` can add; `CancelledSessionIsQuiet` gives
`Enqueue` and the claims their guard; `CleanupAfterCommit` needs the fact, proved with
the invariant, that no step changes a settled row.

The refinement maps a row to `JobStatus` and the process whose token it carries to
`Owner`. The owner is well defined because of `LeaseInv`; a claim of a running job maps
to `Take` of a free one because a lapsed lease fails the compare-and-set of its old
holder.

### The archive import: `ArchiveImportProofs`

| theorem | property | needs |
|---|---|---|
| `LeasesStaySafe` | the four invariants of the queue | |
| `ImportJobsAreExclusive` | `ExclusiveSpec` | |
| `EvidenceAlways` | `RecordedFilesHaveEvidence` | |
| `OneArchiveJobAlways` | `OneArchiveJobPerFile` | |
| `RecordedStaysFinal` | `RecordedIsFinal` | |
| `StagedAlways` | `StagedWhileActive` | `RepliesArrive` |
| `CountersAlways` | `CountersMatchRows` | no overlap |
| `CheckpointAlways` | `CheckpointIsEarned` | no overlap |
| `GroupsAlways` | `GroupsCoverTheArchive` | no overlap |
| `QueueIsUsed` | `UsesTheQueue` | no overlap |
| `SessionMovesLegally` | `SessionMovesAreLegal` | no overlap |

"No overlap" is `~ManifestsOverlap`: nothing else commits inside a `registerManifest`.
It is needed: under overlap TLC violates each of the five. A cancelled session that a
manifest writes back to `UPLOADING` accepts uploads again, and counts, checkpoints and
the queue's rule that nothing leaves `CANCELLED` go with it; `GroupsCoverTheArchive`
takes two archive jobs, a grouping job and two digests. `RepliesArrive` is needed for
`StagedWhileActive` (table above). That mutual exclusion of leases and the evidence of
recorded files survive both is what the unconditional theorems say.

`ImportInv` adds to `LeaseInv` what ties the upload calls, the file rows, the archive
jobs and the stores together: **a file has at most one archive job that may still run,
and while it has one its row is neither `PENDING` nor `FAILED`**, so that no other
upload can take it; an attempt with a job has been staged and knows its digest; a
handler about to record has stored the original; and of the files with one digest
exactly one is archived (`EvidenceOK`, without counting). The archived, skipped and
failed counters follow the rows even under overlap; only the declared counter does
not. `StagedInv` says that an attempt that still cleans up has no job. `DeclaredInv`
says of a manifest between its count and its write that what it will insert is what
its files lack, and that a closed archive has nothing but recorded files.

### The review: `GroupReviewProofs`

| theorem | property | needs |
|---|---|---|
| `OneOpenJobAlways` | `OneOpenJobPerGroup` | |
| `OneCurrentVersionAlways` | `OneCurrentVersion` | |
| `ProcessingHasWorkAlways` | `ProcessingHasWork` | |
| `AssetsMatchMembersAlways` | `AssetsMatchMembers` | |
| `GroupsPartitionFilesAlways` | `GroupsPartitionFiles` | |
| `OfferedSessionIsSettledAlways` | `OfferedSessionIsSettled` | no late selection |
| `PublicationsResolveAlways` | `PublicationsResolve` | no late selection |
| `ReviewMovesAreLegalAlways` | `ReviewMovesAreLegal` | no late selection |

`ReviewInv` says beyond these that **the versions of a group are 1..n without gaps and
a job in flight carries n + 1**: that is why the version a completion stores is new,
and why a version is never stored for members the group no longer has. `OfferInv`
needs that no version is selected while a job is open (`~SelectDuringWork`): then open
jobs mean that the session is in `PROCESSING` or `PARTIALLY_FAILED`, so that it is not
offered. `ReviewSelectRace` shows that the assumption is needed.

### The upload queue: `ImportConsoleProofs`

| theorem | property | needs |
|---|---|---|
| `QueueTypeAlways` | `QueueTypeOK` | |
| `CancelledLaunchesNothingAlways` | `CancelledLaunchesNothing` | |
| `UploadsAreBoundedAlways` | `UploadsAreBounded` | |
| `ActiveCountsSendsAlways` | `ActiveCountsSends` | |
| `CompleteIsSettledAlways` | `CompleteIsSettled` | |
| `NeverMoreAtOnceAlways` | `NeverMoreAtOnce` | `RunsStartApart` |
| `RowsWaitForRegistrationAlways` | `RowsWaitForRegistration` | `RunsStartApart` |

The bound follows from **the counter and what its last reset forgot being together the
number of PUTs in flight, with one PUT for each uploading row of the current run**
(`PumpInv`). It needs no assumption: however runs overlap, the queue exceeds its limit
by the forgotten PUTs and by nothing else. `RunsStartApart` says that a run starts
neither by a late drop, nor while a cancelled one registers, nor before its aborted PUTs
have ended. Then the runs stay apart (`RunsStayApart`): nothing is ever forgotten, and the
limit of the code's comment holds as it stands. The counting is done by lemmas on
images of finite sets; `Pumped` names what one call of the pump leaves, and
`PumpEffect` proves it of the model's `Pump`. `RunsStartApart` is needed: without a part of
it the tables of divergences apply.

### The session page: `ImportConsoleProofs`

| theorem | property |
|---|---|
| `ConsoleTypeAlways` | `ConsoleTypeOK` |
| `SavesAreCovered` | `SavesCoverSeenWork` |

That a save overwrites nothing unseen is decided long before it is sent: when the form
was typed, shown, marked and unmarked. `ConsoleInv` says that **from the revision a form
is based on up to the one that is shown, everything was written by the operator, unless
the form is marked stale** (`MarksHold`). A save carries the shown revision and the
server accepts it only for that one, so nothing can have come after it either. A shown
session sets the marks by comparing revisions; the answer to a save replaces the form.
The answer to a group mutation does neither: it raises the shown revision and clears
the mark. So `MutationHolds` says of a mutation under way that what is unsaved is
covered up to the revision it was sent with, whatever its mark says; the revision it makes is
the operator's own. This is where an older session would break the argument, because work
typed on it is based on a revision below the mutation's. The property therefore excepts the
product form once a mutation was overtaken, and nothing else: the curation form has no
such gap and needs no condition.

### Designs and orders: `DesignOrdersProofs`

| theorem | property |
|---|---|
| `OrdersTypeAlways` | `OrdersTypeOK` |
| `OrdersFulfilAlways` | `OrdersFulfilTheirRevision` |
| `ReservationsAlways` | `ReservationsAreBacked` |
| `CreatesOnceAlways` | `CreatesOnce`, the refinement of `IdempotentCreation` |

`OrdersInv` speaks of **what a call in flight has read and which rows are inserted and
not committed**: `FulfilsIn` holds of a call from the moment it has made its lines,
because the revision it read stays stored and cleared when the design is updated or
archived meanwhile; `KeysAreUnique` covers uncommitted rows, which is where the race for a key is
decided. `BackedInv` follows the stock: what a call has seen is backed by the orders
committed so far and stays so, because that sum only grows; what it inserts is backed
by that sum and its own lines; what it commits is backed because its order is committed
with it. The sum is a fold over the set of orders. That it adds one number for each
order, in whatever order `CHOOSE` picks them, is proved in the section on sums: the
recursion exists (`SumTableExists`), and each order can be the one that is taken out
(`ReservedByEach`), both by the least counterexample.

### Sessions: `GuidedSessionsProofs`

| theorem | property |
|---|---|
| `AnswersAgreeAlways` | `AnswersAgree` |
| `AcceptedStepsStandAlways` | `AcceptedStepsStand` |
| `OperationsOnceAlways` | `OperationsTakeEffectOnce`, the refinement of `IdempotentCreation` |

`GuidedInv` is the argument behind the conditional updates: **the status of a row
determines its revision and every write moves both, so a call that finds the revision
it read finds the row it read** (`CallSound`). Without it a card could be appended to a
spread that had changed under the call.

### The editor: `StudioEditorProofs`

| theorem | property |
|---|---|
| `StudioTypeAlways` | `StudioTypeOK` |
| `EditsAccountedAlways` | `EditsAreAccountedFor` |
| `EditsInOrderAlways` | `EditsApplyInOrder` |

Order on the server is not inductive, since a request that the page has given up may
still arrive. `StudioInv` says that **an edit is live, waiting or retryable, only as
long as nothing made after it was sent**, and that a request on the network expects a
revision none of whose edits is later than its own: it then applies in order or
conflicts. An edit leaves the queue only with an answer that it is on the server
(`AwaitSound`), or is reported.

### The knowledge base: `KnowledgeReviewProofs`

| theorem | property |
|---|---|
| `KnowledgeTypeAlways` | `KnowledgeTypeOK` |
| `ProductionIsStable` | `ProductionStaysStable` |
| `MergingKeepsFacts` | `FactsSurviveMerging` |

They hold for any number of operators and workers, whose calls interleave statement by
statement and may die between two. What may go wrong then is in the properties: a call
may take a rule out of production, or retire the last live rule of a value, only if
another call changed the status of that very rule, or of one of that value, since it
listed what it is to do. That the exception is needed is what `KnowledgeApprovalRace` shows
with `ApprovedStaysInProduction`, which lacks it. `OnePublishedVersion` is no theorem:
the code violates it (table of divergences).

`KnowledgeInv` says of every call which statements it may still have to run: only
statements on rules that exist, with evidence to write. `ReviewInv` says what a list
read at the start of a part of the pipeline is still good for when the statements made
from it run at last, **or else that another call moved that rule since the list was read**
(`CallSound`, where `over` is the history of the call). No approved rule is parked or folded (`SparesApproved`): only a
human decision approves, and it is a call of its own. A rule that is still to be
retired leaves another one alive that states the same value and is not to be retired
itself (`LeavesPrimary`); a worker may meanwhile corroborate or add rules, never
retire one. A check that passed still holds when its statement runs (`ChecksHold`).
`CallStaysSound` is the step between two statements of one call: a write of another call
either leaves the rule alone or puts it into `over`. The scripts are built by sorting sets of rules and
flattening lists of lists; the lemmas about that (the list has exactly the elements of the set, a
flattened list exactly those of its parts) are proved by the least counterexample and
by induction on finite sets, in two sections of their own.

### What the proofs said about the models

- `SavesCoverSeenWork` was stated without a condition and held in its run. The proof
  failed at the answer to a group mutation; the state it failed in is reachable with
  a fourth revision, and is a gap in the code (`ConsoleOvertaken`). The property now names the case it
  excludes, and `ProductSavesCoverSeenWork` states it without.
- `KnowledgeReview` sorted its candidates by a library operator about which nothing can
  be proved, because it chooses among sequences by a recursive definition; `InOrder` says the same
  by the position of each element.

- The counters of `ArchiveImport` did not follow its rows as long as an overlapping
  manifest could insert a file that was there. The unique index forbids it; it is a guard of
  `CommitManifest` now.
- The invariant of `DesignOrders` needed that an absent design has no revisions, and
  that keys of orders and of first beads are never equal: both are now stated.
- The counter of `UploadQueue` was proved to be the number of PUTs in flight with a
  guard that kept runs apart and that the code does not have. Without the guard the
  invariant names what the counter lacks, and the bound holds without a condition.
- An assumption of `GuidedSessions` did not mean what it was written to mean; it is
  parenthesised now.

### Only model-checked

Liveness: `EveryUploadResolves` and `EveryJobSettles` of the import, `RunSettles` of the
upload queue and `UploadsEndOnTheSession` of the console, the first but for stranded
files, the third but for runs that began over PUTs in flight. The proof system reasons
neither about fairness nor about ENABLED here. Every other property of a passing run is
stated by a theorem above, for some under the assumption the tables name; the violations are
traces, which need no proof.

## 5. Plan

1. `ShowroomApprovals`: withdrawal tombstones against replayed approvals.
2. `JwksKeySource`: one shared refresh and two negative caches.
3. `KnowledgeSources`: crawl state and collection runs.
4. Publication of designs, and the pure engines as operators over bounded inputs.
