------------------------ MODULE AssetImportContract ------------------------
(***************************************************************************)
(* The shared vocabulary of the bead asset import: the session, file,      *)
(* group and asset states of the design contract, the legal session and    *)
(* file moves, and the recovery checkpoints                                *)
(* (packages/design-contract/src/schemas/bead-asset-import-api.schema.ts). *)
(* Constant-level: every behavioural module of the import extends it.      *)
(***************************************************************************)
EXTENDS Naturals

SessionStates ==
  {"CREATED", "UPLOADING", "ARCHIVING", "PROCESSING", "NEEDS_REVIEW",
   "READY_TO_PUBLISH", "PUBLISHING", "PUBLISHED", "PARTIALLY_FAILED",
   "FAILED", "CANCELLED"}

TerminalSessionStates == {"PUBLISHED", "FAILED", "CANCELLED"}

\* ASSET_IMPORT_SESSION_TRANSITIONS
SessionTransitions ==
  [CREATED          |-> {"UPLOADING", "FAILED", "CANCELLED"},
   UPLOADING        |-> {"ARCHIVING", "FAILED", "CANCELLED"},
   ARCHIVING        |-> {"PROCESSING", "PARTIALLY_FAILED", "FAILED", "CANCELLED"},
   PROCESSING       |-> {"NEEDS_REVIEW", "PARTIALLY_FAILED", "FAILED", "CANCELLED"},
   NEEDS_REVIEW     |-> {"READY_TO_PUBLISH", "PROCESSING", "FAILED", "CANCELLED"},
   READY_TO_PUBLISH |-> {"PUBLISHING", "NEEDS_REVIEW", "CANCELLED"},
   PUBLISHING       |-> {"PUBLISHED", "PARTIALLY_FAILED", "CANCELLED"},
   PUBLISHED        |-> {},
   PARTIALLY_FAILED |-> {"PROCESSING", "NEEDS_REVIEW", "FAILED", "CANCELLED"},
   FAILED           |-> {},
   CANCELLED        |-> {}]

\* canTransitionAssetImportSession
CanTransition(from, to) == to \in SessionTransitions[from]

FileStates == {"PENDING", "UPLOADING", "ARCHIVED", "FAILED", "SKIPPED_DUPLICATE"}

GroupStates ==
  {"SUGGESTED", "CONFIRMED", "NAMED", "PROCESSED", "QC_FAILED", "READY", "PUBLISHED"}

\* DRAFT is in the contract enum; no code of the repository writes it.
AssetStates == {"DRAFT", "QC_PENDING", "QC_FAILED", "APPROVED", "RETIRED"}

\* ASSET_IMPORT_CHECKPOINTS by rank; 0 is the null marker of a new session.
CheckpointRank ==
  [NONE |-> 0, ARCHIVED |-> 1, GROUPED |-> 2, LABELED |-> 3,
   PROCESSED |-> 4, REVIEWED |-> 5, PUBLISHED |-> 6]

Checkpoints == DOMAIN CheckpointRank

\* Mutation: only the first checkpoint is ever recorded.
OnlyFirstCheckpoint(current, next) == IF current = "NONE" THEN next ELSE current

\* advanceCheckpoint: a replayed lower marker never moves the session back.
AdvanceCheckpoint(current, next) ==
  IF CheckpointRank[current] >= CheckpointRank[next] THEN current ELSE next

(***************************************************************************)
(* The session state that failJob records for a terminally failed job, and *)
(* whether it can record one at all: where neither PARTIALLY_FAILED nor    *)
(* FAILED is a legal move the whole transaction is a CONFLICT.             *)
(***************************************************************************)
RecordsTerminalFailure(s) ==
  s = "PARTIALLY_FAILED" \/ CanTransition(s, "PARTIALLY_FAILED") \/ CanTransition(s, "FAILED")

TerminalFailureState(s) ==
  IF s = "PARTIALLY_FAILED" \/ CanTransition(s, "PARTIALLY_FAILED")
    THEN "PARTIALLY_FAILED" ELSE "FAILED"

=============================================================================
