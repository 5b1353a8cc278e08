---------------------------- MODULE GroupReview ----------------------------
(***************************************************************************)
(* From suggested groups to published products: the human edits of a group *)
(* (updateGroup, saveGroupDraft), processing runs (startProcessing,        *)
(* reprocessGroup, the PROCESS_GROUP handler with applyProcessGroupResult, *)
(* failJob), review (reviewProcessedAsset, selectProcessedVersion,         *)
(* refreshSessionReviewState) and publishGroup, of one import session.     *)
(*                                                                         *)
(* Every handler locks the session row first, so each is one action.  The  *)
(* job queue is abstracted to what ExclusiveJobs promises (AssetJobLease   *)
(* implements it): an open job is eventually done or dead, once.  A        *)
(* request with a stale group revision changes nothing, so every request   *)
(* here is one whose expectedGroupRevision matched.                        *)
(***************************************************************************)
EXTENDS AssetImportContract, FiniteSets

CONSTANTS
  Group,             \* group ids, materialized or still to be created by a split
  File,              \* the archived files that grouping assigned
  NoGroup,
  Output,            \* SHA-256 digests of processed images
  NoOutput,
  Digests,           \* the digests that processing a version of a group may yield
  MaxRuns,           \* bound on processing runs of a group
  MaxEdits,          \* bound on human edits of groups
  SelectDuringWork   \* may an operator select a version while jobs are open?

ASSUME ReviewAssumption ==
  /\ NoGroup \notin Group
  /\ NoOutput \notin Output
  /\ MaxRuns \in Nat \ {0}
  /\ Digests \in [Group -> [1..MaxRuns -> SUBSET Output]]
  /\ MaxEdits \in Nat
  /\ SelectDuringWork \in BOOLEAN

\* Only a run that completes stores its version: there are never more.
Version == 1..MaxRuns

VARIABLES
  session,      \* asset_import_sessions.state
  checkpoint,   \* last_verified_checkpoint
  groups,       \* bead_image_groups: state, crystal name set, draft saved
  home,         \* asset_source_files.group_id
  asset,        \* processed_assets by group and version
  jobs,         \* PROCESS_GROUP jobs that are open, with their payload
  runs,         \* how many jobs each group has had
  outputs,      \* processed files by reserved key (group, version)
  published,    \* bead_group_publications: the version bound, 0 for none
  edits         \* human edits so far

reviewVars == <<session, checkpoint, groups, home, asset, jobs, runs, outputs, published, edits>>

NoAsset ==
  [state |-> "NONE", current |-> FALSE, cleared |-> FALSE, out |-> NoOutput, made |-> {}]

JobRecord ==
  [group : Group, run : 1..MaxRuns, version : Version, out : Output, made : SUBSET File]

ReviewTypeOK ==
  /\ session \in SessionStates
  /\ checkpoint \in Checkpoints
  /\ groups \in [Group -> [state : GroupStates \cup {"ABSENT"}, named : BOOLEAN, drafted : BOOLEAN]]
  /\ home \in [File -> Group \cup {NoGroup}]
  /\ asset \in [Group -> [Version ->
       [state : AssetStates \cup {"NONE"}, current : BOOLEAN, cleared : BOOLEAN,
        out : Output \cup {NoOutput}, made : SUBSET File]]]
  /\ jobs \subseteq JobRecord
  /\ runs \in [Group -> 0..MaxRuns]
  /\ outputs \in [Group -> [Version -> Output \cup {NoOutput}]]
  /\ published \in [Group -> 0..MaxRuns]
  /\ edits \in 0..MaxEdits

Existing == {g \in Group : groups[g].state # "ABSENT"}

GroupsIn(states) == {g \in Group : groups[g].state \in states}

Members(g) == {f \in File : home[f] = g}

OpenOf(g) == {j \in jobs : j.group = g}

Versions(g) == {v \in Version : asset[g][v].state # "NONE"}

Current(g, v) == asset[g][v].current

Approved(g, v) == asset[g][v].state = "APPROVED" /\ Current(g, v)

\* What grouping leaves: every archived file in exactly one suggested group.
ReviewInit ==
  /\ session = "NEEDS_REVIEW"
  /\ checkpoint = "GROUPED"
  /\ home \in [File -> Group]
  /\ groups = [g \in Group |->
       [state |-> IF \E f \in File : home[f] = g THEN "SUGGESTED" ELSE "ABSENT",
        named |-> FALSE, drafted |-> FALSE]]
  /\ asset = [g \in Group |-> [v \in Version |-> NoAsset]]
  /\ jobs = {}
  /\ runs = [g \in Group |-> 0]
  /\ outputs = [g \in Group |-> [v \in Version |-> NoOutput]]
  /\ published = [g \in Group |-> 0]
  /\ edits = 0

-----------------------------------------------------------------------------
(* Updates the handlers share *)

Regroup(g, state) == [groups EXCEPT ![g].state = state]

Advance(marker) == checkpoint' = AdvanceCheckpoint(checkpoint, marker)

\* invalidateGroupProcessing over a set of groups.
Retired(a) ==
  IF a.state \in {"NONE", "RETIRED"} THEN a
  ELSE [a EXCEPT !.state = "RETIRED", !.current = FALSE]

Invalidate(gs) ==
  asset' = [g \in Group |->
              IF g \in gs THEN [v \in Version |-> Retired(asset[g][v])] ELSE asset[g]]

\* Mutation: the version that was current stays current.
MakeCurrentToo(g, v, row) ==
  [asset EXCEPT ![g][v] = [row EXCEPT !.current = TRUE]]

\* The versions of g with v, stored as row, as the only current one.
MakeCurrent(g, v, row) ==
  [asset EXCEPT ![g] = [w \in Version |->
     IF w = v THEN [row EXCEPT !.current = TRUE]
     ELSE [asset[g][w] EXCEPT !.current = FALSE]]]

AllReady(gr, as) ==
  \A g \in Group : gr[g].state # "ABSENT" =>
    \/ gr[g].state = "PUBLISHED"
    \/ gr[g].state = "READY" /\ \E v \in Version : as[g][v].state = "APPROVED" /\ as[g][v].current

\* refreshSessionReviewState on the updated groups and assets: the session it
\* decides on; where that move is illegal the whole transaction is a CONFLICT.
ReviewState(gr, as) ==
  IF ~AllReady(gr, as) THEN "NEEDS_REVIEW"
  ELSE IF \E g \in Group : gr[g].state = "PUBLISHED" THEN "PUBLISHING" ELSE "READY_TO_PUBLISH"

RefreshSession(from) ==
  LET next == ReviewState(groups', asset') IN
  /\ next = from \/ CanTransition(from, next)
  /\ session' = next

\* processingVersion: one more than the largest version of any stored asset.
NextVersion(g) ==
  CHOOSE v \in 1..(MaxRuns + 1) :
    /\ \A w \in Versions(g) : w < v
    /\ v = 1 \/ v - 1 \in Versions(g)

CanRun(g, out) == runs[g] < MaxRuns /\ out \in Digests[g][NextVersion(g)]

NewJob(g, out) ==
  [group |-> g, run |-> runs[g] + 1, version |-> NextVersion(g), out |-> out, made |-> Members(g)]

\* One job for each group of gs.  A settled job is only remembered by runs.
Queue(gs, out) ==
  /\ jobs' = jobs \cup {NewJob(g, out[g]) : g \in gs}
  /\ runs' = [g \in Group |-> IF g \in gs THEN runs[g] + 1 ELSE runs[g]]

-----------------------------------------------------------------------------
(* Processing *)

\* startProcessing: the updateMany on the session row is its lock.  What each
\* job will produce depends on its source and settings only.
StartProcessing(out) ==
  LET eligible == GroupsIn({"CONFIRMED", "NAMED", "QC_FAILED"}) IN
  /\ session \in {"NEEDS_REVIEW", "PARTIALLY_FAILED"}
  /\ jobs = {}
  /\ eligible # {}
  /\ \A g \in eligible : Members(g) # {} /\ CanRun(g, out[g])
  /\ session' = "PROCESSING"
  /\ Queue(eligible, out)
  /\ groups' = [g \in Group |->
                  IF g \in eligible THEN [groups[g] EXCEPT !.state = "PROCESSED"] ELSE groups[g]]
  /\ UNCHANGED <<checkpoint, home, asset, outputs, published, edits>>

\* Mutation: a group may be queued again while its job is open.
ReprocessableAnyTime(g) ==
  /\ session \in {"NEEDS_REVIEW", "READY_TO_PUBLISH", "PARTIALLY_FAILED"}
  /\ g \in Existing \ GroupsIn({"PUBLISHED"})
  /\ Members(g) # {}

Reprocessable(g) ==
  /\ session \in {"NEEDS_REVIEW", "READY_TO_PUBLISH", "PARTIALLY_FAILED"}
  /\ g \in Existing \ GroupsIn({"PUBLISHED"})
  /\ OpenOf(g) = {}
  /\ Members(g) # {}

ReprocessGroup(g, out) ==
  /\ Reprocessable(g)
  /\ CanRun(g, out)
  /\ session' = "PROCESSING"
  /\ Queue({g}, [h \in {g} |-> out])
  /\ groups' = Regroup(g, "PROCESSED")
  /\ UNCHANGED <<checkpoint, home, asset, outputs, published, edits>>

\* handleProcessGroup lands its output at the reserved key; a key that holds
\* the same bytes is reused, one that holds others is an ARCHIVE_CONFLICT.
PutProcessed(j) ==
  /\ j \in jobs
  /\ outputs[j.group][j.version] = NoOutput
  /\ outputs' = [outputs EXCEPT ![j.group][j.version] = j.out]
  /\ UNCHANGED <<session, checkpoint, groups, home, asset, jobs, runs, published, edits>>

\* completeJob with applyProcessGroupResult.
CompleteProcessing(j, qcPassed) ==
  LET g == j.group
      v == j.version
      result == [state |-> IF qcPassed THEN "QC_PENDING" ELSE "QC_FAILED",
                 current |-> FALSE, cleared |-> FALSE, out |-> j.out, made |-> j.made]
  IN
  /\ j \in jobs
  /\ session \notin TerminalSessionStates
  /\ outputs[g][v] = j.out
  /\ \E f \in j.made : home[f] = g
  /\ asset[g][v].state = "NONE"
  /\ asset' = IF qcPassed THEN MakeCurrent(g, v, result) ELSE [asset EXCEPT ![g][v] = result]
  /\ groups' = Regroup(g, IF qcPassed THEN "READY" ELSE "QC_FAILED")
  /\ jobs' = jobs \ {j}
  /\ Advance("PROCESSED")
  /\ session' = IF jobs # {j} THEN session
                ELSE IF \E h \in Group : groups'[h].state = "PROCESSED"
                  THEN "PARTIALLY_FAILED" ELSE "NEEDS_REVIEW"
  /\ UNCHANGED <<home, runs, outputs, published, edits>>

\* Mutation: the failure of a job is not recorded on its session.
FailJobOnly(j) ==
  /\ j \in jobs
  /\ groups' = Regroup(j.group, "QC_FAILED")
  /\ jobs' = jobs \ {j}
  /\ UNCHANGED <<session, checkpoint, home, asset, runs, outputs, published, edits>>

\* failJob of the last attempt, for whatever reason the attempts failed.
FailProcessing(j) ==
  /\ j \in jobs
  /\ RecordsTerminalFailure(session)
  /\ session' = TerminalFailureState(session)
  /\ groups' = IF groups[j.group].state = "PUBLISHED" THEN groups
               ELSE Regroup(j.group, "QC_FAILED")
  /\ jobs' = jobs \ {j}
  /\ UNCHANGED <<checkpoint, home, asset, runs, outputs, published, edits>>

-----------------------------------------------------------------------------
(* Review *)

\* processed_assets.asset_key is unique, and approval mints it from the digest.
KeyTaken(out) ==
  \E g \in Group, v \in Version : asset[g][v].state = "APPROVED" /\ asset[g][v].out = out

\* reviewProcessedAsset, APPROVE.  "cleared" stands for a permission decision
\* that publishGroup will accept.
Approve(g, v, cleared) ==
  /\ session = "NEEDS_REVIEW"
  /\ asset[g][v].state = "QC_PENDING"
  /\ Current(g, v)
  /\ ~KeyTaken(asset[g][v].out)
  /\ asset' = [asset EXCEPT ![g][v].state = "APPROVED", ![g][v].cleared = cleared]
  /\ groups' = Regroup(g, "READY")
  /\ Advance("REVIEWED")
  /\ RefreshSession(session)
  /\ UNCHANGED <<home, jobs, runs, outputs, published, edits>>

\* reviewProcessedAsset, REJECT: any version that is not approved.
Reject(g, v) ==
  /\ session = "NEEDS_REVIEW"
  /\ asset[g][v].state \in {"QC_PENDING", "QC_FAILED"}
  /\ asset' = [asset EXCEPT ![g][v].state = "RETIRED", ![g][v].current = FALSE]
  /\ groups' = Regroup(g, "QC_FAILED")
  /\ Advance("REVIEWED")
  /\ RefreshSession(session)
  /\ UNCHANGED <<home, jobs, runs, outputs, published, edits>>

\* Mutation: the session is not looked at again.
SelectWithoutRefresh(g, v) ==
  /\ jobs = {}
  /\ session \in {"NEEDS_REVIEW", "READY_TO_PUBLISH", "PARTIALLY_FAILED"}
  /\ g \in Existing \ GroupsIn({"PUBLISHED"})
  /\ asset[g][v].state \in {"QC_PENDING", "APPROVED"}
  /\ asset' = MakeCurrent(g, v, asset[g][v])
  /\ groups' = Regroup(g, "READY")
  /\ UNCHANGED <<session, checkpoint, home, jobs, runs, outputs, published, edits>>

\* selectProcessedVersion does not look at jobs: with SelectDuringWork FALSE
\* the operator is assumed to wait until none is open.
SelectVersion(g, v) ==
  /\ SelectDuringWork \/ jobs = {}
  /\ session \in {"NEEDS_REVIEW", "READY_TO_PUBLISH", "PARTIALLY_FAILED"}
  /\ g \in Existing \ GroupsIn({"PUBLISHED"})
  /\ asset[g][v].state \in {"QC_PENDING", "QC_FAILED", "APPROVED"}
  /\ asset' = MakeCurrent(g, v, asset[g][v])
  /\ groups' = Regroup(g, IF asset[g][v].state = "QC_FAILED" THEN "QC_FAILED" ELSE "READY")
  /\ RefreshSession(IF session = "PARTIALLY_FAILED" THEN "NEEDS_REVIEW" ELSE session)
  /\ UNCHANGED <<checkpoint, home, jobs, runs, outputs, published, edits>>

-----------------------------------------------------------------------------
(* Edits: updateGroup and saveGroupDraft *)

Editable(g) ==
  /\ edits < MaxEdits
  /\ edits' = edits + 1
  /\ session \notin {"PUBLISHING"} \cup TerminalSessionStates
  /\ g \in Existing \ GroupsIn({"PUBLISHED"})

SetName(g) ==
  /\ Editable(g)
  /\ groups' = [groups EXCEPT ![g].named = TRUE,
       ![g].state = IF @ \in {"PROCESSED", "QC_FAILED", "READY"} THEN @ ELSE "NAMED"]
  /\ Advance("LABELED")
  /\ UNCHANGED <<session, home, asset, jobs, runs, outputs, published>>

SaveDraft(g, named) ==
  /\ Editable(g)
  /\ groups[g].named => named
  /\ groups' = [groups EXCEPT ![g].named = named, ![g].drafted = TRUE,
       ![g].state = IF @ = "READY" THEN @ ELSE "NAMED"]
  /\ UNCHANGED <<session, checkpoint, home, asset, jobs, runs, outputs, published>>

\* Every structural edit needs the group idle, withdraws a readiness to
\* publish and retires what was processed from the old members.
StructuralEdit(g) ==
  /\ Editable(g)
  /\ OpenOf(g) = {}
  /\ session' = IF session = "READY_TO_PUBLISH" THEN "NEEDS_REVIEW" ELSE session
  /\ UNCHANGED <<checkpoint, jobs, runs, outputs, published>>

Edited(row) == [row EXCEPT !.state = IF row.named THEN "NAMED" ELSE "CONFIRMED"]

SetPrimary(g) ==
  /\ StructuralEdit(g)
  /\ groups' = [groups EXCEPT ![g] = Edited(@)]
  /\ Invalidate({g})
  /\ UNCHANGED home

\* Mutation: a group may lose its last member.
AnyPart(fs, g) == fs # {} /\ fs \subseteq Members(g)

ProperPart(fs, g) == fs # {} /\ fs \subseteq Members(g) /\ fs # Members(g)

IgnoreFiles(g, fs) ==
  /\ StructuralEdit(g)
  /\ ProperPart(fs, g)
  /\ home' = [f \in File |-> IF f \in fs THEN NoGroup ELSE home[f]]
  /\ groups' = [groups EXCEPT ![g] = Edited(@)]
  /\ Invalidate({g})

\* Mutation: a move retires what the source group processed, not the target.
MoveRetiresSource(g, target, fs) ==
  /\ StructuralEdit(g)
  /\ target \in Existing \ (GroupsIn({"PUBLISHED"}) \cup {g})
  /\ OpenOf(target) = {}
  /\ ProperPart(fs, g)
  /\ home' = [f \in File |-> IF f \in fs THEN target ELSE home[f]]
  /\ groups' = [groups EXCEPT ![g] = Edited(@), ![target] = Edited(@)]
  /\ Invalidate({g})

MoveFiles(g, target, fs) ==
  /\ StructuralEdit(g)
  /\ target \in Existing \ (GroupsIn({"PUBLISHED"}) \cup {g})
  /\ OpenOf(target) = {}
  /\ ProperPart(fs, g)
  /\ home' = [f \in File |-> IF f \in fs THEN target ELSE home[f]]
  /\ groups' = [groups EXCEPT ![g] = Edited(@), ![target] = Edited(@)]
  /\ Invalidate({g, target})

\* The merged groups disappear; they may carry no asset, job or draft.
MergeGroups(g, sources) ==
  /\ StructuralEdit(g)
  /\ sources # {} /\ sources \subseteq Existing \ (GroupsIn({"PUBLISHED"}) \cup {g})
  /\ \A s \in sources : Versions(s) = {} /\ runs[s] = 0 /\ ~groups[s].drafted
  /\ home' = [f \in File |-> IF home[f] \in sources THEN g ELSE home[f]]
  /\ groups' = [h \in Group |->
       IF h \in sources THEN [state |-> "ABSENT", named |-> FALSE, drafted |-> FALSE]
       ELSE IF h = g THEN Edited(groups[g]) ELSE groups[h]]
  /\ Invalidate({g})

SplitGroup(g, created, fs) ==
  /\ StructuralEdit(g)
  /\ created \notin Existing
  /\ ProperPart(fs, g)
  /\ home' = [f \in File |-> IF f \in fs THEN created ELSE home[f]]
  /\ groups' = [groups EXCEPT ![g] = Edited(@),
       ![created] = [state |-> "CONFIRMED", named |-> FALSE, drafted |-> FALSE]]
  /\ Invalidate({g})

-----------------------------------------------------------------------------
(* Publication and cancellation *)

\* Mutation: the permission decision of the version is not consulted.
PublishableUncleared(g, v) ==
  /\ session \in {"READY_TO_PUBLISH", "PUBLISHING"}
  /\ published[g] = 0
  /\ groups[g].state = "READY"
  /\ Approved(g, v)

Publishable(g, v) ==
  /\ session \in {"READY_TO_PUBLISH", "PUBLISHING"}
  /\ published[g] = 0
  /\ groups[g].state = "READY"
  /\ \A h \in Existing : groups[h].state \in {"READY", "PUBLISHED"}
  /\ Approved(g, v)
  /\ asset[g][v].cleared

PublishGroup(g, v) ==
  /\ Publishable(g, v)
  /\ groups' = Regroup(g, "PUBLISHED")
  /\ published' = [published EXCEPT ![g] = v]
  /\ IF \A h \in Existing \ {g} : groups[h].state = "PUBLISHED"
       THEN session' = "PUBLISHED" /\ Advance("PUBLISHED")
       ELSE session' = "PUBLISHING" /\ Advance("REVIEWED")
  /\ UNCHANGED <<home, asset, jobs, runs, outputs, edits>>

Cancel ==
  /\ CanTransition(session, "CANCELLED")
  /\ session' = "CANCELLED"
  /\ jobs' = {}
  /\ UNCHANGED <<checkpoint, groups, home, asset, runs, outputs, published, edits>>

-----------------------------------------------------------------------------

Processes ==
  \/ \E out \in [Group -> Output] : StartProcessing(out)
  \/ \E g \in Group, out \in Output : ReprocessGroup(g, out)
  \/ \E j \in jobs :
       \/ PutProcessed(j)
       \/ \E qcPassed \in BOOLEAN : CompleteProcessing(j, qcPassed)
       \/ FailProcessing(j)

Reviews ==
  \E g \in Group, v \in Version :
    \/ \E cleared \in BOOLEAN : Approve(g, v, cleared)
    \/ Reject(g, v) \/ SelectVersion(g, v) \/ PublishGroup(g, v)

Edits ==
  \E g \in Group :
    \/ SetName(g) \/ SetPrimary(g)
    \/ \E named \in BOOLEAN : SaveDraft(g, named)
    \/ \E sources \in SUBSET Group : MergeGroups(g, sources)
    \/ \E fs \in SUBSET File :
         \/ IgnoreFiles(g, fs)
         \/ \E h \in Group : MoveFiles(g, h, fs) \/ SplitGroup(g, h, fs)

ReviewNext == Processes \/ Reviews \/ Edits \/ Cancel

ReviewSpec == ReviewInit /\ [][ReviewNext]_reviewVars

-----------------------------------------------------------------------------
(* Safety *)

(***************************************************************************)
(* No group is processed by two jobs at once, although three handlers      *)
(* queue, each looking at its own part of the session.                     *)
(***************************************************************************)
OneOpenJobPerGroup == \A g \in Group : Cardinality(OpenOf(g)) <= 1

(***************************************************************************)
(* A session in PROCESSING always has work in progress.  Nothing but the   *)
(* end of a job, or a cancellation, takes a session out of PROCESSING: one *)
(* left there without jobs would be stuck.                                 *)
(***************************************************************************)
ProcessingHasWork == session = "PROCESSING" => jobs # {}

(***************************************************************************)
(* A session that offers its groups for publication is settled: no job is  *)
(* open, and every group is published or ready with an approved current    *)
(* version (docs/DATABASE_SCHEMA.md:90).                                   *)
(***************************************************************************)
OfferedSessionIsSettled ==
  session \in {"READY_TO_PUBLISH", "PUBLISHING"} => jobs = {} /\ AllReady(groups, asset)

(***************************************************************************)
(* What is processed matches what is grouped: the versions that can still  *)
(* be reviewed, selected or published, and the jobs in flight, were made   *)
(* from exactly the members the group has now.                             *)
(***************************************************************************)
AssetsMatchMembers ==
  \A g \in Group :
    /\ \A v \in Versions(g) : asset[g][v].state # "RETIRED" => asset[g][v].made = Members(g)
    /\ \A j \in OpenOf(g) : j.made = Members(g)

(***************************************************************************)
(* The public lookup of a published group resolves, for ever: the version  *)
(* bound to its product stays approved, cleared and current, and the group *)
(* stays published (findApprovedPublicAsset requires all of it).           *)
(***************************************************************************)
PublicationsResolve ==
  \A g \in Group : published[g] # 0 =>
    /\ groups[g].state = "PUBLISHED"
    /\ Approved(g, published[g]) /\ asset[g][published[g]].cleared

(***************************************************************************)
(* Through moves, merges and splits every group keeps a member and every   *)
(* file that was not ignored stays in a group that exists.                 *)
(***************************************************************************)
GroupsPartitionFiles ==
  /\ \A g \in Existing : Members(g) # {}
  /\ \A f \in File : home[f] \in Existing \cup {NoGroup}

(***************************************************************************)
(* At most one version of a group is current, whatever order completions,  *)
(* selections and rejections come in: the partial unique index is never    *)
(* what stops a handler.                                                   *)
(***************************************************************************)
OneCurrentVersion ==
  \A g \in Group : Cardinality({v \in Version : Current(g, v)}) <= 1

(***************************************************************************)
(* The session only makes moves of ASSET_IMPORT_SESSION_TRANSITIONS        *)
(* (docs/API_SPECIFICATION.md:183).  Three handlers make two legal moves   *)
(* in one transaction: reprocessGroup and selectProcessedVersion through   *)
(* NEEDS_REVIEW, and publishGroup of an only group through PUBLISHING.     *)
(***************************************************************************)
TwoMoves ==
  {<<"READY_TO_PUBLISH", "PROCESSING">>, <<"PARTIALLY_FAILED", "READY_TO_PUBLISH">>,
   <<"READY_TO_PUBLISH", "PUBLISHED">>}

ReviewMovesAreLegal ==
  [][session' # session =>
       CanTransition(session, session') \/ <<session, session'>> \in TwoMoves]_reviewVars

(***************************************************************************)
(* An output that was reserved for a job can be written: its key is free   *)
(* or already holds the bytes the job will produce, so a reprocessing with *)
(* corrected settings can succeed.                                         *)
(***************************************************************************)
ReservedOutputIsWritable ==
  \A j \in jobs : outputs[j.group][j.version] \in {NoOutput, j.out}

(***************************************************************************)
(* The reviewer can approve the current QC-passed version of a group in a  *)
(* session under review (docs/DATABASE_SCHEMA.md:90).                      *)
(***************************************************************************)
CurrentVersionIsApprovable ==
  session = "NEEDS_REVIEW" =>
    \A g \in Group, v \in Version :
      asset[g][v].state = "QC_PENDING" /\ Current(g, v) => ~KeyTaken(asset[g][v].out)

=============================================================================
