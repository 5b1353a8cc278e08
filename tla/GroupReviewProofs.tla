------------------------- MODULE GroupReviewProofs -------------------------
(***************************************************************************)
(* Theorems about GroupReview, for any number of groups, files, runs and   *)
(* edits.                                                                  *)
(*                                                                         *)
(* ReviewInv is inductive whatever operators do.  Beyond the invariants    *)
(* that the runs check it says that the versions of a group are numbered   *)
(* without gaps, that the job in flight has the next number, and that a    *)
(* group id that is not materialized owns nothing.  OfferInv adds what     *)
(* holds if no version is selected while jobs are open.                    *)
(***************************************************************************)
EXTENDS GroupReview, FiniteSetTheorems, TLAPS

\* The versions of a group are 1..n; an open job is the only one of its group,
\* is counted by runs, and will store version n + 1.
Numbered ==
  \A g \in Group : \E n \in 0..runs[g] :
    /\ Versions(g) = 1..n
    /\ \A j \in OpenOf(g) : n < runs[g] /\ j.version = n + 1

OneJobEach == \A j, k \in jobs : j.group = k.group => j = k

AbsentOwnsNothing ==
  \A g \in Group \ Existing : Versions(g) = {} /\ runs[g] = 0

OneCurrentEach ==
  \A g \in Group : \A v, w \in Version : Current(g, v) /\ Current(g, w) => v = w

\* How versions, jobs and members of the groups fit together.
Structure ==
  /\ ReviewTypeOK
  /\ Numbered
  /\ OneJobEach
  /\ AbsentOwnsNothing
  /\ AssetsMatchMembers
  /\ GroupsPartitionFiles

ReviewInv == Structure /\ OneCurrentEach /\ ProcessingHasWork

\* Open jobs belong to a session under work, and a published group to one that
\* is being published, was, or was cancelled.
WorkIsUnderWay == jobs # {} => session \in {"PROCESSING", "PARTIALLY_FAILED"}

PublishedIsOffered ==
  GroupsIn({"PUBLISHED"}) # {} => session \in {"PUBLISHING", "PUBLISHED", "CANCELLED"}

OfferInv ==
  /\ WorkIsUnderWay
  /\ PublishedIsOffered
  /\ OfferedSessionIsSettled
  /\ PublicationsResolve

-----------------------------------------------------------------------------
(* Types, field by field *)

AssetRecord ==
  [state : AssetStates \cup {"NONE"}, current : BOOLEAN, cleared : BOOLEAN,
   out : Output \cup {NoOutput}, made : SUBSET File]

Assets == [Group -> [Version -> AssetRecord]]

GroupRecord == [state : GroupStates \cup {"ABSENT"}, named : BOOLEAN, drafted : BOOLEAN]

\* The type invariant, with the two record types named.
LEMMA TypesNamed ==
  ReviewTypeOK <=>
    /\ session \in SessionStates /\ checkpoint \in Checkpoints
    /\ groups \in [Group -> GroupRecord]
    /\ home \in [File -> Group \cup {NoGroup}]
    /\ asset \in Assets
    /\ jobs \subseteq JobRecord
    /\ runs \in [Group -> 0..MaxRuns]
    /\ outputs \in [Group -> [Version -> Output \cup {NoOutput}]]
    /\ published \in [Group -> 0..MaxRuns]
    /\ edits \in 0..MaxEdits
  BY DEF ReviewTypeOK, Assets, AssetRecord, GroupRecord

\* Checkpoints only advance within the contract's list.
LEMMA AdvanceType ==
  ASSUME NEW c \in Checkpoints, NEW d \in Checkpoints
  PROVE  AdvanceCheckpoint(c, d) \in Checkpoints
  BY DEF AdvanceCheckpoint

\* The markers that the handlers record.
LEMMA CheckpointNames ==
  /\ {"PROCESSED", "REVIEWED", "LABELED", "PUBLISHED", "GROUPED"} \subseteq Checkpoints
  BY DEF Checkpoints, CheckpointRank

\* A session that records a terminal failure moves to one of two states.
LEMMA FailureTypes ==
  \A s : TerminalFailureState(s) \in {"PARTIALLY_FAILED", "FAILED"}
  BY DEF TerminalFailureState

-----------------------------------------------------------------------------
(* What the shared updates do to the versions of the groups *)

\* Regroup changes the state of one group.
LEMMA RegroupEffect ==
  ASSUME groups \in [Group -> GroupRecord], NEW g \in Group,
         NEW state \in GroupStates \cup {"ABSENT"}, groups' = Regroup(g, state)
  PROVE  /\ groups' \in [Group -> GroupRecord]
         /\ groups'[g].state = state
         /\ \A h \in Group \ {g} : groups'[h] = groups[h]
  BY DEF Regroup, GroupRecord

\* invalidateGroupProcessing retires every stored version of its groups.
LEMMA InvalidateEffect ==
  ASSUME asset \in Assets, NEW gs, Invalidate(gs)
  PROVE  /\ asset' \in Assets
         /\ \A g \in Group \ gs : asset'[g] = asset[g]
         /\ \A g \in Group, v \in Version :
              /\ asset'[g][v].state = "NONE" <=> asset[g][v].state = "NONE"
              /\ Current(g, v)' => Current(g, v)
              /\ g \in gs => asset'[g][v].state \in {"NONE", "RETIRED"}
  <1>1. \A a \in AssetRecord :
          /\ Retired(a) \in AssetRecord
          /\ Retired(a).state = "NONE" <=> a.state = "NONE"
          /\ Retired(a).current => a.current
          /\ Retired(a).state \in {"NONE", "RETIRED"}
    BY DEF Retired, AssetRecord, AssetStates
  <1>2. \A g \in Group, v \in Version :
          asset'[g][v] = IF g \in gs THEN Retired(asset[g][v]) ELSE asset[g][v]
    BY DEF Invalidate
  <1>3. asset' \in Assets
    BY <1>1 DEF Invalidate, Assets
  <1>4. \A g \in Group \ gs : asset'[g] = asset[g]
    BY DEF Invalidate
  <1>5. \A g \in Group, v \in Version : asset[g][v] \in AssetRecord
    BY DEF Assets
  <1> QED
    BY <1>1, <1>2, <1>3, <1>4, <1>5 DEF Current

\* The selected or stored version is the only current one of its group.
LEMMA MakeCurrentEffect ==
  ASSUME asset \in Assets, NEW g \in Group, NEW v \in Version, NEW row \in AssetRecord,
         asset' = MakeCurrent(g, v, row)
  PROVE  /\ asset' \in Assets
         /\ asset'[g][v] = [row EXCEPT !.current = TRUE]
         /\ \A w \in Version \ {v} : asset'[g][w] = [asset[g][w] EXCEPT !.current = FALSE]
         /\ \A h \in Group \ {g} : asset'[h] = asset[h]
  <1>1. \A a \in AssetRecord, b \in BOOLEAN : [a EXCEPT !.current = b] \in AssetRecord
    BY DEF AssetRecord
  <1>2. [w \in Version |-> IF w = v THEN [row EXCEPT !.current = TRUE]
                           ELSE [asset[g][w] EXCEPT !.current = FALSE]] \in [Version -> AssetRecord]
    BY <1>1 DEF Assets
  <1> QED
    BY <1>2 DEF MakeCurrent, Assets

-----------------------------------------------------------------------------
(* Frames: what an action may do to the versions, jobs and members of a    *)
(* group without disturbing the parts of ReviewInv                         *)

\* Jobs may end and versions may be reviewed or retired; nothing else moves.
Quiet ==
  /\ jobs' \subseteq jobs
  /\ UNCHANGED <<runs, home>>
  /\ Existing' = Existing
  /\ \A g \in Group, v \in Version :
       /\ asset'[g][v].state = "NONE" <=> asset[g][v].state = "NONE"
       /\ asset'[g][v].made = asset[g][v].made
       /\ asset[g][v].state = "RETIRED" => asset'[g][v].state = "RETIRED"

\* Files change groups; a group whose members change has no open job and keeps
\* no version that is not retired.
Reshape ==
  /\ UNCHANGED <<jobs, runs>>
  /\ \A g \in Group, v \in Version : asset'[g][v].state = "NONE" <=> asset[g][v].state = "NONE"
  /\ \A g \in Group :
       \/ Members(g)' = Members(g) /\ asset'[g] = asset[g]
       \/ OpenOf(g) = {} /\ \A v \in Version : asset'[g][v].state \in {"NONE", "RETIRED"}

\* A step within Quiet keeps the groups fitting together.
LEMMA QuietKeepsStructure ==
  ASSUME Structure, ReviewTypeOK', Quiet
  PROVE  Structure'
  <1>1. \A g \in Group : /\ Versions(g)' = Versions(g)
                         /\ Members(g)' = Members(g)
                         /\ OpenOf(g)' \subseteq OpenOf(g)
    BY DEF Quiet, Versions, Members, OpenOf
  <1>2. Numbered'
    BY <1>1 DEF Structure, Numbered, Quiet
  <1>3. OneJobEach' /\ AbsentOwnsNothing'
    BY <1>1 DEF Structure, Quiet, OneJobEach, AbsentOwnsNothing
  <1>4. ASSUME NEW g \in Group
        PROVE  /\ \A v \in Versions(g)' :
                    asset'[g][v].state # "RETIRED" => asset'[g][v].made = Members(g)'
               /\ \A j \in OpenOf(g)' : j.made = Members(g)'
    <2>1. \A v \in Versions(g)' :
            asset'[g][v].state # "RETIRED" => asset'[g][v].made = Members(g)'
      <3> SUFFICES ASSUME NEW v \in Versions(g)', asset'[g][v].state # "RETIRED"
                   PROVE  asset'[g][v].made = Members(g)'
        OBVIOUS
      <3>1. v \in Version /\ v \in Versions(g)
        BY <1>1 DEF Versions
      <3>2. asset[g][v].state # "RETIRED" /\ asset'[g][v].made = asset[g][v].made
        BY <3>1 DEF Quiet
      <3> QED
        BY <1>1, <3>1, <3>2 DEF Structure, AssetsMatchMembers
    <2>2. \A j \in OpenOf(g)' : j.made = Members(g)'
      BY <1>1 DEF Structure, AssetsMatchMembers
    <2> QED
      BY <2>1, <2>2
  <1>5. AssetsMatchMembers'
    BY <1>4 DEF AssetsMatchMembers
  <1>6. GroupsPartitionFiles'
    BY <1>1 DEF Structure, GroupsPartitionFiles, Quiet, Existing
  <1> QED
    BY <1>2, <1>3, <1>5, <1>6 DEF Structure

\* So does one within Reshape, if what is left still covers the files.
LEMMA ReshapeKeepsStructure ==
  ASSUME Structure, ReviewTypeOK', Reshape, AbsentOwnsNothing', GroupsPartitionFiles'
  PROVE  Structure'
  <1>1. \A g \in Group : Versions(g)' = Versions(g) /\ OpenOf(g)' = OpenOf(g)
    BY DEF Reshape, Versions, OpenOf
  <1>2. Numbered' /\ OneJobEach'
    BY <1>1 DEF Structure, Numbered, OneJobEach, Reshape
  <1>3. ASSUME NEW g \in Group
        PROVE  /\ \A v \in Versions(g)' :
                    asset'[g][v].state # "RETIRED" => asset'[g][v].made = Members(g)'
               /\ \A j \in OpenOf(g)' : j.made = Members(g)'
    <2>1. CASE Members(g)' = Members(g) /\ asset'[g] = asset[g]
      BY <1>1, <2>1 DEF Structure, AssetsMatchMembers
    <2>2. CASE OpenOf(g) = {} /\ \A v \in Version : asset'[g][v].state \in {"NONE", "RETIRED"}
      BY <1>1, <2>2 DEF Versions
    <2> QED
      BY <2>1, <2>2 DEF Reshape
  <1>4. AssetsMatchMembers'
    BY <1>3 DEF AssetsMatchMembers
  <1> QED
    BY <1>2, <1>4 DEF Structure

\* A step that makes no version current keeps at most one current.
LEMMA CurrentShrinks ==
  ASSUME OneCurrentEach, \A g \in Group, v \in Version : Current(g, v)' => Current(g, v)
  PROVE  OneCurrentEach'
  BY DEF OneCurrentEach

-----------------------------------------------------------------------------
(* Queueing and storing a version *)

\* processingVersion returns the successor of the last version.
LEMMA NextVersionIs ==
  ASSUME NEW g \in Group, NEW n \in 0..MaxRuns, Versions(g) = 1..n
  PROVE  NextVersion(g) = n + 1
  <1> DEFINE Fits(v) == /\ \A w \in 1..n : w < v
                        /\ v = 1 \/ v - 1 \in 1..n
  <1>1. MaxRuns \in Nat
    BY ReviewAssumption
  <1>2. n + 1 \in 1..(MaxRuns + 1) /\ Fits(n + 1)
    BY <1>1
  <1>3. ASSUME NEW v \in 1..(MaxRuns + 1), Fits(v)
        PROVE  v = n + 1
    <2>1. CASE n = 0
      BY <1>1, <1>3, <2>1
    <2>2. CASE n # 0
      <3>1. n \in 1..n
        BY <1>1, <2>2
      <3>2. n < v
        BY <1>3, <3>1
      <3> QED
        BY <1>1, <1>3, <3>2
    <2> QED
      BY <2>1, <2>2
  <1> QED
    BY <1>2, <1>3 DEF NextVersion

\* A group that can run has room for one more version, and its new job is
\* well formed and numbered after the stored versions.
LEMMA NewJobIsNext ==
  ASSUME Structure, NEW g \in Group, NEW out \in Output, CanRun(g, out)
  PROVE  /\ runs[g] + 1 \in 1..MaxRuns
         /\ NewJob(g, out) \in JobRecord
         /\ NewJob(g, out).group = g
         /\ NewJob(g, out).made = Members(g)
         /\ \E n \in 0..runs[g] : Versions(g) = 1..n /\ NewJob(g, out).version = n + 1
  <1>1. MaxRuns \in Nat /\ runs[g] \in 0..MaxRuns /\ runs[g] < MaxRuns
    BY ReviewAssumption, TypesNamed DEF Structure, CanRun
  <1>2. PICK n \in 0..runs[g] : Versions(g) = 1..n
    BY DEF Structure, Numbered
  <1>3. NextVersion(g) = n + 1
    BY <1>1, <1>2, NextVersionIs
  <1>4. Members(g) \in SUBSET File
    BY DEF Members
  <1>5. NewJob(g, out) \in JobRecord
    BY <1>1, <1>2, <1>3, <1>4 DEF NewJob, JobRecord, Version
  <1> QED
    BY <1>1, <1>2, <1>3, <1>5 DEF NewJob

\* Queueing one job for each of a set of groups that have none open keeps the
\* structure.
LEMMA QueueKeepsStructure ==
  ASSUME Structure, NEW gs \in SUBSET Group, NEW out, Queue(gs, out),
         \A g \in gs : /\ OpenOf(g) = {} /\ out[g] \in Output /\ CanRun(g, out[g])
                       /\ g \in Existing,
         groups' \in [Group -> GroupRecord], Existing' = Existing,
         session' \in SessionStates,
         UNCHANGED <<checkpoint, home, asset, outputs, published, edits>>
  PROVE  Structure'
  <1> DEFINE New(g) == NewJob(g, out[g])
  <1>1. \A g \in gs : /\ runs[g] + 1 \in 1..MaxRuns
                      /\ New(g) \in JobRecord /\ New(g).group = g
                      /\ New(g).made = Members(g)
                      /\ \E n \in 0..runs[g] : Versions(g) = 1..n /\ New(g).version = n + 1
    BY NewJobIsNext
  <1> HIDE DEF New
  <1>2. jobs' = jobs \cup {New(g) : g \in gs}
    BY DEF Queue, New
  <1>3. runs' \in [Group -> 0..MaxRuns]
    BY <1>1, TypesNamed, ReviewAssumption DEF Queue, Structure
  <1>4. ReviewTypeOK'
    BY <1>1, <1>2, <1>3, TypesNamed DEF Structure, ReviewTypeOK, GroupRecord
  <1>5. \A g \in Group : Versions(g)' = Versions(g) /\ Members(g)' = Members(g)
    BY DEF Versions, Members
  <1>6. ASSUME NEW g \in gs
        PROVE  OpenOf(g)' = {New(g)} /\ runs'[g] = runs[g] + 1
    BY <1>1, <1>2, SMTT(30) DEF OpenOf, Queue
  <1>7. ASSUME NEW g \in Group \ gs
        PROVE  OpenOf(g)' = OpenOf(g) /\ runs'[g] = runs[g]
    BY <1>1, <1>2 DEF OpenOf, Queue
  <1>8. Numbered'
    <2> SUFFICES ASSUME NEW g \in Group
                 PROVE  \E n \in 0..runs'[g] :
                          /\ Versions(g)' = 1..n
                          /\ \A j \in OpenOf(g)' : n < runs'[g] /\ j.version = n + 1
      BY DEF Numbered
    <2>1. CASE g \in gs
      <3>1. PICK n \in 0..runs[g] : Versions(g) = 1..n /\ New(g).version = n + 1
        BY <1>1, <2>1
      <3>2. runs[g] \in Nat
        BY TypesNamed, ReviewAssumption DEF Structure
      <3>3. n \in 0..runs'[g] /\ n < runs'[g]
        BY <1>6, <2>1, <3>1, <3>2
      <3> QED
        BY <1>5, <1>6, <2>1, <3>1, <3>3
    <2>2. CASE g \notin gs
      BY <1>5, <1>7, <2>2 DEF Structure, Numbered
    <2> QED
      BY <2>1, <2>2
  <1>9. OneJobEach'
    <2> SUFFICES ASSUME NEW j \in jobs', NEW k \in jobs', j.group = k.group
                 PROVE  j = k
      BY DEF OneJobEach
    <2>1. j.group \in Group /\ j \in OpenOf(j.group)' /\ k \in OpenOf(j.group)'
      BY <1>4 DEF OpenOf, ReviewTypeOK, JobRecord
    <2>2. CASE j.group \in gs
      BY <1>6, <2>1, <2>2
    <2>3. CASE j.group \notin gs
      BY <1>7, <2>1, <2>3 DEF Structure, OneJobEach, OpenOf
    <2> QED
      BY <2>2, <2>3
  <1>10. AbsentOwnsNothing'
    BY <1>5, <1>7 DEF Structure, AbsentOwnsNothing
  <1>11. AssetsMatchMembers'
    BY <1>1, <1>5, <1>6, <1>7 DEF Structure, AssetsMatchMembers
  <1>12. GroupsPartitionFiles'
    <2>1. Existing \subseteq Group
      BY DEF Existing
    <2> QED
      BY <1>5, <2>1 DEF Structure, GroupsPartitionFiles
  <1> QED
    BY <1>4, <1>8, <1>9, <1>10, <1>11, <1>12 DEF Structure

\* A version stored without making it current.
StoreOnly(g, v, row) == [asset EXCEPT ![g][v] = row]

\* completeJob stores the version; one that did not pass is not current.
LEMMA StoreOnlyEffect ==
  ASSUME asset \in Assets, NEW g \in Group, NEW v \in Version, NEW row \in AssetRecord,
         asset' = StoreOnly(g, v, row)
  PROVE  /\ asset' \in Assets
         /\ asset'[g][v] = row
         /\ \A h \in Group, w \in Version : h # g \/ w # v => asset'[h][w] = asset[h][w]
  BY DEF StoreOnly, Assets

\* One that passed is the only current one, and no other version changes.
LEMMA StoreCurrentEffect ==
  ASSUME asset \in Assets, NEW g \in Group, NEW v \in Version, NEW row \in AssetRecord,
         asset' = MakeCurrent(g, v, row)
  PROVE  /\ asset' \in Assets
         /\ asset'[g][v].state = row.state /\ asset'[g][v].made = row.made
         /\ asset'[g][v].cleared = row.cleared /\ asset'[g][v].current
         /\ \A h \in Group, w \in Version : h # g \/ w # v =>
              /\ asset'[h][w].state = asset[h][w].state
              /\ asset'[h][w].made = asset[h][w].made
              /\ asset'[h][w].cleared = asset[h][w].cleared
              /\ asset'[h][w].current => asset[h][w].current
         /\ \A w \in Version : asset'[g][w].current => w = v
         /\ \A h \in Group \ {g} : asset'[h] = asset[h]
  <1>1. /\ asset' \in Assets
        /\ asset'[g][v] = [row EXCEPT !.current = TRUE]
        /\ \A w \in Version \ {v} : asset'[g][w] = [asset[g][w] EXCEPT !.current = FALSE]
        /\ \A h \in Group \ {g} : asset'[h] = asset[h]
    BY MakeCurrentEffect
  <1>2. /\ asset'[g][v].state = row.state /\ asset'[g][v].made = row.made
        /\ asset'[g][v].cleared = row.cleared /\ asset'[g][v].current
    BY <1>1 DEF AssetRecord
  <1>3. ASSUME NEW w \in Version \ {v}
        PROVE  /\ asset'[g][w].state = asset[g][w].state
               /\ asset'[g][w].made = asset[g][w].made
               /\ asset'[g][w].cleared = asset[g][w].cleared
               /\ ~asset'[g][w].current
    <2>1. asset[g][w] \in AssetRecord
      BY DEF Assets
    <2>2. asset'[g][w] = [asset[g][w] EXCEPT !.current = FALSE]
      BY <1>1
    <2> QED
      BY <2>1, <2>2 DEF AssetRecord
  <1> QED
    BY <1>1, <1>2, <1>3

\* applyProcessGroupResult: the version stored is the successor of the last
\* one, and was made from the members the group still has.
LEMMA CompleteKeepsInv ==
  ASSUME ReviewInv, NEW j \in jobs, NEW qcPassed \in BOOLEAN,
         CompleteProcessing(j, qcPassed)
  PROVE  ReviewInv'
  <1> USE DEF ReviewInv
  <1> DEFINE g == j.group
             v == j.version
             row == [state |-> IF qcPassed THEN "QC_PENDING" ELSE "QC_FAILED",
                     current |-> FALSE, cleared |-> FALSE, out |-> j.out, made |-> j.made]
  <1>1. /\ g \in Group /\ v \in Version /\ j.out \in Output /\ j.made \in SUBSET File
    BY TypesNamed DEF Structure, JobRecord
  <1>2. row \in AssetRecord /\ row.current = FALSE /\ row.state # "NONE" /\ row.made = j.made
    BY <1>1 DEF AssetRecord, AssetStates
  <1>3. /\ asset' = MakeCurrent(g, v, row) \/ asset' = StoreOnly(g, v, row)
        /\ asset[g][v].state = "NONE"
        /\ jobs' = jobs \ {j}
        /\ UNCHANGED <<home, runs, outputs, published, edits>>
    BY DEF CompleteProcessing, StoreOnly
  <1>4. asset \in Assets
    BY TypesNamed DEF Structure
  <1> HIDE DEF row
  <1>5. /\ asset' \in Assets
        /\ asset'[g][v].state = row.state /\ asset'[g][v].made = row.made
        /\ \A h \in Group, w \in Version : h # g \/ w # v =>
             /\ asset'[h][w].state = asset[h][w].state
             /\ asset'[h][w].made = asset[h][w].made
             /\ asset'[h][w].current => asset[h][w].current
        /\ \/ \A w \in Version : asset'[g][w].current => w = v
           \/ ~asset'[g][v].current
    <2>1. CASE asset' = MakeCurrent(g, v, row)
      BY <1>1, <1>2, <1>4, <2>1, StoreCurrentEffect
    <2>2. CASE asset' = StoreOnly(g, v, row)
      <3>1. /\ asset' \in Assets
            /\ asset'[g][v] = row
            /\ \A h \in Group, w \in Version : h # g \/ w # v => asset'[h][w] = asset[h][w]
        BY <1>1, <1>2, <1>4, <2>2, StoreOnlyEffect
      <3> QED
        BY <1>2, <3>1
    <2> QED
      BY <1>3, <2>1, <2>2
  <1>6. /\ groups' \in [Group -> GroupRecord]
        /\ groups'[g].state # "ABSENT"
        /\ \A h \in Group \ {g} : groups'[h] = groups[h]
    BY <1>1, RegroupEffect, TypesNamed DEF CompleteProcessing, Structure, GroupStates
  <1>7. groups[g].state # "ABSENT"
    <2>1. PICK f \in j.made : home[f] = g
      BY DEF CompleteProcessing
    <2> QED
      BY <1>1, <2>1, ReviewAssumption DEF Structure, GroupsPartitionFiles, Existing
  <1>8. Existing' = Existing
    BY <1>1, <1>6, <1>7 DEF Existing
  <1>9. checkpoint' \in Checkpoints
    BY AdvanceType, CheckpointNames, TypesNamed DEF CompleteProcessing, Advance, Structure
  <1>10. session' \in SessionStates
    BY TypesNamed DEF CompleteProcessing, Structure, SessionStates
  <1>11. ReviewTypeOK'
    <2>1. /\ home' \in [File -> Group \cup {NoGroup}]
          /\ jobs' \subseteq JobRecord
          /\ runs' \in [Group -> 0..MaxRuns]
          /\ outputs' \in [Group -> [Version -> Output \cup {NoOutput}]]
          /\ published' \in [Group -> 0..MaxRuns]
          /\ edits' \in 0..MaxEdits
      BY <1>3, TypesNamed DEF Structure
    <2> QED
      BY <1>5, <1>6, <1>9, <1>10, <2>1 DEF ReviewTypeOK, Assets, AssetRecord, GroupRecord
  <1>12. \A h \in Group \ {g} : Versions(h)' = Versions(h)
    BY <1>5 DEF Versions
  <1>13. Versions(g)' = Versions(g) \cup {v}
    BY <1>1, <1>2, <1>5 DEF Versions
  <1>14. OpenOf(g)' = {} /\ \A h \in Group \ {g} : OpenOf(h)' = OpenOf(h)
    BY <1>3 DEF OpenOf, Structure, OneJobEach
  <1>15. Numbered'
    <2> SUFFICES ASSUME NEW h \in Group
                 PROVE  \E n \in 0..runs'[h] :
                          /\ Versions(h)' = 1..n
                          /\ \A k \in OpenOf(h)' : n < runs'[h] /\ k.version = n + 1
      BY DEF Numbered
    <2>1. CASE h = g
      <3>1. PICK n \in 0..runs[g] : /\ Versions(g) = 1..n
                                    /\ \A k \in OpenOf(g) : n < runs[g] /\ k.version = n + 1
        BY <1>1 DEF Structure, Numbered
      <3>2. n < runs[g] /\ v = n + 1
        BY <3>1 DEF OpenOf
      <3>3. runs[g] \in Nat
        BY <1>1, TypesNamed, ReviewAssumption DEF Structure
      <3>4. Versions(g)' = 1..(n + 1) /\ n + 1 \in 0..runs'[g]
        BY <1>3, <1>13, <3>1, <3>2, <3>3
      <3> QED
        BY <1>14, <2>1, <3>4
    <2>2. CASE h # g
      BY <1>3, <1>12, <1>14, <2>2 DEF Structure, Numbered
    <2> QED
      BY <2>1, <2>2
  <1>16. OneJobEach'
    BY <1>3 DEF Structure, OneJobEach
  <1>17. AbsentOwnsNothing'
    BY <1>1, <1>3, <1>7, <1>8, <1>12 DEF Structure, AbsentOwnsNothing, Existing
  <1>18. GroupsPartitionFiles'
    <2>1. Existing \subseteq Group /\ \A h \in Group : Members(h)' = Members(h)
      BY <1>3 DEF Existing, Members
    <2> QED
      BY <1>3, <1>8, <2>1 DEF Structure, GroupsPartitionFiles
  <1>19. AssetsMatchMembers'
    <2> SUFFICES ASSUME NEW h \in Group
                 PROVE  /\ \A w \in Versions(h)' :
                             asset'[h][w].state # "RETIRED" => asset'[h][w].made = Members(h)'
                        /\ \A k \in OpenOf(h)' : k.made = Members(h)'
      BY DEF AssetsMatchMembers
    <2>1. Members(h)' = Members(h)
      BY <1>3 DEF Members
    <2>2. \A k \in OpenOf(h)' : k.made = Members(h)'
      BY <1>14, <2>1 DEF Structure, AssetsMatchMembers
    <2>3. ASSUME NEW w \in Versions(h)', asset'[h][w].state # "RETIRED"
          PROVE  asset'[h][w].made = Members(h)'
      <3>1. w \in Version
        BY DEF Versions
      <3>2. CASE h = g /\ w = v
        <4>1. j.made = Members(g)
          BY <1>1 DEF Structure, AssetsMatchMembers, OpenOf
        <4> QED
          BY <1>2, <1>5, <2>1, <3>2, <4>1
      <3>3. CASE h # g \/ w # v
        <4>1. w \in Versions(h)
          BY <1>5, <2>3, <3>1, <3>3 DEF Versions
        <4> QED
          BY <1>5, <2>1, <2>3, <3>1, <3>3, <4>1 DEF Structure, AssetsMatchMembers
      <3> QED
        BY <3>2, <3>3
    <2> QED
      BY <2>2, <2>3
  <1>20. OneCurrentEach'
    BY <1>1, <1>5 DEF OneCurrentEach, Current
  <1>21. ProcessingHasWork'
    <2>1. CASE jobs = {j}
      BY <2>1 DEF CompleteProcessing, ProcessingHasWork
    <2>2. CASE jobs # {j}
      BY <1>3, <2>2 DEF ProcessingHasWork
    <2> QED
      BY <2>1, <2>2
  <1> QED
    BY <1>11, <1>15, <1>16, <1>17, <1>18, <1>19, <1>20, <1>21 DEF Structure

-----------------------------------------------------------------------------
(* The actions, one lemma each *)

\* Landing the output touches no row.
LEMMA PutKeepsInv ==
  ASSUME ReviewInv, NEW j \in jobs, PutProcessed(j)
  PROVE  ReviewInv'
  <1>1. j.group \in Group /\ j.version \in Version /\ j.out \in Output
    BY TypesNamed DEF ReviewInv, Structure, JobRecord
  <1>2. outputs' \in [Group -> [Version -> Output \cup {NoOutput}]]
    BY <1>1, TypesNamed DEF ReviewInv, Structure, PutProcessed
  <1>3. ReviewTypeOK'
    BY <1>2, TypesNamed DEF ReviewInv, Structure, PutProcessed, ReviewTypeOK
  <1>4. Quiet
    BY DEF PutProcessed, Quiet, Existing
  <1>5. OneCurrentEach' /\ ProcessingHasWork'
    BY DEF ReviewInv, PutProcessed, OneCurrentEach, Current, ProcessingHasWork
  <1> QED
    BY <1>3, <1>4, <1>5, QuietKeepsStructure DEF ReviewInv

\* A job belongs to a group that is materialized: it has a run.
LEMMA JobsHaveGroups ==
  ASSUME Structure, NEW j \in jobs
  PROVE  j.group \in Existing
  <1>1. j.group \in Group /\ j \in OpenOf(j.group)
    BY TypesNamed DEF Structure, JobRecord, OpenOf
  <1>2. PICK n \in 0..runs[j.group] : n < runs[j.group]
    BY <1>1 DEF Structure, Numbered
  <1>3. runs[j.group] \in Nat
    BY <1>1, TypesNamed, ReviewAssumption DEF Structure
  <1> QED
    BY <1>1, <1>2, <1>3 DEF Structure, AbsentOwnsNothing

\* Regroup of a materialized group to a state of the contract keeps the set of
\* materialized groups.
LEMMA RegroupKeepsExisting ==
  ASSUME groups \in [Group -> GroupRecord], NEW g \in Existing,
         NEW state \in GroupStates, groups' = Regroup(g, state)
  PROVE  groups' \in [Group -> GroupRecord] /\ Existing' = Existing
  <1>1. g \in Group /\ groups[g].state # "ABSENT"
    BY DEF Existing
  <1>2. /\ groups' \in [Group -> GroupRecord]
        /\ groups'[g].state = state
        /\ \A h \in Group \ {g} : groups'[h] = groups[h]
    BY <1>1, RegroupEffect
  <1> QED
    BY <1>1, <1>2 DEF Existing, GroupStates

\* failJob leaves the session PARTIALLY_FAILED or FAILED, never PROCESSING.
LEMMA FailKeepsInv ==
  ASSUME ReviewInv, NEW j \in jobs, FailProcessing(j)
  PROVE  ReviewInv'
  <1>1. session' \in {"PARTIALLY_FAILED", "FAILED"}
    BY FailureTypes DEF FailProcessing
  <1>2. groups' \in [Group -> GroupRecord] /\ Existing' = Existing
    <2>1. CASE groups' = groups
      BY <2>1, TypesNamed DEF ReviewInv, Structure, Existing
    <2>2. CASE groups' = Regroup(j.group, "QC_FAILED")
      BY <2>2, TypesNamed, JobsHaveGroups, RegroupKeepsExisting DEF ReviewInv, Structure, GroupStates
    <2> QED
      BY <2>1, <2>2 DEF FailProcessing
  <1>3. ReviewTypeOK'
    BY <1>1, <1>2, TypesNamed DEF ReviewInv, Structure, FailProcessing, ReviewTypeOK, GroupRecord,
       SessionStates
  <1>4. Quiet
    BY <1>2 DEF FailProcessing, Quiet
  <1>5. OneCurrentEach' /\ ProcessingHasWork'
    BY <1>1 DEF ReviewInv, FailProcessing, OneCurrentEach, Current, ProcessingHasWork
  <1> QED
    BY <1>3, <1>4, <1>5, QuietKeepsStructure DEF ReviewInv

\* refreshSessionReviewState decides on one of three states.
LEMMA RefreshStates ==
  ASSUME NEW from, RefreshSession(from)
  PROVE  session' \in {"NEEDS_REVIEW", "PUBLISHING", "READY_TO_PUBLISH"}
  BY DEF RefreshSession, ReviewState

\* A version that is stored belongs to a materialized group.
LEMMA VersionsHaveGroups ==
  ASSUME Structure, NEW g \in Group, NEW v \in Version, asset[g][v].state # "NONE"
  PROVE  g \in Existing
  BY DEF Structure, AbsentOwnsNothing, Versions

\* What the three review handlers have in common.
LEMMA ReviewedKeepsInv ==
  ASSUME ReviewInv, NEW g \in Existing, NEW state \in GroupStates,
         groups' = Regroup(g, state),
         session' \in {"NEEDS_REVIEW", "PUBLISHING", "READY_TO_PUBLISH"},
         checkpoint' \in Checkpoints, asset' \in Assets, OneCurrentEach',
         \A h \in Group, w \in Version :
           /\ asset'[h][w].state = "NONE" <=> asset[h][w].state = "NONE"
           /\ asset'[h][w].made = asset[h][w].made
           /\ asset[h][w].state = "RETIRED" => asset'[h][w].state = "RETIRED",
         UNCHANGED <<home, jobs, runs, outputs, published, edits>>
  PROVE  ReviewInv'
  <1>1. groups' \in [Group -> GroupRecord] /\ Existing' = Existing
    BY RegroupKeepsExisting, TypesNamed DEF ReviewInv, Structure
  <1>2. ReviewTypeOK'
    BY <1>1, TypesNamed DEF ReviewInv, Structure, ReviewTypeOK, GroupRecord, SessionStates,
       Assets, AssetRecord
  <1>3. Quiet
    BY <1>1 DEF Quiet
  <1>4. ProcessingHasWork'
    BY DEF ProcessingHasWork
  <1> QED
    BY <1>2, <1>3, <1>4, QuietKeepsStructure DEF ReviewInv

\* An approval changes one stored version that was current already.
LEMMA ApproveKeepsInv ==
  ASSUME ReviewInv, NEW g \in Group, NEW v \in Version, NEW cleared \in BOOLEAN,
         Approve(g, v, cleared)
  PROVE  ReviewInv'
  <1>1. g \in Existing
    BY VersionsHaveGroups DEF Approve, ReviewInv
  <1>2. asset \in Assets
    BY TypesNamed DEF ReviewInv, Structure
  <1>3. /\ asset' \in Assets
        /\ asset'[g][v].state = "APPROVED"
        /\ asset'[g][v].made = asset[g][v].made
        /\ asset'[g][v].current = asset[g][v].current
        /\ \A h \in Group, w \in Version : h # g \/ w # v => asset'[h][w] = asset[h][w]
    <2>1. [asset[g][v] EXCEPT !.state = "APPROVED", !.cleared = cleared] \in AssetRecord
      <3>1. \A a \in AssetRecord : [a EXCEPT !.state = "APPROVED", !.cleared = cleared] \in AssetRecord
        BY DEF AssetRecord, AssetStates
      <3> QED
        BY <1>2, <3>1 DEF Assets
    <2>2. asset' = [asset EXCEPT ![g][v] = [asset[g][v] EXCEPT !.state = "APPROVED",
                                                               !.cleared = cleared]]
      BY <1>2 DEF Approve, Assets, AssetRecord
    <2>3. asset'[g][v] = [asset[g][v] EXCEPT !.state = "APPROVED", !.cleared = cleared]
      BY <1>2, <2>2 DEF Assets
    <2>4. /\ asset' \in Assets
          /\ \A h \in Group, w \in Version : h # g \/ w # v => asset'[h][w] = asset[h][w]
      BY <1>2, <2>1, <2>2 DEF Assets
    <2>5. asset[g][v] \in AssetRecord
      BY <1>2 DEF Assets
    <2> QED
      BY <2>3, <2>4, <2>5 DEF AssetRecord
  <1>4. checkpoint' \in Checkpoints
    BY AdvanceType, CheckpointNames, TypesNamed DEF Approve, Advance, ReviewInv, Structure
  <1>5. OneCurrentEach'
    BY <1>3, CurrentShrinks DEF ReviewInv, Current
  <1>6. \A h \in Group, w \in Version :
           /\ asset'[h][w].state = "NONE" <=> asset[h][w].state = "NONE"
           /\ asset'[h][w].made = asset[h][w].made
           /\ asset[h][w].state = "RETIRED" => asset'[h][w].state = "RETIRED"
    BY <1>3 DEF Approve
  <1> QED
    BY <1>1, <1>3, <1>4, <1>5, <1>6, RefreshStates, ReviewedKeepsInv DEF Approve, GroupStates

\* A rejection retires one version.
LEMMA RejectKeepsInv ==
  ASSUME ReviewInv, NEW g \in Group, NEW v \in Version, Reject(g, v)
  PROVE  ReviewInv'
  <1>1. g \in Existing
    BY VersionsHaveGroups DEF Reject, ReviewInv
  <1>2. asset \in Assets
    BY TypesNamed DEF ReviewInv, Structure
  <1>3. /\ asset' \in Assets
        /\ asset'[g][v].state = "RETIRED"
        /\ asset'[g][v].made = asset[g][v].made
        /\ asset'[g][v].current = FALSE
        /\ \A h \in Group, w \in Version : h # g \/ w # v => asset'[h][w] = asset[h][w]
    <2>1. [asset[g][v] EXCEPT !.state = "RETIRED", !.current = FALSE] \in AssetRecord
      <3>1. \A a \in AssetRecord : [a EXCEPT !.state = "RETIRED", !.current = FALSE] \in AssetRecord
        BY DEF AssetRecord, AssetStates
      <3> QED
        BY <1>2, <3>1 DEF Assets
    <2>2. asset' = [asset EXCEPT ![g][v] = [asset[g][v] EXCEPT !.state = "RETIRED",
                                                               !.current = FALSE]]
      BY <1>2 DEF Reject, Assets, AssetRecord
    <2>3. asset'[g][v] = [asset[g][v] EXCEPT !.state = "RETIRED", !.current = FALSE]
      BY <1>2, <2>2 DEF Assets
    <2>4. /\ asset' \in Assets
          /\ \A h \in Group, w \in Version : h # g \/ w # v => asset'[h][w] = asset[h][w]
      BY <1>2, <2>1, <2>2 DEF Assets
    <2>5. asset[g][v] \in AssetRecord
      BY <1>2 DEF Assets
    <2> QED
      BY <2>3, <2>4, <2>5 DEF AssetRecord
  <1>4. checkpoint' \in Checkpoints
    BY AdvanceType, CheckpointNames, TypesNamed DEF Reject, Advance, ReviewInv, Structure
  <1>5. OneCurrentEach'
    BY <1>3, CurrentShrinks DEF ReviewInv, Current
  <1>6. \A h \in Group, w \in Version :
           /\ asset'[h][w].state = "NONE" <=> asset[h][w].state = "NONE"
           /\ asset'[h][w].made = asset[h][w].made
           /\ asset[h][w].state = "RETIRED" => asset'[h][w].state = "RETIRED"
    BY <1>3 DEF Reject
  <1> QED
    BY <1>1, <1>3, <1>4, <1>5, <1>6, RefreshStates, ReviewedKeepsInv DEF Reject, GroupStates

\* A selection moves the current mark within one group.
LEMMA SelectKeepsInv ==
  ASSUME ReviewInv, NEW g \in Group, NEW v \in Version, SelectVersion(g, v)
  PROVE  ReviewInv'
  <1>1. g \in Existing
    BY DEF SelectVersion
  <1>2. asset \in Assets
    BY TypesNamed DEF ReviewInv, Structure
  <1>3. asset[g][v] \in AssetRecord
    BY <1>2 DEF Assets
  <1>4. /\ asset' \in Assets
        /\ \A h \in Group, w \in Version :
             /\ asset'[h][w].state = asset[h][w].state
             /\ asset'[h][w].made = asset[h][w].made
             /\ h # g => (asset'[h][w].current => asset[h][w].current)
        /\ \A w \in Version : asset'[g][w].current => w = v
    <2>1. asset' = MakeCurrent(g, v, asset[g][v])
      BY DEF SelectVersion
    <2> QED
      BY <1>2, <1>3, <2>1, StoreCurrentEffect
  <1>5. OneCurrentEach'
    BY <1>4 DEF ReviewInv, OneCurrentEach, Current
  <1> DEFINE state == IF asset[g][v].state = "QC_FAILED" THEN "QC_FAILED" ELSE "READY"
  <1>6. state \in GroupStates /\ groups' = Regroup(g, state)
    BY DEF SelectVersion, GroupStates
  <1>7. checkpoint' \in Checkpoints
    BY TypesNamed DEF SelectVersion, ReviewInv, Structure
  <1> HIDE DEF state
  <1> QED
    BY <1>1, <1>4, <1>5, <1>6, <1>7, RefreshStates, ReviewedKeepsInv DEF SelectVersion

\* A publication changes a group and the session only.
LEMMA PublishKeepsInv ==
  ASSUME ReviewInv, NEW g \in Group, NEW v \in Version, PublishGroup(g, v)
  PROVE  ReviewInv'
  <1>1. g \in Existing
    BY DEF PublishGroup, Publishable, Existing
  <1>2. groups' \in [Group -> GroupRecord] /\ Existing' = Existing
    BY <1>1, RegroupKeepsExisting, TypesNamed DEF ReviewInv, Structure, PublishGroup, GroupStates
  <1>3. published' \in [Group -> 0..MaxRuns]
    BY TypesNamed, ReviewAssumption DEF ReviewInv, Structure, PublishGroup, Version
  <1>4. session' \in {"PUBLISHED", "PUBLISHING"} /\ checkpoint' \in Checkpoints
    BY AdvanceType, CheckpointNames, TypesNamed DEF PublishGroup, Advance, ReviewInv, Structure
  <1>5. ReviewTypeOK'
    BY <1>2, <1>3, <1>4, TypesNamed DEF ReviewInv, Structure, PublishGroup, ReviewTypeOK,
       GroupRecord, SessionStates
  <1>6. Quiet
    BY <1>2 DEF Quiet, PublishGroup
  <1>7. OneCurrentEach' /\ ProcessingHasWork'
    BY <1>4 DEF ReviewInv, PublishGroup, OneCurrentEach, Current, ProcessingHasWork
  <1> QED
    BY <1>5, <1>6, <1>7, QuietKeepsStructure DEF ReviewInv

\* Cancelling drops the jobs and keeps everything else.
LEMMA CancelKeepsInv ==
  ASSUME ReviewInv, Cancel
  PROVE  ReviewInv'
  <1>1. ReviewTypeOK'
    BY TypesNamed DEF ReviewInv, Structure, Cancel, ReviewTypeOK, SessionStates
  <1>2. Quiet
    BY DEF Quiet, Cancel, Existing
  <1>3. OneCurrentEach' /\ ProcessingHasWork'
    BY DEF ReviewInv, Cancel, OneCurrentEach, Current, ProcessingHasWork
  <1> QED
    BY <1>1, <1>2, <1>3, QuietKeepsStructure DEF ReviewInv

\* startProcessing finds no open job, so each eligible group gets its only one.
LEMMA StartKeepsInv ==
  ASSUME ReviewInv, NEW out \in [Group -> Output], StartProcessing(out)
  PROVE  ReviewInv'
  <1> DEFINE gs == GroupsIn({"CONFIRMED", "NAMED", "QC_FAILED"})
  <1>1. gs \in SUBSET Group /\ \A g \in gs : g \in Existing /\ CanRun(g, out[g]) /\ OpenOf(g) = {}
    BY DEF StartProcessing, GroupsIn, Existing, OpenOf
  <1>2. Queue(gs, out) /\ gs # {} /\ session' = "PROCESSING"
    BY DEF StartProcessing
  <1>3. groups' = [g \in Group |->
                     IF g \in gs THEN [groups[g] EXCEPT !.state = "PROCESSED"] ELSE groups[g]]
    BY DEF StartProcessing
  <1> HIDE DEF gs
  <1>4. groups \in [Group -> GroupRecord]
    BY TypesNamed DEF ReviewInv, Structure
  <1>5. \A r \in GroupRecord : /\ [r EXCEPT !.state = "PROCESSED"] \in GroupRecord
                               /\ [r EXCEPT !.state = "PROCESSED"].state = "PROCESSED"
    BY DEF GroupRecord, GroupStates
  <1>6. groups' \in [Group -> GroupRecord]
    BY <1>3, <1>4, <1>5
  <1>7. \A g \in Group : groups'[g].state = IF g \in gs THEN "PROCESSED" ELSE groups[g].state
    BY <1>3, <1>4, <1>5
  <1>8. Existing' = Existing
    BY <1>1, <1>7 DEF Existing
  <1>9. Structure'
    <2>1. session' \in SessionStates
      BY <1>2 DEF SessionStates
    <2>2. UNCHANGED <<checkpoint, home, asset, outputs, published, edits>>
      BY DEF StartProcessing
    <2>3. \A g \in gs : OpenOf(g) = {} /\ out[g] \in Output /\ CanRun(g, out[g]) /\ g \in Existing
      BY <1>1
    <2> QED
      BY <1>1, <1>2, <1>6, <1>8, <2>1, <2>2, <2>3, QueueKeepsStructure DEF ReviewInv
  <1>10. OneCurrentEach'
    BY DEF ReviewInv, StartProcessing, OneCurrentEach, Current
  <1>11. ProcessingHasWork'
    BY <1>2 DEF ProcessingHasWork, Queue
  <1> QED
    BY <1>9, <1>10, <1>11 DEF ReviewInv

\* reprocessGroup looks at its own group's jobs only, and that is enough.
LEMMA ReprocessKeepsInv ==
  ASSUME ReviewInv, NEW g \in Group, NEW out \in Output, ReprocessGroup(g, out)
  PROVE  ReviewInv'
  <1>1. g \in Existing /\ OpenOf(g) = {} /\ CanRun(g, out)
    BY DEF ReprocessGroup, Reprocessable
  <1>2. groups' \in [Group -> GroupRecord] /\ Existing' = Existing
    BY <1>1, RegroupKeepsExisting, TypesNamed DEF ReviewInv, Structure, ReprocessGroup, GroupStates
  <1> DEFINE outs == [h \in {g} |-> out]
  <1>3. Queue({g}, outs) /\ session' = "PROCESSING"
    BY DEF ReprocessGroup
  <1>4. \A h \in {g} : OpenOf(h) = {} /\ outs[h] \in Output /\ CanRun(h, outs[h]) /\ h \in Existing
    BY <1>1
  <1> HIDE DEF outs
  <1>5. Structure'
    <2>1. session' \in SessionStates
      BY <1>3 DEF SessionStates
    <2>2. UNCHANGED <<checkpoint, home, asset, outputs, published, edits>>
      BY DEF ReprocessGroup
    <2>3. {g} \in SUBSET Group
      OBVIOUS
    <2> QED
      BY <1>2, <1>3, <1>4, <2>1, <2>2, <2>3, QueueKeepsStructure DEF ReviewInv
  <1>6. OneCurrentEach'
    BY DEF ReviewInv, ReprocessGroup, OneCurrentEach, Current
  <1>7. ProcessingHasWork'
    BY <1>3 DEF ProcessingHasWork, Queue
  <1> QED
    BY <1>5, <1>6, <1>7 DEF ReviewInv

\* An edit is of a materialized group, within the bound on edits.
LEMMA EditableFacts ==
  ASSUME ReviewInv, NEW g \in Group, Editable(g)
  PROVE  edits' \in 0..MaxEdits /\ g \in Existing
  BY TypesNamed, ReviewAssumption DEF Editable, ReviewInv, Structure

\* An edit of one group's name or draft.
LEMMA NamedKeepsInv ==
  ASSUME ReviewInv, NEW g \in Group, Editable(g), NEW row \in GroupRecord,
         row.state # "ABSENT", groups' = [groups EXCEPT ![g] = row],
         checkpoint' \in Checkpoints,
         UNCHANGED <<session, home, asset, jobs, runs, outputs, published>>
  PROVE  ReviewInv'
  <1>1. edits' \in 0..MaxEdits /\ g \in Existing
    BY EditableFacts
  <1>2. /\ groups' \in [Group -> GroupRecord] /\ groups'[g] = row
        /\ \A h \in Group \ {g} : groups'[h] = groups[h]
    BY TypesNamed DEF ReviewInv, Structure
  <1>3. Existing' = Existing
    BY <1>1, <1>2 DEF Existing
  <1>4. ReviewTypeOK'
    BY <1>1, <1>2, TypesNamed DEF ReviewInv, Structure, ReviewTypeOK, GroupRecord
  <1>5. Quiet
    BY <1>3 DEF Quiet
  <1>6. OneCurrentEach' /\ ProcessingHasWork'
    BY DEF ReviewInv, OneCurrentEach, Current, ProcessingHasWork
  <1> QED
    BY <1>4, <1>5, <1>6, QuietKeepsStructure DEF ReviewInv

\* updateGroup SET_CRYSTAL keeps a group that is processed where it is.
LEMMA SetNameKeepsInv ==
  ASSUME ReviewInv, NEW g \in Group, SetName(g)
  PROVE  ReviewInv'
  <1> DEFINE Renamed(r) ==
        [r EXCEPT !.named = TRUE,
           !.state = IF r.state \in {"PROCESSED", "QC_FAILED", "READY"} THEN r.state ELSE "NAMED"]
  <1>1. \A r \in GroupRecord : Renamed(r) \in GroupRecord /\ Renamed(r).state # "ABSENT"
    BY DEF GroupRecord, GroupStates
  <1>2. groups \in [Group -> GroupRecord]
    BY TypesNamed DEF ReviewInv, Structure
  <1>3. groups' = [groups EXCEPT ![g] = Renamed(groups[g])]
    BY <1>2 DEF SetName, GroupRecord
  <1> HIDE DEF Renamed
  <1>4. checkpoint' \in Checkpoints
    BY AdvanceType, CheckpointNames, TypesNamed DEF SetName, Advance, ReviewInv, Structure
  <1> QED
    BY <1>1, <1>2, <1>3, <1>4, NamedKeepsInv DEF SetName

\* saveGroupDraft touches the group's own row.
LEMMA SaveDraftKeepsInv ==
  ASSUME ReviewInv, NEW g \in Group, NEW named \in BOOLEAN, SaveDraft(g, named)
  PROVE  ReviewInv'
  <1> DEFINE Drafted(r) ==
        [r EXCEPT !.named = named, !.drafted = TRUE,
           !.state = IF r.state = "READY" THEN r.state ELSE "NAMED"]
  <1>1. \A r \in GroupRecord : Drafted(r) \in GroupRecord /\ Drafted(r).state # "ABSENT"
    BY DEF GroupRecord, GroupStates
  <1>2. groups \in [Group -> GroupRecord]
    BY TypesNamed DEF ReviewInv, Structure
  <1>3. groups' = [groups EXCEPT ![g] = Drafted(groups[g])]
    BY <1>2 DEF SaveDraft, GroupRecord
  <1> HIDE DEF Drafted
  <1>4. checkpoint' \in Checkpoints
    BY TypesNamed DEF SaveDraft, ReviewInv, Structure
  <1> QED
    BY <1>1, <1>2, <1>3, <1>4, NamedKeepsInv DEF SaveDraft

\* A group whose edit is recorded is confirmed or named.
LEMMA EditedRow ==
  \A r \in GroupRecord : Edited(r) \in GroupRecord /\ Edited(r).state \in {"CONFIRMED", "NAMED"}
  BY DEF Edited, GroupRecord, GroupStates

\* What the structural edits have in common: gs are the groups invalidated.
LEMMA ReshapedKeepsInv ==
  ASSUME ReviewInv, NEW g \in Group, StructuralEdit(g),
         NEW gs \in SUBSET Group, Invalidate(gs), \A h \in gs : OpenOf(h) = {},
         groups' \in [Group -> GroupRecord], home' \in [File -> Group \cup {NoGroup}],
         \A h \in Group \ gs : \/ Members(h)' = Members(h)
                               \/ OpenOf(h) = {} /\ Versions(h) = {},
         \A h \in Group \ Existing' : Versions(h) = {} /\ runs[h] = 0,
         GroupsPartitionFiles'
  PROVE  ReviewInv'
  <1>1. asset \in Assets
    BY TypesNamed DEF ReviewInv, Structure
  <1>2. /\ asset' \in Assets
        /\ \A h \in Group \ gs : asset'[h] = asset[h]
        /\ \A h \in Group, v \in Version :
             /\ asset'[h][v].state = "NONE" <=> asset[h][v].state = "NONE"
             /\ Current(h, v)' => Current(h, v)
             /\ h \in gs => asset'[h][v].state \in {"NONE", "RETIRED"}
    BY <1>1, InvalidateEffect
  <1>3. ReviewTypeOK'
    <2>1. session' \in SessionStates /\ edits' \in 0..MaxEdits
      BY EditableFacts, TypesNamed DEF StructuralEdit, SessionStates, ReviewInv, Structure
    <2> QED
      BY <1>2, <2>1, TypesNamed DEF StructuralEdit, ReviewInv, Structure, ReviewTypeOK,
         Assets, AssetRecord, GroupRecord
  <1>4. Reshape
    <2>1. ASSUME NEW h \in Group
          PROVE  \/ Members(h)' = Members(h) /\ asset'[h] = asset[h]
                 \/ OpenOf(h) = {} /\ \A v \in Version : asset'[h][v].state \in {"NONE", "RETIRED"}
      <3>1. CASE h \in gs
        BY <1>2, <3>1
      <3>2. CASE h \notin gs
        BY <1>2, <3>2 DEF Versions
      <3> QED
        BY <3>1, <3>2
    <2> QED
      BY <1>2, <2>1 DEF Reshape, StructuralEdit
  <1>5. AbsentOwnsNothing'
    <2>1. \A h \in Group : Versions(h)' = Versions(h)
      BY <1>2 DEF Versions
    <2> QED
      BY <2>1 DEF AbsentOwnsNothing, StructuralEdit
  <1>6. OneCurrentEach'
    BY <1>2, CurrentShrinks DEF ReviewInv
  <1>7. ProcessingHasWork'
    BY DEF ReviewInv, ProcessingHasWork, StructuralEdit
  <1> QED
    BY <1>3, <1>4, <1>5, <1>6, <1>7, ReshapeKeepsStructure DEF ReviewInv

\* A new primary file retires the versions made with the old one.
LEMMA SetPrimaryKeepsInv ==
  ASSUME ReviewInv, NEW g \in Group, SetPrimary(g)
  PROVE  ReviewInv'
  <1>1. g \in Existing /\ groups \in [Group -> GroupRecord]
    BY EditableFacts, TypesNamed DEF SetPrimary, StructuralEdit, ReviewInv, Structure
  <1>2. /\ groups' \in [Group -> GroupRecord]
        /\ groups'[g].state # "ABSENT"
        /\ \A h \in Group \ {g} : groups'[h] = groups[h]
    BY <1>1, EditedRow DEF SetPrimary
  <1>3. Existing' = Existing
    BY <1>1, <1>2 DEF Existing
  <1>4. Existing \subseteq Group /\ \A h \in Group : Members(h)' = Members(h)
    BY DEF SetPrimary, Members, Existing
  <1>5. GroupsPartitionFiles'
    BY <1>3, <1>4 DEF SetPrimary, GroupsPartitionFiles, ReviewInv, Structure
  <1>6. \A h \in Group \ Existing' : Versions(h) = {} /\ runs[h] = 0
    BY <1>3 DEF ReviewInv, Structure, AbsentOwnsNothing
  <1>7. home' \in [File -> Group \cup {NoGroup}]
    BY TypesNamed DEF SetPrimary, ReviewInv, Structure
  <1> QED
    BY <1>2, <1>4, <1>5, <1>6, <1>7, ReshapedKeepsInv DEF SetPrimary, StructuralEdit

\* What taking some, not all, files of a group to another place does.
LEMMA MovedMembers ==
  ASSUME Structure, NEW g \in Existing, NEW to \in Group \cup {NoGroup}, to # g,
         NEW fs \in SUBSET File, ProperPart(fs, g),
         home' = [f \in File |-> IF f \in fs THEN to ELSE home[f]]
  PROVE  /\ home' \in [File -> Group \cup {NoGroup}]
         /\ Members(g)' # {}
         /\ to # NoGroup => Members(to)' # {}
         /\ \A h \in Group \ {g, to} : Members(h)' = Members(h)
         /\ \A f \in File : home'[f] \in Existing \cup {to, NoGroup}
  <1>1. home \in [File -> Group \cup {NoGroup}] /\ g \in Group
    BY TypesNamed DEF Structure, Existing
  <1>2. \A f \in fs : home[f] = g
    BY DEF ProperPart, Members
  <1>3. Members(g)' # {}
    <2>1. PICK f \in Members(g) : f \notin fs
      BY DEF ProperPart
    <2> QED
      BY <2>1 DEF Members
  <1>4. to # NoGroup => Members(to)' # {}
    <2>1. PICK f \in fs : TRUE
      BY DEF ProperPart
    <2> QED
      BY <2>1 DEF Members
  <1>5. \A h \in Group \ {g, to} : Members(h)' = Members(h)
    BY <1>1, <1>2 DEF Members
  <1>6. \A f \in File : home'[f] \in Existing \cup {to, NoGroup}
    BY DEF Structure, GroupsPartitionFiles
  <1> QED
    BY <1>1, <1>3, <1>4, <1>5, <1>6

\* A group id that is not materialized has no job, version or member.
LEMMA AbsentIsEmpty ==
  ASSUME Structure, NEW h \in Group, h \notin Existing
  PROVE  OpenOf(h) = {} /\ Versions(h) = {} /\ runs[h] = 0
  BY JobsHaveGroups DEF Structure, AbsentOwnsNothing, OpenOf

\* Ignored files leave their group, never empty it.
LEMMA IgnoreKeepsInv ==
  ASSUME ReviewInv, NEW g \in Group, NEW fs \in SUBSET File, IgnoreFiles(g, fs)
  PROVE  ReviewInv'
  <1>1. g \in Existing /\ groups \in [Group -> GroupRecord] /\ g # NoGroup
    BY EditableFacts, TypesNamed, ReviewAssumption DEF IgnoreFiles, StructuralEdit, ReviewInv, Structure
  <1>2. /\ groups' \in [Group -> GroupRecord]
        /\ groups'[g].state # "ABSENT"
        /\ \A h \in Group \ {g} : groups'[h] = groups[h]
    BY <1>1, EditedRow DEF IgnoreFiles
  <1>3. Existing' = Existing
    BY <1>1, <1>2 DEF Existing
  <1>4. /\ home' \in [File -> Group \cup {NoGroup}]
        /\ Members(g)' # {}
        /\ \A h \in Group \ {g} : Members(h)' = Members(h)
        /\ \A f \in File : home'[f] \in Existing \cup {NoGroup}
    BY <1>1, MovedMembers, ReviewAssumption DEF IgnoreFiles, ReviewInv
  <1>5. GroupsPartitionFiles'
    <2>1. Existing \subseteq Group
      BY DEF Existing
    <2> QED
      BY <1>3, <1>4, <2>1 DEF GroupsPartitionFiles, ReviewInv, Structure
  <1>6. \A h \in Group \ Existing' : Versions(h) = {} /\ runs[h] = 0
    BY <1>3 DEF ReviewInv, Structure, AbsentOwnsNothing
  <1> QED
    BY <1>2, <1>4, <1>5, <1>6, ReshapedKeepsInv DEF IgnoreFiles, StructuralEdit

\* A move changes both groups, and both are idle and invalidated.
LEMMA MoveKeepsInv ==
  ASSUME ReviewInv, NEW g \in Group, NEW target \in Group, NEW fs \in SUBSET File,
         MoveFiles(g, target, fs)
  PROVE  ReviewInv'
  <1>1. /\ g \in Existing /\ target \in Existing /\ target # g /\ target # NoGroup
        /\ groups \in [Group -> GroupRecord]
    BY EditableFacts, TypesNamed, ReviewAssumption DEF MoveFiles, StructuralEdit, ReviewInv, Structure
  <1>2. /\ groups' \in [Group -> GroupRecord]
        /\ groups'[g].state # "ABSENT" /\ groups'[target].state # "ABSENT"
        /\ \A h \in Group \ {g, target} : groups'[h] = groups[h]
    BY <1>1, EditedRow DEF MoveFiles
  <1>3. Existing' = Existing
    BY <1>1, <1>2 DEF Existing
  <1>4. /\ home' \in [File -> Group \cup {NoGroup}]
        /\ Members(g)' # {} /\ Members(target)' # {}
        /\ \A h \in Group \ {g, target} : Members(h)' = Members(h)
        /\ \A f \in File : home'[f] \in Existing \cup {target, NoGroup}
    BY <1>1, MovedMembers DEF MoveFiles, ReviewInv
  <1>5. GroupsPartitionFiles'
    <2>1. Existing \subseteq Group
      BY DEF Existing
    <2> QED
      BY <1>1, <1>3, <1>4, <2>1 DEF GroupsPartitionFiles, ReviewInv, Structure
  <1>6. \A h \in Group \ Existing' : Versions(h) = {} /\ runs[h] = 0
    BY <1>3 DEF ReviewInv, Structure, AbsentOwnsNothing
  <1>7. Invalidate({g, target}) /\ \A h \in {g, target} : OpenOf(h) = {}
    BY DEF MoveFiles, StructuralEdit
  <1> QED
    BY <1>2, <1>4, <1>5, <1>6, <1>7, ReshapedKeepsInv DEF MoveFiles

\* A split materializes a group that had nothing.
LEMMA SplitKeepsInv ==
  ASSUME ReviewInv, NEW g \in Group, NEW created \in Group, NEW fs \in SUBSET File,
         SplitGroup(g, created, fs)
  PROVE  ReviewInv'
  <1>1. /\ g \in Existing /\ created \notin Existing /\ created # g /\ created # NoGroup
        /\ groups \in [Group -> GroupRecord]
    BY EditableFacts, TypesNamed, ReviewAssumption DEF SplitGroup, StructuralEdit, ReviewInv, Structure
  <1> DEFINE row == [state |-> "CONFIRMED", named |-> FALSE, drafted |-> FALSE]
  <1>2. row \in GroupRecord /\ row.state # "ABSENT"
    BY DEF GroupRecord, GroupStates
  <1>3. groups' = [groups EXCEPT ![g] = Edited(@), ![created] = row]
    BY DEF SplitGroup
  <1> HIDE DEF row
  <1>4. /\ groups' \in [Group -> GroupRecord]
        /\ groups'[g].state # "ABSENT" /\ groups'[created].state # "ABSENT"
        /\ \A h \in Group \ {g, created} : groups'[h] = groups[h]
    BY <1>1, <1>2, <1>3, EditedRow
  <1>5. Existing' = Existing \cup {created}
    BY <1>1, <1>4 DEF Existing
  <1>6. /\ home' \in [File -> Group \cup {NoGroup}]
        /\ Members(g)' # {} /\ Members(created)' # {}
        /\ \A h \in Group \ {g, created} : Members(h)' = Members(h)
        /\ \A f \in File : home'[f] \in Existing \cup {created, NoGroup}
    BY <1>1, MovedMembers DEF SplitGroup, ReviewInv
  <1>7. GroupsPartitionFiles'
    <2>1. Existing \subseteq Group
      BY DEF Existing
    <2> QED
      BY <1>1, <1>5, <1>6, <2>1 DEF GroupsPartitionFiles, ReviewInv, Structure
  <1>8. \A h \in Group \ Existing' : Versions(h) = {} /\ runs[h] = 0
    BY <1>5 DEF ReviewInv, Structure, AbsentOwnsNothing
  <1>9. OpenOf(created) = {} /\ Versions(created) = {}
    BY <1>1, AbsentIsEmpty DEF ReviewInv
  <1>10. Invalidate({g}) /\ \A h \in {g} : OpenOf(h) = {}
    BY DEF SplitGroup, StructuralEdit
  <1> QED
    BY <1>4, <1>6, <1>7, <1>8, <1>9, <1>10, ReshapedKeepsInv DEF SplitGroup

\* The merged groups had no version and no run, so nothing is left of them.
LEMMA MergeKeepsInv ==
  ASSUME ReviewInv, NEW g \in Group, NEW sources \in SUBSET Group, MergeGroups(g, sources)
  PROVE  ReviewInv'
  <1>1. /\ g \in Existing /\ g \notin sources /\ sources \subseteq Existing
        /\ groups \in [Group -> GroupRecord]
        /\ home \in [File -> Group \cup {NoGroup}]
    BY EditableFacts, TypesNamed DEF MergeGroups, StructuralEdit, ReviewInv, Structure
  <1> DEFINE row == [state |-> "ABSENT", named |-> FALSE, drafted |-> FALSE]
  <1>2. row \in GroupRecord /\ row.state = "ABSENT"
    BY DEF GroupRecord
  <1>3. groups' = [h \in Group |->
          IF h \in sources THEN row ELSE IF h = g THEN Edited(groups[g]) ELSE groups[h]]
    BY DEF MergeGroups
  <1> HIDE DEF row
  <1>4. /\ groups' \in [Group -> GroupRecord]
        /\ groups'[g].state # "ABSENT"
        /\ \A h \in sources : groups'[h].state = "ABSENT"
        /\ \A h \in Group \ (sources \cup {g}) : groups'[h] = groups[h]
    BY <1>1, <1>2, <1>3, EditedRow
  <1>5. Existing' = Existing \ sources
    BY <1>1, <1>4 DEF Existing
  <1>6. home' = [f \in File |-> IF home[f] \in sources THEN g ELSE home[f]]
    BY DEF MergeGroups
  <1>7. /\ home' \in [File -> Group \cup {NoGroup}]
        /\ Members(g) \subseteq Members(g)'
        /\ \A h \in Group \ (sources \cup {g}) : Members(h)' = Members(h)
    BY <1>1, <1>6 DEF Members
  <1>8. GroupsPartitionFiles'
    <2>1. Existing \subseteq Group
      BY DEF Existing
    <2>2. \A h \in Existing' : Members(h)' # {}
      BY <1>1, <1>5, <1>7, <2>1 DEF GroupsPartitionFiles, ReviewInv, Structure
    <2>3. NoGroup \notin sources
      BY <1>1, <2>1, ReviewAssumption
    <2>4. \A f \in File : home'[f] \in Existing' \cup {NoGroup}
      BY <1>1, <1>5, <1>6, <2>3 DEF GroupsPartitionFiles, ReviewInv, Structure
    <2> QED
      BY <2>2, <2>4 DEF GroupsPartitionFiles
  <1>9. \A h \in sources : Versions(h) = {} /\ runs[h] = 0 /\ OpenOf(h) = {}
    <2>1. \A h \in sources : Versions(h) = {} /\ runs[h] = 0
      BY DEF MergeGroups
    <2>2. ASSUME NEW h \in sources, NEW j \in OpenOf(h)
          PROVE  FALSE
      <3>1. PICK n \in 0..runs[h] : n < runs[h]
        BY <2>2 DEF ReviewInv, Structure, Numbered
      <3> QED
        BY <2>1, <3>1
    <2> QED
      BY <2>1, <2>2
  <1>10. \A h \in Group \ Existing' : Versions(h) = {} /\ runs[h] = 0
    BY <1>5, <1>9 DEF ReviewInv, Structure, AbsentOwnsNothing
  <1>11. Invalidate({g}) /\ \A h \in {g} : OpenOf(h) = {}
    BY DEF MergeGroups, StructuralEdit
  <1> QED
    BY <1>4, <1>7, <1>8, <1>9, <1>10, <1>11, ReshapedKeepsInv DEF MergeGroups

-----------------------------------------------------------------------------
(* The inductive invariant *)

\* Grouping leaves every file in one suggested group and nothing processed.
LEMMA InitHoldsInv ==
  ReviewInit => ReviewInv
  <1> SUFFICES ASSUME ReviewInit PROVE ReviewInv
    OBVIOUS
  <1>1. NoAsset \in AssetRecord /\ NoAsset.state = "NONE" /\ NoAsset.current = FALSE
    BY DEF NoAsset, AssetRecord
  <1>2. \A g \in Group, v \in Version : asset[g][v].state = "NONE" /\ ~Current(g, v)
    BY <1>1 DEF ReviewInit, Current
  <1>3. \A g \in Group : Versions(g) = {} /\ OpenOf(g) = {} /\ runs[g] = 0
    BY <1>2 DEF Versions, OpenOf, ReviewInit
  <1>4. Existing = {g \in Group : \E f \in File : home[f] = g}
    BY DEF Existing, ReviewInit
  <1>5. ReviewTypeOK
    <2>1. asset \in Assets
      BY <1>1 DEF ReviewInit, Assets
    <2>2. session \in SessionStates /\ checkpoint \in Checkpoints
      BY CheckpointNames DEF ReviewInit, SessionStates
    <2>3. groups \in [Group -> GroupRecord]
      BY DEF ReviewInit, GroupRecord, GroupStates
    <2>4. /\ runs \in [Group -> 0..MaxRuns] /\ published \in [Group -> 0..MaxRuns]
          /\ edits \in 0..MaxEdits
      BY ReviewAssumption DEF ReviewInit
    <2>5. /\ home \in [File -> Group \cup {NoGroup}] /\ jobs \subseteq JobRecord
          /\ outputs \in [Group -> [Version -> Output \cup {NoOutput}]]
      BY DEF ReviewInit
    <2> QED
      BY <2>1, <2>2, <2>3, <2>4, <2>5, TypesNamed
  <1>6. Numbered
    <2> SUFFICES ASSUME NEW g \in Group
                 PROVE  Versions(g) = 1..0 /\ OpenOf(g) = {} /\ 0 \in 0..runs[g]
      BY DEF Numbered
    <2> QED
      BY <1>3
  <1>7. OneJobEach /\ AbsentOwnsNothing
    BY <1>3 DEF ReviewInit, OneJobEach, AbsentOwnsNothing
  <1>8. AssetsMatchMembers
    BY <1>3 DEF AssetsMatchMembers
  <1>9. GroupsPartitionFiles
    BY <1>4 DEF GroupsPartitionFiles, Members, ReviewInit
  <1>10. OneCurrentEach /\ ProcessingHasWork
    BY <1>2 DEF OneCurrentEach, ProcessingHasWork, ReviewInit
  <1> QED
    BY <1>5, <1>6, <1>7, <1>8, <1>9, <1>10 DEF ReviewInv, Structure

\* Every step keeps the invariant.
LEMMA NextKeepsInv ==
  ReviewInv /\ [ReviewNext]_reviewVars => ReviewInv'
  <1> SUFFICES ASSUME ReviewInv, [ReviewNext]_reviewVars
               PROVE  ReviewInv'
    OBVIOUS
  <1>1. CASE Processes
    BY <1>1, StartKeepsInv, ReprocessKeepsInv, PutKeepsInv, CompleteKeepsInv, FailKeepsInv DEF Processes
  <1>2. CASE Reviews
    BY <1>2, ApproveKeepsInv, RejectKeepsInv, SelectKeepsInv, PublishKeepsInv DEF Reviews
  <1>3. CASE Edits
    BY <1>3, SetNameKeepsInv, SetPrimaryKeepsInv, SaveDraftKeepsInv, MergeKeepsInv, IgnoreKeepsInv,
       MoveKeepsInv, SplitKeepsInv DEF Edits
  <1>4. CASE Cancel
    BY <1>4, CancelKeepsInv
  <1>5. CASE UNCHANGED reviewVars
    <2>1. Structure'
      <3>1. ReviewTypeOK'
        BY <1>5 DEF ReviewInv, Structure, ReviewTypeOK, reviewVars
      <3>2. Quiet
        BY <1>5 DEF Quiet, Existing, reviewVars
      <3> QED
        BY <3>1, <3>2, QuietKeepsStructure DEF ReviewInv
    <2>2. OneCurrentEach' /\ ProcessingHasWork'
      BY <1>5 DEF ReviewInv, OneCurrentEach, Current, ProcessingHasWork, reviewVars
    <2> QED
      BY <2>1, <2>2 DEF ReviewInv
  <1> QED
    BY <1>1, <1>2, <1>3, <1>4, <1>5 DEF ReviewNext

\* Every reachable state satisfies the inductive invariant.
THEOREM ReviewInvariant == ReviewSpec => []ReviewInv
  BY InitHoldsInv, NextKeepsInv, PTL DEF ReviewSpec

-----------------------------------------------------------------------------
(* What it gives *)

\* A set whose members are all equal has at most one.
LEMMA AtMostOne ==
  ASSUME NEW S, \A x, y \in S : x = y
  PROVE  Cardinality(S) <= 1
  <1>1. CASE S = {}
    BY <1>1, FS_EmptySet
  <1>2. ASSUME NEW x \in S
        PROVE  Cardinality(S) <= 1
    <2>1. S = {x}
      BY <1>2
    <2> QED
      BY <2>1, FS_Singleton
  <1> QED
    BY <1>1, <1>2

\* No group is processed by two jobs at once, whichever of startProcessing and
\* reprocessGroup queued them.
THEOREM OneOpenJobAlways == ReviewSpec => []OneOpenJobPerGroup
  <1>1. ReviewInv => OneOpenJobPerGroup
    <2> SUFFICES ASSUME ReviewInv, NEW g \in Group
                 PROVE  Cardinality(OpenOf(g)) <= 1
      BY DEF OneOpenJobPerGroup
    <2>1. \A j, k \in OpenOf(g) : j = k
      BY DEF ReviewInv, Structure, OneJobEach, OpenOf
    <2> QED
      BY <2>1, AtMostOne
  <1> QED
    BY <1>1, ReviewInvariant, PTL

\* At most one version of a group is current: the partial unique index on
\* processed_assets never rejects a completion, selection or rejection.
THEOREM OneCurrentVersionAlways == ReviewSpec => []OneCurrentVersion
  <1>1. ReviewInv => OneCurrentVersion
    <2> SUFFICES ASSUME ReviewInv, NEW g \in Group
                 PROVE  Cardinality({v \in Version : Current(g, v)}) <= 1
      BY DEF OneCurrentVersion
    <2>1. \A v, w \in {x \in Version : Current(g, x)} : v = w
      BY DEF ReviewInv, OneCurrentEach
    <2> QED
      BY <2>1, AtMostOne
  <1> QED
    BY <1>1, ReviewInvariant, PTL

\* Every column holds a value of its enum, and job and run numbers stay in range.
THEOREM ReviewTypeAlways == ReviewSpec => []ReviewTypeOK
  <1>1. ReviewInv => ReviewTypeOK
    BY DEF ReviewInv, Structure
  <1> QED
    BY <1>1, ReviewInvariant, PTL

\* A session in PROCESSING has a job that will take it out of it.
THEOREM ProcessingHasWorkAlways == ReviewSpec => []ProcessingHasWork
  <1>1. ReviewInv => ProcessingHasWork
    BY DEF ReviewInv
  <1> QED
    BY <1>1, ReviewInvariant, PTL

\* What may still be reviewed or published, and what is being processed, was
\* made from exactly the present members of its group.
THEOREM AssetsMatchMembersAlways == ReviewSpec => []AssetsMatchMembers
  <1>1. ReviewInv => AssetsMatchMembers
    BY DEF ReviewInv, Structure
  <1> QED
    BY <1>1, ReviewInvariant, PTL

\* Moves, merges and splits lose no file and empty no group.
THEOREM GroupsPartitionFilesAlways == ReviewSpec => []GroupsPartitionFiles
  <1>1. ReviewInv => GroupsPartitionFiles
    BY DEF ReviewInv, Structure
  <1> QED
    BY <1>1, ReviewInvariant, PTL

-----------------------------------------------------------------------------
(* What holds if operators select no version while jobs are open           *)

Unoffered == session \notin {"PUBLISHING", "PUBLISHED", "CANCELLED"}

\* A session that is not offered has published nothing.
LEMMA NothingPublished ==
  ASSUME OfferInv, Unoffered
  PROVE  \A g \in Group : groups[g].state # "PUBLISHED" /\ published[g] = 0
  BY DEF OfferInv, Unoffered, PublishedIsOffered, PublicationsResolve, GroupsIn

\* Open jobs belong to a session that is not offered.
LEMMA WorkIsUnoffered ==
  ASSUME OfferInv, jobs # {}
  PROVE  Unoffered /\ session \in {"PROCESSING", "PARTIALLY_FAILED"}
  BY DEF OfferInv, WorkIsUnderWay, Unoffered

\* A step of a session with nothing published that publishes nothing.
LEMMA UnofferedKeepsOffer ==
  ASSUME OfferInv, Unoffered, UNCHANGED published,
         \A g \in Group : groups'[g].state # "PUBLISHED",
         WorkIsUnderWay', OfferedSessionIsSettled'
  PROVE  OfferInv'
  BY NothingPublished DEF OfferInv, PublishedIsOffered, PublicationsResolve, GroupsIn

\* Regroup publishes only what it says.
LEMMA RegroupUnpublished ==
  ASSUME groups \in [Group -> GroupRecord], NEW g \in Group, NEW state \in GroupStates,
         state # "PUBLISHED", groups' = Regroup(g, state),
         \A h \in Group : groups[h].state # "PUBLISHED"
  PROVE  \A h \in Group : groups'[h].state # "PUBLISHED"
  BY RegroupEffect

\* Jobs are queued and end in sessions that have published nothing.
LEMMA WorkKeepsOffer ==
  ASSUME ReviewInv, OfferInv, Processes
  PROVE  OfferInv'
  <1>1. groups \in [Group -> GroupRecord] /\ \A j \in jobs : j.group \in Group
    BY TypesNamed DEF ReviewInv, Structure, JobRecord
  <1>2. ASSUME NEW out \in [Group -> Output], StartProcessing(out)
        PROVE  OfferInv'
    <2>1. Unoffered /\ session' = "PROCESSING" /\ UNCHANGED published
      BY <1>2 DEF StartProcessing, Unoffered
    <2>2. \A r \in GroupRecord : [r EXCEPT !.state = "PROCESSED"].state = "PROCESSED"
      BY DEF GroupRecord
    <2>3. \A g \in Group : groups'[g].state # "PUBLISHED"
      BY <1>1, <1>2, <2>1, <2>2, NothingPublished DEF StartProcessing
    <2> QED
      BY <2>1, <2>3, UnofferedKeepsOffer DEF WorkIsUnderWay, OfferedSessionIsSettled
  <1>3. ASSUME NEW g \in Group, NEW out \in Output, ReprocessGroup(g, out)
        PROVE  OfferInv'
    <2>1. Unoffered /\ session' = "PROCESSING" /\ UNCHANGED published
      BY <1>3 DEF ReprocessGroup, Reprocessable, Unoffered
    <2>2. \A h \in Group : groups'[h].state # "PUBLISHED"
      BY <1>1, <1>3, <2>1, NothingPublished, RegroupUnpublished DEF ReprocessGroup, GroupStates
    <2> QED
      BY <2>1, <2>2, UnofferedKeepsOffer DEF WorkIsUnderWay, OfferedSessionIsSettled
  <1>4. ASSUME NEW j \in jobs, PutProcessed(j)
        PROVE  OfferInv'
    BY <1>4 DEF PutProcessed, OfferInv, WorkIsUnderWay, PublishedIsOffered, GroupsIn,
       OfferedSessionIsSettled, PublicationsResolve, Approved, Current
  <1>5. ASSUME NEW j \in jobs, NEW qcPassed \in BOOLEAN, CompleteProcessing(j, qcPassed)
        PROVE  OfferInv'
    <2>1. Unoffered /\ session \in {"PROCESSING", "PARTIALLY_FAILED"} /\ UNCHANGED published
      BY <1>5, WorkIsUnoffered DEF CompleteProcessing
    <2>2. /\ session' \in {"PROCESSING", "PARTIALLY_FAILED", "NEEDS_REVIEW"}
          /\ jobs' # {} => session' = session
      BY <1>5, <2>1 DEF CompleteProcessing
    <2>3. \A g \in Group : groups'[g].state # "PUBLISHED"
      <3> DEFINE state == IF qcPassed THEN "READY" ELSE "QC_FAILED"
      <3>1. groups' = Regroup(j.group, state) /\ state \in GroupStates /\ state # "PUBLISHED"
        BY <1>5 DEF CompleteProcessing, GroupStates
      <3> HIDE DEF state
      <3> QED
        BY <1>1, <2>1, <3>1, NothingPublished, RegroupUnpublished
    <2> QED
      BY <2>1, <2>2, <2>3, UnofferedKeepsOffer DEF WorkIsUnderWay, OfferedSessionIsSettled
  <1>6. ASSUME NEW j \in jobs, FailProcessing(j)
        PROVE  OfferInv'
    <2>1. Unoffered /\ session \in {"PROCESSING", "PARTIALLY_FAILED"} /\ UNCHANGED published
      BY <1>6, WorkIsUnoffered DEF FailProcessing
    <2>2. session' = "PARTIALLY_FAILED"
      BY <1>6, <2>1 DEF FailProcessing, TerminalFailureState, CanTransition, SessionTransitions
    <2>3. \A g \in Group : groups'[g].state # "PUBLISHED"
      BY <1>1, <1>6, <2>1, NothingPublished, RegroupUnpublished DEF FailProcessing, GroupStates
    <2> QED
      BY <2>1, <2>2, <2>3, UnofferedKeepsOffer DEF WorkIsUnderWay, OfferedSessionIsSettled
  <1> QED
    BY <1>2, <1>3, <1>4, <1>5, <1>6 DEF Processes

\* A handler that refreshes the session offers it only when all is ready.
LEMMA RefreshKeepsOffer ==
  ASSUME OfferInv, Unoffered, jobs = {}, UNCHANGED <<jobs, published>>,
         \A g \in Group : groups'[g].state # "PUBLISHED", NEW from, RefreshSession(from)
  PROVE  OfferInv'
  <1>1. session' \in {"READY_TO_PUBLISH", "PUBLISHING"} => AllReady(groups', asset')
    BY DEF RefreshSession, ReviewState
  <1>2. OfferedSessionIsSettled'
    BY <1>1 DEF OfferedSessionIsSettled, AllReady
  <1> QED
    BY <1>2, UnofferedKeepsOffer DEF WorkIsUnderWay

\* Reviews are of settled sessions; a publication turns one READY group into a
\* PUBLISHED one and changes nothing else that the offer looks at.
LEMMA ReviewKeepsOffer ==
  ASSUME ~SelectDuringWork, ReviewInv, OfferInv, Reviews
  PROVE  OfferInv'
  <1>1. groups \in [Group -> GroupRecord]
    BY TypesNamed DEF ReviewInv, Structure
  <1>2. ASSUME NEW g \in Group, NEW v \in Version, NEW cleared \in BOOLEAN, Approve(g, v, cleared)
        PROVE  OfferInv'
    <2>1. Unoffered /\ jobs = {} /\ UNCHANGED <<jobs, published>> /\ RefreshSession(session)
      BY <1>2, WorkIsUnoffered DEF Approve, Unoffered
    <2>2. \A h \in Group : groups'[h].state # "PUBLISHED"
      BY <1>1, <1>2, <2>1, NothingPublished, RegroupUnpublished DEF Approve, GroupStates
    <2> QED
      BY <2>1, <2>2, RefreshKeepsOffer
  <1>3. ASSUME NEW g \in Group, NEW v \in Version, Reject(g, v)
        PROVE  OfferInv'
    <2>1. Unoffered /\ jobs = {} /\ UNCHANGED <<jobs, published>> /\ RefreshSession(session)
      BY <1>3, WorkIsUnoffered DEF Reject, Unoffered
    <2>2. \A h \in Group : groups'[h].state # "PUBLISHED"
      BY <1>1, <1>3, <2>1, NothingPublished, RegroupUnpublished DEF Reject, GroupStates
    <2> QED
      BY <2>1, <2>2, RefreshKeepsOffer
  <1>4. ASSUME NEW g \in Group, NEW v \in Version, SelectVersion(g, v)
        PROVE  OfferInv'
    <2> DEFINE state == IF asset[g][v].state = "QC_FAILED" THEN "QC_FAILED" ELSE "READY"
               from == IF session = "PARTIALLY_FAILED" THEN "NEEDS_REVIEW" ELSE session
    <2>1. Unoffered /\ jobs = {} /\ UNCHANGED <<jobs, published>> /\ RefreshSession(from)
      BY <1>4 DEF SelectVersion, Unoffered
    <2>2. state \in GroupStates /\ state # "PUBLISHED" /\ groups' = Regroup(g, state)
      BY <1>4 DEF SelectVersion, GroupStates
    <2> HIDE DEF state, from
    <2>3. \A h \in Group : groups'[h].state # "PUBLISHED"
      BY <1>1, <2>1, <2>2, NothingPublished, RegroupUnpublished
    <2> QED
      BY <2>1, <2>3, RefreshKeepsOffer
  <1>5. ASSUME NEW g \in Group, NEW v \in Version, PublishGroup(g, v)
        PROVE  OfferInv'
    <2>1. jobs = {} /\ AllReady(groups, asset)
      BY <1>5 DEF PublishGroup, Publishable, OfferInv, OfferedSessionIsSettled
    <2>2. /\ groups'[g].state = "PUBLISHED"
          /\ \A h \in Group \ {g} : groups'[h] = groups[h]
      BY <1>1, <1>5, RegroupEffect DEF PublishGroup, GroupStates
    <2>3. /\ published' = [published EXCEPT ![g] = v]
          /\ Approved(g, v) /\ asset[g][v].cleared
          /\ session' \in {"PUBLISHING", "PUBLISHED"}
          /\ UNCHANGED <<jobs, asset>>
      BY <1>5 DEF PublishGroup, Publishable
    <2>4. AllReady(groups', asset')
      BY <2>1, <2>2, <2>3 DEF AllReady
    <2>5. PublicationsResolve'
      <3> SUFFICES ASSUME NEW h \in Group, published'[h] # 0
                   PROVE  /\ groups'[h].state = "PUBLISHED"
                          /\ Approved(h, published[h])' /\ asset'[h][published'[h]].cleared
        BY DEF PublicationsResolve
      <3>1. CASE h = g
        <4>1. published'[g] = v
          BY <2>3, TypesNamed DEF ReviewInv, Structure
        <4> QED
          BY <2>2, <2>3, <3>1, <4>1 DEF Approved, Current
      <3>2. CASE h # g
        <4>1. published'[h] = published[h] /\ groups'[h] = groups[h]
          BY <2>2, <2>3, <3>2
        <4> QED
          BY <2>3, <4>1 DEF OfferInv, PublicationsResolve, Approved, Current
      <3> QED
        BY <3>1, <3>2
    <2>6. OfferedSessionIsSettled'
      BY <2>1, <2>3, <2>4 DEF OfferedSessionIsSettled, AllReady
    <2> QED
      BY <2>1, <2>3, <2>5, <2>6 DEF OfferInv, WorkIsUnderWay, PublishedIsOffered
  <1> QED
    BY <1>2, <1>3, <1>4, <1>5 DEF Reviews

\* An edit happens before anything is published, and publishes nothing; only a
\* rename or a draft leaves the session ready to publish.
LEMMA EditUnoffered ==
  ASSUME OfferInv, NEW g \in Group, Editable(g)
  PROVE  Unoffered
  BY DEF Editable, Unoffered, TerminalSessionStates

\* A structural edit withdraws the offer.
LEMMA StructuralKeepsOffer ==
  ASSUME ReviewInv, OfferInv, NEW g \in Group, StructuralEdit(g),
         \A h \in Group : groups'[h].state # "PUBLISHED"
  PROVE  OfferInv'
  <1>1. Unoffered
    BY EditUnoffered DEF StructuralEdit
  <1>2. session' \notin {"READY_TO_PUBLISH", "PUBLISHING"} /\ UNCHANGED <<jobs, published>>
    BY <1>1 DEF StructuralEdit, Unoffered
  <1>3. WorkIsUnderWay'
    BY <1>2 DEF StructuralEdit, OfferInv, WorkIsUnderWay
  <1> QED
    BY <1>1, <1>2, <1>3, UnofferedKeepsOffer DEF OfferedSessionIsSettled

\* A rename or draft of one group that leaves READY alone.
LEMMA NamedKeepsOffer ==
  ASSUME ReviewInv, OfferInv, NEW g \in Group, Editable(g), NEW row \in GroupRecord,
         groups' = [groups EXCEPT ![g] = row], row.state # "PUBLISHED", row.state # "ABSENT",
         groups[g].state = "READY" => row.state = "READY",
         UNCHANGED <<session, asset, jobs, published>>
  PROVE  OfferInv'
  <1>1. /\ groups'[g] = row
        /\ \A h \in Group \ {g} : groups'[h] = groups[h]
    BY TypesNamed DEF ReviewInv, Structure
  <1>2. Unoffered /\ groups[g].state \notin {"ABSENT", "PUBLISHED"}
    BY EditUnoffered DEF Editable, Existing, GroupsIn
  <1>3. \A h \in Group : groups'[h].state # "PUBLISHED"
    BY <1>1, <1>2, NothingPublished
  <1>4. ASSUME AllReady(groups, asset)
        PROVE  AllReady(groups', asset')
    BY <1>1, <1>2, <1>4 DEF AllReady
  <1>5. OfferedSessionIsSettled'
    BY <1>4 DEF OfferInv, OfferedSessionIsSettled, AllReady
  <1> QED
    BY <1>2, <1>3, <1>5, UnofferedKeepsOffer DEF OfferInv, WorkIsUnderWay

\* The edits publish nothing, and those that keep the offer keep READY.
LEMMA EditKeepsOffer ==
  ASSUME ReviewInv, OfferInv, Edits
  PROVE  OfferInv'
  <1>1. groups \in [Group -> GroupRecord]
    BY TypesNamed DEF ReviewInv, Structure
  <1>2. ASSUME NEW g \in Group, Editable(g)
        PROVE  \A h \in Group : groups[h].state # "PUBLISHED"
    BY <1>2, EditUnoffered, NothingPublished
  <1>3. \A r \in GroupRecord : Edited(r).state # "PUBLISHED"
    BY EditedRow
  <1>4. ASSUME NEW g \in Group, SetName(g)
        PROVE  OfferInv'
    <2> DEFINE Renamed(r) ==
          [r EXCEPT !.named = TRUE,
             !.state = IF r.state \in {"PROCESSED", "QC_FAILED", "READY"} THEN r.state ELSE "NAMED"]
    <2>1. \A r \in GroupRecord :
            /\ Renamed(r) \in GroupRecord /\ Renamed(r).state \notin {"ABSENT", "PUBLISHED"}
            /\ r.state = "READY" => Renamed(r).state = "READY"
      BY DEF GroupRecord, GroupStates
    <2>2. groups' = [groups EXCEPT ![g] = Renamed(groups[g])]
      BY <1>1, <1>4 DEF SetName, GroupRecord
    <2> HIDE DEF Renamed
    <2> QED
      BY <1>1, <1>4, <2>1, <2>2, NamedKeepsOffer DEF SetName
  <1>5. ASSUME NEW g \in Group, NEW named \in BOOLEAN, SaveDraft(g, named)
        PROVE  OfferInv'
    <2> DEFINE Drafted(r) ==
          [r EXCEPT !.named = named, !.drafted = TRUE,
             !.state = IF r.state = "READY" THEN r.state ELSE "NAMED"]
    <2>1. \A r \in GroupRecord :
            /\ Drafted(r) \in GroupRecord /\ Drafted(r).state \notin {"ABSENT", "PUBLISHED"}
            /\ r.state = "READY" => Drafted(r).state = "READY"
      BY DEF GroupRecord, GroupStates
    <2>2. groups' = [groups EXCEPT ![g] = Drafted(groups[g])]
      BY <1>1, <1>5 DEF SaveDraft, GroupRecord
    <2> HIDE DEF Drafted
    <2> QED
      BY <1>1, <1>5, <2>1, <2>2, NamedKeepsOffer DEF SaveDraft
  <1>6. ASSUME NEW g \in Group, SetPrimary(g)
        PROVE  OfferInv'
    <2>1. \A h \in Group : groups'[h].state # "PUBLISHED"
      BY <1>1, <1>2, <1>3, <1>6 DEF SetPrimary, StructuralEdit
    <2> QED
      BY <1>6, <2>1, StructuralKeepsOffer DEF SetPrimary
  <1>7. ASSUME NEW g \in Group, NEW fs \in SUBSET File, IgnoreFiles(g, fs)
        PROVE  OfferInv'
    <2>1. \A h \in Group : groups'[h].state # "PUBLISHED"
      BY <1>1, <1>2, <1>3, <1>7 DEF IgnoreFiles, StructuralEdit
    <2> QED
      BY <1>7, <2>1, StructuralKeepsOffer DEF IgnoreFiles
  <1>8. ASSUME NEW g \in Group, NEW h \in Group, NEW fs \in SUBSET File, MoveFiles(g, h, fs)
        PROVE  OfferInv'
    <2>1. h # g /\ groups' = [groups EXCEPT ![g] = Edited(groups[g]), ![h] = Edited(groups[h])]
      BY <1>1, <1>8 DEF MoveFiles
    <2>2. \A x \in Group : groups'[x].state # "PUBLISHED"
      BY <1>1, <1>2, <1>3, <1>8, <2>1 DEF MoveFiles, StructuralEdit
    <2> QED
      BY <1>8, <2>2, StructuralKeepsOffer DEF MoveFiles
  <1>9. ASSUME NEW g \in Group, NEW h \in Group, NEW fs \in SUBSET File, SplitGroup(g, h, fs)
        PROVE  OfferInv'
    <2>1. \A x \in Group : groups'[x].state # "PUBLISHED"
      BY <1>1, <1>2, <1>3, <1>9 DEF SplitGroup, StructuralEdit
    <2> QED
      BY <1>9, <2>1, StructuralKeepsOffer DEF SplitGroup
  <1>10. ASSUME NEW g \in Group, NEW sources \in SUBSET Group, MergeGroups(g, sources)
         PROVE  OfferInv'
    <2>1. \A x \in Group : groups'[x].state # "PUBLISHED"
      BY <1>1, <1>2, <1>3, <1>10 DEF MergeGroups, StructuralEdit
    <2> QED
      BY <1>10, <2>1, StructuralKeepsOffer DEF MergeGroups
  <1> QED
    BY <1>4, <1>5, <1>6, <1>7, <1>8, <1>9, <1>10 DEF Edits

\* Every step keeps it, except a selection while a job is open.
LEMMA NextKeepsOffer ==
  ASSUME ~SelectDuringWork
  PROVE  ReviewInv /\ OfferInv /\ [ReviewNext]_reviewVars => OfferInv'
  <1> SUFFICES ASSUME ReviewInv, OfferInv, [ReviewNext]_reviewVars
               PROVE  OfferInv'
    OBVIOUS
  <1>1. CASE Cancel
    BY <1>1 DEF Cancel, OfferInv, WorkIsUnderWay, PublishedIsOffered, GroupsIn,
       OfferedSessionIsSettled, PublicationsResolve, Approved, Current
  <1>2. CASE UNCHANGED reviewVars
    BY <1>2 DEF reviewVars, OfferInv, WorkIsUnderWay, PublishedIsOffered, GroupsIn,
       OfferedSessionIsSettled, PublicationsResolve, Approved, Current, AllReady
  <1> QED
    BY <1>1, <1>2, WorkKeepsOffer, ReviewKeepsOffer, EditKeepsOffer DEF ReviewNext

\* If operators select no version while jobs are open, what the session says
\* of its groups is true for as long as it says so.
THEOREM OfferInvariant ==
  ASSUME ~SelectDuringWork
  PROVE  ReviewSpec => []OfferInv
  <1>1. ASSUME ReviewInit
        PROVE  OfferInv
    <2>1. \A g \in Group : groups[g].state \in {"SUGGESTED", "ABSENT"}
      BY <1>1 DEF ReviewInit
    <2>2. session = "NEEDS_REVIEW" /\ jobs = {} /\ \A g \in Group : published[g] = 0
      BY <1>1 DEF ReviewInit
    <2> QED
      BY <2>1, <2>2 DEF OfferInv, WorkIsUnderWay, PublishedIsOffered, GroupsIn,
         OfferedSessionIsSettled, PublicationsResolve
  <1>2. ReviewInv /\ OfferInv /\ [ReviewNext]_reviewVars => OfferInv'
    BY NextKeepsOffer
  <1> QED
    BY <1>1, <1>2, ReviewInvariant, PTL DEF ReviewSpec

\* A session that offers its groups has no job open and every group published
\* or ready with an approved current version.
THEOREM OfferedSessionIsSettledAlways ==
  ASSUME ~SelectDuringWork
  PROVE  ReviewSpec => []OfferedSessionIsSettled
  <1>1. OfferInv => OfferedSessionIsSettled
    BY DEF OfferInv
  <1> QED
    BY <1>1, OfferInvariant, PTL

\* The version a product is bound to stays approved, cleared and current.
THEOREM PublicationsResolveAlways ==
  ASSUME ~SelectDuringWork
  PROVE  ReviewSpec => []PublicationsResolve
  <1>1. OfferInv => PublicationsResolve
    BY DEF OfferInv
  <1> QED
    BY <1>1, OfferInvariant, PTL

\* Every move of the session is one of the contract, or one of the three pairs
\* of moves that a handler makes in one transaction.
THEOREM ReviewMovesAreLegalAlways ==
  ASSUME ~SelectDuringWork
  PROVE  ReviewSpec => ReviewMovesAreLegal
  <1> DEFINE Legal == CanTransition(session, session') \/ <<session, session'>> \in TwoMoves
  <1>1. ASSUME ReviewInv, OfferInv, Processes, session' # session
        PROVE  Legal
    <2>1. ASSUME NEW out \in [Group -> Output], StartProcessing(out)
          PROVE  Legal
      BY <2>1 DEF StartProcessing, CanTransition, SessionTransitions
    <2>2. ASSUME NEW g \in Group, NEW out \in Output, ReprocessGroup(g, out)
          PROVE  Legal
      BY <2>2 DEF ReprocessGroup, Reprocessable, CanTransition, SessionTransitions, TwoMoves
    <2>3. ASSUME NEW j \in jobs, CompleteProcessing(j, TRUE) \/ CompleteProcessing(j, FALSE)
          PROVE  Legal
      <3>1. session \in {"PROCESSING", "PARTIALLY_FAILED"}
        BY <2>3, <1>1, WorkIsUnoffered
      <3>2. session' \in {session, "PARTIALLY_FAILED", "NEEDS_REVIEW"}
        BY <2>3 DEF CompleteProcessing
      <3> QED
        BY <1>1, <3>1, <3>2 DEF CanTransition, SessionTransitions
    <2>4. ASSUME NEW j \in jobs, FailProcessing(j)
          PROVE  Legal
      <3>1. session \in {"PROCESSING", "PARTIALLY_FAILED"}
        BY <2>4, <1>1, WorkIsUnoffered
      <3> QED
        BY <1>1, <2>4, <3>1 DEF FailProcessing, TerminalFailureState, CanTransition, SessionTransitions
    <2>5. \A j \in jobs : ~PutProcessed(j)
      BY <1>1 DEF PutProcessed
    <2> QED
      BY <1>1, <2>1, <2>2, <2>3, <2>4, <2>5 DEF Processes
  <1>2. ASSUME Reviews, session' # session
        PROVE  Legal
    <2>1. ASSUME NEW g \in Group, NEW v \in Version, NEW cleared \in BOOLEAN, Approve(g, v, cleared)
          PROVE  Legal
      BY <1>2, <2>1 DEF Approve, RefreshSession
    <2>2. ASSUME NEW g \in Group, NEW v \in Version, Reject(g, v)
          PROVE  Legal
      BY <1>2, <2>2 DEF Reject, RefreshSession
    <2>3. ASSUME NEW g \in Group, NEW v \in Version, SelectVersion(g, v)
          PROVE  Legal
      <3>1. CASE session = "PARTIALLY_FAILED"
        <4>1. RefreshSession("NEEDS_REVIEW")
          BY <2>3, <3>1 DEF SelectVersion
        <4>2. session' \in {"NEEDS_REVIEW", "READY_TO_PUBLISH"}
          BY <4>1, RefreshStates DEF RefreshSession, CanTransition, SessionTransitions
        <4> QED
          BY <3>1, <4>2 DEF CanTransition, SessionTransitions, TwoMoves
      <3>2. CASE session # "PARTIALLY_FAILED"
        BY <1>2, <2>3, <3>2 DEF SelectVersion, RefreshSession
      <3> QED
        BY <3>1, <3>2
    <2>4. ASSUME NEW g \in Group, NEW v \in Version, PublishGroup(g, v)
          PROVE  Legal
      BY <1>2, <2>4 DEF PublishGroup, Publishable, CanTransition, SessionTransitions, TwoMoves
    <2> QED
      BY <1>2, <2>1, <2>2, <2>3, <2>4 DEF Reviews
  <1>3. ASSUME Edits, session' # session
        PROVE  Legal
    <2>1. session = "READY_TO_PUBLISH" /\ session' = "NEEDS_REVIEW"
      BY <1>3, ZenonT(60) DEF Edits, SetName, SaveDraft, SetPrimary, MergeGroups, IgnoreFiles,
         MoveFiles, SplitGroup, StructuralEdit
    <2> QED
      BY <2>1 DEF CanTransition, SessionTransitions
  <1>4. ASSUME Cancel
        PROVE  Legal
    BY <1>4 DEF Cancel
  <1>5. ReviewInv /\ OfferInv /\ [ReviewNext]_reviewVars => [session' # session => Legal]_reviewVars
    BY <1>1, <1>2, <1>3, <1>4 DEF ReviewNext, reviewVars
  <1> QED
    BY <1>5, ReviewInvariant, OfferInvariant, PTL DEF ReviewSpec, ReviewMovesAreLegal

=============================================================================
