-------------------------- MODULE KnowledgeReview --------------------------
(***************************************************************************)
(* The life of knowledge rules: ingestion workers insert and corroborate   *)
(* candidates, the review pipeline extracts, merges, classifies and parks  *)
(* them, a reviewer decides, and a publication serves the approved ones.   *)
(*                                                                         *)
(* The repository reads a row and writes it back in two statements without *)
(* a condition, so each of them is an action; other calls may commit in    *)
(* between.  The listing of several statuses is one action.                *)
(*                                                                         *)
(* The rules are the renderings of the values of one property of one       *)
(* crystal, all of them gemological facts: one conflict key.  Their ids    *)
(* are numbers in the order the repository lists them.                     *)
(***************************************************************************)
EXTENDS Integers, Sequences, FiniteSets, FiniteSetsExt, SequencesExt

CONSTANTS
  Rules,        \* ids of the possible rules, one per rendering (fingerprint)
  Value,        \* the canonical value that each rendering states
  Source,
  Strong,       \* sources whose authority is enough to validate a rule
  Reports,      \* which rendering which document of which source states, how surely
  Corpus,       \* the reviewed rules of the fixture corpus
  Handbook,     \* their source
  Operator,     \* console requests, command lines and publish jobs in flight
  Pipelines,    \* bound: the operators that run the pipeline
  Reviewers,    \* bound: those that decide, edit, import and publish
  Edited,       \* bound: the rules whose confidence they edit
  Worker,       \* ingestion runs
  MaxVersion    \* bound on the knowledge versions created

ASSUME KnowledgeAssumption ==
  /\ Rules \subseteq Nat
  /\ Strong \subseteq Source /\ Handbook \in Source
  /\ Corpus \subseteq Rules /\ Edited \subseteq Rules
  /\ Pipelines \subseteq Operator /\ Reviewers \subseteq Operator
  /\ Reports \subseteq [rule : Rules, source : Source, document : Nat, sure : BOOLEAN]
  /\ MaxVersion \in Nat

VARIABLES
  rule,       \* knowledge_rules
  versions,   \* knowledge_versions, in the order of their creation
  current,    \* the PUBLISHED version with the latest publishedAt, 0 if none
  op,         \* what each operator's call is doing
  work,       \* what each worker read before it corroborates a rule
  overtaken   \* history: rules whose status other calls changed since a call listed its part

knowledgeVars == <<rule, versions, current, op, work, overtaken>>

Status == {"ABSENT", "NEW", "EXTRACTED", "VALIDATED", "NEEDS_REVIEW", "APPROVED",
           "REJECTED", "CONFLICTED", "SUPERSEDED"}

\* ALLOWED_KNOWLEDGE_TRANSITIONS
Allowed(from) ==
  CASE from = "NEW" -> {"EXTRACTED", "REJECTED", "SUPERSEDED"}
    [] from = "EXTRACTED" -> {"VALIDATED", "NEEDS_REVIEW", "REJECTED", "SUPERSEDED"}
    [] from = "VALIDATED" -> {"NEEDS_REVIEW", "APPROVED", "REJECTED", "SUPERSEDED"}
    [] from = "NEEDS_REVIEW" -> {"APPROVED", "REJECTED", "CONFLICTED", "SUPERSEDED"}
    [] from = "APPROVED" -> {"SUPERSEDED", "CONFLICTED"}
    [] from = "CONFLICTED" -> {"NEEDS_REVIEW", "SUPERSEDED"}
    [] from = "REJECTED" -> {"SUPERSEDED"}
    [] OTHER -> {}

Ref == [source : Source, document : Nat]

RefOf(report) == [source |-> report.source, document |-> report.document]

Absent == [status |-> "ABSENT", refs |-> {}, from |-> Handbook, sure |-> FALSE, version |-> 0]

Idle == [phase |-> "idle"]

\* What is left of a call, statement by statement: change a status, fold one
\* rule into another, or write the source refs of a rule.
Move(r, to) == [do |-> "move", rule |-> r, to |-> to]
Fold(r, into) == [do |-> "fold", rule |-> r, into |-> into]
Write(r, refs) == [do |-> "write", rule |-> r, refs |-> refs]

Calls(phase, script) == [phase |-> phase, script |-> script, checked |-> FALSE]

KnowledgeInit ==
  /\ rule = [r \in Rules |-> Absent]
  /\ versions = <<>>
  /\ current = 0
  /\ op = [o \in Operator |-> Idle]
  /\ work = [w \in Worker |-> Idle]
  /\ overtaken = [o \in Operator |-> {}]

\* The elements of S in an order.
InOrder(S, Before(_, _)) ==
  CHOOSE s \in [1..Cardinality(S) -> S] :
    \A i, j \in DOMAIN s : i < j => Before(s[i], s[j])

\* The rules in these statuses, in the order of their ids.
Listed(statuses) ==
  InOrder({r \in Rules : rule[r].status \in statuses}, <)

Sources(r) == {ref.source : ref \in rule[r].refs}

-----------------------------------------------------------------------------
(* Ingestion *)

\* insertRule of a fresh candidate.
Insert(w, report) ==
  /\ work[w] = Idle
  /\ rule[report.rule].status = "ABSENT"
  /\ rule' = [rule EXCEPT ![report.rule] =
       [status |-> "NEW", refs |-> {RefOf(report)}, from |-> report.source,
        sure |-> report.sure, version |-> 0]]
  /\ UNCHANGED <<versions, current, op, work, overtaken>>

\* insertRule found the fingerprint: corroborateRule reads the rule.
StartCorroboration(w, report) ==
  /\ work[w] = Idle
  /\ rule[report.rule].status # "ABSENT"
  /\ RefOf(report) \notin rule[report.rule].refs
  /\ work' = [work EXCEPT ![w] =
       [phase |-> "read", rule |-> report.rule,
        refs |-> rule[report.rule].refs \cup {RefOf(report)}]]
  /\ UNCHANGED <<rule, versions, current, op, overtaken>>

FinishCorroboration(w) ==
  /\ work[w] # Idle
  /\ rule' = [rule EXCEPT ![work[w].rule].refs = work[w].refs]
  /\ work' = [work EXCEPT ![w] = Idle]
  /\ UNCHANGED <<versions, current, op, overtaken>>

\* A worker process dies or its job fails; the job is retried from the start.
LoseWork(w) ==
  /\ work[w] # Idle
  /\ work' = [work EXCEPT ![w] = Idle]
  /\ UNCHANGED <<rule, versions, current, op, overtaken>>

-----------------------------------------------------------------------------
(* The review pipeline *)

\* A call begins, lists again, or ends: nothing it knows is out of date.
Enter(o, state) ==
  /\ op' = [op EXCEPT ![o] = state]
  /\ overtaken' = [overtaken EXCEPT ![o] = {}]

\* A call goes on with what it listed.
Continue(o, state) ==
  /\ op' = [op EXCEPT ![o] = state]
  /\ UNCHANGED overtaken

Extraction ==
  LET fresh == Listed({"NEW"})
  IN  [i \in DOMAIN fresh |-> Move(fresh[i], "EXTRACTED")]

\* compareMergeCandidates: the higher confidence, then the stable order.
MergesInto(q, r) ==
  /\ q # r
  /\ \/ rule[q].sure /\ ~ rule[r].sure
     \/ rule[q].sure = rule[r].sure /\ q < r

\* Mutation: retired rules are not left out of the plans.
AllMergeable(pool) == {r \in Rules : rule[r].status # "ABSENT"}

\* NON_MERGEABLE_STATUSES
Mergeable(pool) ==
  {r \in pool : rule[r].status \notin {"APPROVED", "REJECTED", "SUPERSEDED"}}

\* planCorroborationMerges: one plan per canonical value with at least two
\* renderings from at least two sources.
Primary(bucket) ==
  CHOOSE q \in bucket : \A r \in bucket \ {q} : MergesInto(q, r)

Merges ==
  LET pool == Mergeable(ToSet(Listed({"VALIDATED", "NEEDS_REVIEW", "EXTRACTED", "CONFLICTED"})))
      Bucket(v) == {r \in pool : Value[r] = v}
      Plan(v) ==
        IF Cardinality(UNION {Sources(r) : r \in Bucket(v)}) < 2 THEN <<>>
        ELSE LET secondaries == InOrder(Bucket(v) \ {Primary(Bucket(v))}, MergesInto)
             IN  [i \in DOMAIN secondaries |-> Fold(secondaries[i], Primary(Bucket(v)))]
      values == SetToSeq({Value[r] : r \in pool})
  IN  FlattenSeq([i \in DOMAIN values |-> Plan(values[i])])

\* classifyCandidate
Classified(r) ==
  IF /\ rule[r].sure
     /\ Cardinality(Sources(r)) >= 2
     /\ rule[r].from \in Strong
  THEN "VALIDATED" ELSE "NEEDS_REVIEW"

Classification ==
  LET extracted == Listed({"EXTRACTED"})
  IN  [i \in DOMAIN extracted |-> Move(extracted[i], Classified(extracted[i]))]

\* Mutation: every rule of a conflict group is parked.
ParkAll(r) == <<Move(r, "CONFLICTED")>>

\* The transitions that park one rule of a conflict group.
Park(r) ==
  CASE rule[r].status = "VALIDATED" -> <<Move(r, "NEEDS_REVIEW"), Move(r, "CONFLICTED")>>
    [] rule[r].status = "NEEDS_REVIEW" -> <<Move(r, "CONFLICTED")>>
    [] OTHER -> <<>>

\* markCandidateConflicts
Conflicts ==
  LET group == Listed({"VALIDATED", "NEEDS_REVIEW", "APPROVED", "CONFLICTED"})
  IN  IF Cardinality({Value[r] : r \in ToSet(group)}) < 2 THEN <<>>
      ELSE FlattenSeq([i \in DOMAIN group |-> Park(group[i])])

StartPipeline(o) ==
  /\ op[o] = Idle
  /\ Enter(o, Calls("extract", Extraction))
  /\ UNCHANGED <<rule, versions, current, work>>

\* The statements of one part of a call are done: list again for the next.
NextPart(o) ==
  /\ op[o].phase \in {"extract", "merge", "classify", "conflict", "decide"}
  /\ op[o].script = <<>>
  /\ Enter(o, CASE op[o].phase = "extract" -> Calls("merge", Merges)
                [] op[o].phase = "merge" -> Calls("classify", Classification)
                [] op[o].phase = "classify" -> Calls("conflict", Conflicts)
                [] OTHER -> Idle)
  /\ UNCHANGED <<rule, versions, current, work>>

Scripted(o, do) ==
  /\ op[o].phase \in {"extract", "merge", "classify", "conflict", "decide"}
  /\ op[o].script # <<>>
  /\ Head(op[o].script).do = do

Done(o) == [op[o] EXCEPT !.script = Tail(@), !.checked = FALSE]

\* transitionRule reads the row and checks the table; a refusal ends the call.
CheckTransition(o) ==
  /\ Scripted(o, "move") /\ ~ op[o].checked
  /\ LET step == Head(op[o].script)
     IN  IF step.to \in Allowed(rule[step.rule].status)
         THEN Continue(o, [op[o] EXCEPT !.checked = TRUE]) ELSE Enter(o, Idle)
  /\ UNCHANGED <<rule, versions, current, work>>

\* The other calls that work through a script do not learn of the new status.
Overtakes(o, r) ==
  overtaken' = [p \in Operator |->
    IF p = o \/ "script" \notin DOMAIN op[p] THEN overtaken[p] ELSE overtaken[p] \cup {r}]

WriteTransition(o) ==
  /\ Scripted(o, "move") /\ op[o].checked
  /\ LET step == Head(op[o].script)
     IN  /\ rule' = [rule EXCEPT ![step.rule].status = step.to]
         /\ Overtakes(o, step.rule)
  /\ op' = [op EXCEPT ![o] = Done(o)]
  /\ UNCHANGED <<versions, current, work>>

\* mergeCorroboratingRules reads both rules.
ReadMerge(o) ==
  /\ Scripted(o, "fold")
  /\ LET step == Head(op[o].script)
         refs == rule[step.into].refs \cup rule[step.rule].refs
         retire == Move(step.rule, "SUPERSEDED")
     IN  Continue(o, [op[o] EXCEPT !.script =
           (IF refs # rule[step.into].refs
            THEN <<retire, Write(step.into, refs)>>
            ELSE IF rule[step.rule].status # "SUPERSEDED" THEN <<retire>> ELSE <<>>)
           \o Tail(@)])
  /\ UNCHANGED <<rule, versions, current, work>>

WriteRefs(o) ==
  /\ Scripted(o, "write")
  /\ LET step == Head(op[o].script)
     IN  rule' = [rule EXCEPT ![step.rule].refs = step.refs]
  /\ Continue(o, Done(o))
  /\ UNCHANGED <<versions, current, work>>

-----------------------------------------------------------------------------
(* The reviewer *)

\* approveRule, rejectRule, supersedeRule: a conflicted rule passes through
\* NEEDS_REVIEW before it is approved or rejected.
Decide(o, r) ==
  /\ op[o] = Idle
  /\ rule[r].status # "ABSENT"
  /\ \E verdict \in {"APPROVED", "REJECTED", "SUPERSEDED"} :
       Enter(o, Calls("decide",
         IF rule[r].status = "CONFLICTED" /\ verdict # "SUPERSEDED"
         THEN <<Move(r, "NEEDS_REVIEW"), Move(r, verdict)>> ELSE <<Move(r, verdict)>>))
  /\ UNCHANGED <<rule, versions, current, work>>

\* updateRuleReview: the confidence, whatever the status of the rule.
EditRule(o, r) ==
  /\ op[o] = Idle
  /\ rule[r].status # "ABSENT"
  /\ rule' = [rule EXCEPT ![r].sure = ~ @]
  /\ UNCHANGED <<versions, current, op, work, overtaken>>

\* importFixtureCorpus, one insertion at a time; duplicates are skipped.
ImportCorpus(o, r) ==
  /\ op[o] = Idle
  /\ rule[r].status = "ABSENT"
  /\ rule' = [rule EXCEPT ![r] =
       [status |-> "APPROVED", refs |-> {[source |-> Handbook, document |-> 0]},
        from |-> Handbook, sure |-> TRUE, version |-> 0]]
  /\ UNCHANGED <<versions, current, op, work, overtaken>>

-----------------------------------------------------------------------------
(* Publication *)

\* createKnowledgeVersion
CreateVersion(o) ==
  /\ op[o] = Idle
  /\ Len(versions) < MaxVersion
  /\ versions' = Append(versions, "DRAFT")
  /\ Enter(o, [phase |-> "created", version |-> Len(versions) + 1])
  /\ UNCHANGED <<rule, current, work>>

\* publishKnowledgeVersion: the transaction's first statements see the
\* published versions of that moment.
StartPublication(o) ==
  /\ op[o].phase = "created"
  /\ Enter(o, [phase |-> "publishing", version |-> op[o].version,
               retiring |-> {v \in DOMAIN versions : versions[v] = "PUBLISHED"}])
  /\ UNCHANGED <<rule, versions, current, work>>

\* Every approved rule is assigned to the version.
Stamped(v) ==
  [r \in Rules |-> IF rule[r].status = "APPROVED"
                   THEN [rule[r] EXCEPT !.version = v] ELSE rule[r]]

\* Mutation: the published versions are retired after the new one is published.
RetireLast(o) ==
  /\ op[o].phase = "publishing"
  /\ rule' = Stamped(op[o].version)
  /\ versions' = [v \in DOMAIN versions |->
       IF v = op[o].version \/ versions[v] = "PUBLISHED" THEN "RETIRED" ELSE versions[v]]
  /\ current' = op[o].version
  /\ Enter(o, Idle)
  /\ UNCHANGED work

\* ... its later ones stamp the rules and publish, and it commits.
CommitPublication(o) ==
  /\ op[o].phase = "publishing"
  /\ rule' = Stamped(op[o].version)
  /\ versions' = [v \in DOMAIN versions |->
       IF v = op[o].version THEN "PUBLISHED"
       ELSE IF v \in op[o].retiring THEN "RETIRED" ELSE versions[v]]
  /\ current' = op[o].version
  /\ Enter(o, Idle)
  /\ UNCHANGED work

\* The process of a call dies, or its connection: what it committed stays.
Crash(o) ==
  /\ op[o] # Idle
  /\ Enter(o, Idle)
  /\ UNCHANGED <<rule, versions, current, work>>

KnowledgeNext ==
  \/ \E w \in Worker :
       \/ \E report \in Reports : Insert(w, report) \/ StartCorroboration(w, report)
       \/ FinishCorroboration(w)
       \/ LoseWork(w)
  \/ \E o \in Operator :
       \/ NextPart(o)
       \/ CheckTransition(o) \/ WriteTransition(o) \/ ReadMerge(o) \/ WriteRefs(o)
       \/ StartPublication(o) \/ CommitPublication(o)
       \/ Crash(o)
  \/ \E o \in Pipelines : StartPipeline(o)
  \/ \E o \in Reviewers :
       \/ \E r \in Rules : Decide(o, r)
       \/ \E r \in Edited : EditRule(o, r)
       \/ \E r \in Corpus : ImportCorpus(o, r)
       \/ CreateVersion(o)

KnowledgeSpec == KnowledgeInit /\ [][KnowledgeNext]_knowledgeVars

-----------------------------------------------------------------------------

Live(r) == rule[r].status \notin {"ABSENT", "SUPERSEDED", "REJECTED"}

\* getProductionKnowledge
Production == {r \in Rules : rule[r].status = "APPROVED" /\ rule[r].version = current /\ current # 0}

\* Types, with what ties versions and rules together: one version is current
\* once one was published, and rules are stamped with published versions only.
KnowledgeTypeOK ==
  /\ rule \in [Rules -> [status : Status, refs : SUBSET Ref, from : Source,
                         sure : BOOLEAN, version : 0..MaxVersion]]
  /\ versions \in Seq({"DRAFT", "PUBLISHED", "RETIRED"})
  /\ Len(versions) <= MaxVersion
  /\ current \in {0} \cup {v \in DOMAIN versions : versions[v] = "PUBLISHED"}
  /\ \A r \in Rules : rule[r].version # 0 => versions[rule[r].version] # "DRAFT"
  /\ \A r \in Rules : rule[r].status # "ABSENT" => rule[r].refs # {}

\* At most one version is published (publishKnowledgeVersion retires the one
\* before it, in the same transaction).
OnePublishedVersion ==
  \A v, w \in DOMAIN versions :
    versions[v] = "PUBLISHED" /\ versions[w] = "PUBLISHED" => v = w

\* The reviewer's decision to supersede r takes effect.
Superseding(r) ==
  \E o \in Operator :
    /\ op'[o] # op[o]
    /\ op[o].phase = "decide"
    /\ op[o].script # <<>>
    /\ Head(op[o].script) = Move(r, "SUPERSEDED")

\* A call changes the status of r, and another call changed that of a rule in
\* qs after the first one had listed what it is to do.
Overtaken(r, qs) ==
  \E o \in Operator :
    /\ op'[o] # op[o]
    /\ Scripted(o, "move")
    /\ Head(op[o].script).rule = r
    /\ overtaken[o] \cap qs # {}

\* "Production rules stay stable until a human supersedes them": whatever
\* pipelines, ingestion, publications and decisions about other rules do, a rule
\* leaves the production set only by the reviewer's decision to supersede it, or
\* by a call that did not know of the latest status of this very rule.
ProductionStaysStable ==
  [][\A r \in Production :
       r \in Production' \/ Superseding(r) \/ Overtaken(r, {r})]_knowledgeVars

\* What the comment promises without exception: transitionRule neither locks the
\* row nor repeats its check when it writes, so an approval may be written over.
ApprovedStaysInProduction ==
  [][\A r \in Production : r \in Production' \/ Superseding(r)]_knowledgeVars

\* Without a decision a rule is retired only while another live rule states the
\* same value, so merging never makes a fact disappear from review and
\* production - unless another call moved a rule of that value in the meantime.
FactsSurviveMerging ==
  [][\A r \in Rules :
       Live(r) /\ rule'[r].status = "SUPERSEDED" /\ ~ Superseding(r) =>
         LET same == {q \in Rules : Value[q] = Value[r]}
         IN  (\E q \in same \ {r} : Live(q)) \/ Overtaken(r, same)]_knowledgeVars

\* corroborateRule: "merged into the existing rule instead of being dropped, so
\* high-confidence FACT claims accumulate their >= 2 independent sources on one
\* reviewable rule".  Evidence for a fact that a live rule states is recorded on
\* a live rule, not only on one that was folded into it.
EvidenceStaysReviewable ==
  [][\A r, q \in Rules :
       /\ rule[r].status = "SUPERSEDED"
       /\ Live(q) /\ Value[q] = Value[r]
       => rule'[r].refs \ rule[r].refs \subseteq rule'[q].refs]_knowledgeVars

=============================================================================
