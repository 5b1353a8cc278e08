----------------------- MODULE KnowledgeReviewProofs -----------------------
(***************************************************************************)
(* Theorems about KnowledgeReview, for any rules, renderings, sources,     *)
(* reports and ingestion runs.                                             *)
(*                                                                         *)
(* KnowledgeInv says of every call what it may still have to run: only     *)
(* statements on rules that exist, with references to write, and versions  *)
(* that were created.  It holds whatever calls overlap.  ReviewInv says    *)
(* what a list read at the start of a part of the pipeline is still good   *)
(* for when its statements run: no approved rule is parked or folded, and  *)
(* a rule that is still to be retired leaves another one of its value      *)
(* alive - unless another call moved that rule since the list was read.    *)
(* A call does no more damage than to what other calls overtook it on.     *)
(***************************************************************************)
EXTENDS KnowledgeReview, FiniteSetTheorems, FunctionTheorems, SequenceTheorems,
        WellFoundedInduction, TLAPS

Row == [status : Status, refs : SUBSET Ref, from : Source,
        sure : BOOLEAN, version : 0..MaxVersion]

Rows == [Rules -> Row]

\* What a state of the rows says of the rules.
Existing(rows) == {r \in Rules : rows[r].status # "ABSENT"}
Unapproved(rows) == {r \in Existing(rows) : rows[r].status # "APPROVED"}
Surviving(rows) == {r \in Rules : rows[r].status \notin {"ABSENT", "SUPERSEDED", "REJECTED"}}

Evidence == {refs \in SUBSET Ref : refs # {}}

\* The statements of each part of a call, over the rules it may name.
Moves(rs, to) == [do : {"move"}, rule : rs, to : to]
Folds(rs, into) == [do : {"fold"}, rule : rs, into : into]
Writes(rs) == [do : {"write"}, rule : rs, refs : Evidence]

Extracts(ex) == Moves(ex, {"EXTRACTED"})
MergeSteps(ex) == Folds(ex, ex) \cup Moves(ex, {"SUPERSEDED"}) \cup Writes(ex)
Classifies(ex) == Moves(ex, {"VALIDATED", "NEEDS_REVIEW"})
Parks(ex) == Moves(ex, {"NEEDS_REVIEW", "CONFLICTED"})
Verdicts(ex) == Moves(ex, {"NEEDS_REVIEW", "APPROVED", "REJECTED", "SUPERSEDED"})

Reviewing(phase, steps) == [phase : {phase}, script : Seq(steps), checked : BOOLEAN]

Parts == {"extract", "merge", "classify", "conflict", "decide"}

StepsOf(part, ex) ==
  CASE part = "extract" -> Extracts(ex)
    [] part = "merge" -> MergeSteps(ex)
    [] part = "classify" -> Classifies(ex)
    [] part = "conflict" -> Parks(ex)
    [] part = "decide" -> Verdicts(ex)

Reviews(ex) == UNION {Reviewing(part, StepsOf(part, ex)) : part \in Parts}

Created(n) == [phase : {"created"}, version : 1..n]
Publishing(n) == [phase : {"publishing"}, version : 1..n, retiring : SUBSET (1..n)]

CallState(ex, n) == {Idle} \cup Reviews(ex) \cup Created(n) \cup Publishing(n)

WorkState(ex) == {Idle} \cup [phase : {"read"}, rule : ex, refs : Evidence]

RowsOK(rows, vs) ==
  /\ rows \in Rows
  /\ \A r \in Rules : rows[r].version # 0 =>
       rows[r].version \in DOMAIN vs /\ vs[rows[r].version] # "DRAFT"
  /\ \A r \in Existing(rows) : rows[r].refs # {}
  /\ IsFiniteSet(Existing(rows))

VersionsOK(vs, cur) ==
  /\ vs \in Seq({"DRAFT", "PUBLISHED", "RETIRED"})
  /\ Len(vs) <= MaxVersion
  /\ cur \in {0} \cup {v \in DOMAIN vs : vs[v] = "PUBLISHED"}

KnowledgeInv ==
  /\ RowsOK(rule, versions)
  /\ VersionsOK(versions, current)
  /\ op \in [Operator -> CallState(Existing(rule), Len(versions))]
  /\ work \in [Worker -> WorkState(Existing(rule))]

-----------------------------------------------------------------------------
(* What a script is still good for *)

\* The rules whose status the rest of a script is still to change; those of a
\* merge are to be retired.
Targets(script) ==
  {script[i].rule : i \in {j \in DOMAIN script : script[j].do # "write"}}

\* A check that passed still holds when the statement after it runs, or another
\* call moved the rule.
ChecksHold(call, rows, over) ==
  call.phase \in Parts /\ call.checked =>
      /\ call.script # <<>> /\ Head(call.script).do = "move"
      /\ \/ Head(call.script).to \in Allowed(rows[Head(call.script).rule].status)
         \/ Head(call.script).rule \in over

\* Neither merging nor parking reaches a rule that was approved when it was listed.
SparesApproved(call, rows, over) ==
  call.phase \in {"merge", "conflict"} =>
    Targets(call.script) \subseteq Unapproved(rows) \cup over

\* Every rule that is still to be retired leaves a rule of its value alive.
LeavesPrimary(call, rows, over) ==
  call.phase = "merge" =>
    \A r \in Targets(call.script) :
      \E q \in (Surviving(rows) \ Targets(call.script)) \cup over : Value[q] = Value[r]

CallSound(call, rows, over) ==
  /\ ChecksHold(call, rows, over)
  /\ SparesApproved(call, rows, over)
  /\ LeavesPrimary(call, rows, over)

ReviewInv ==
  /\ KnowledgeInv
  /\ overtaken \in [Operator -> SUBSET Rules]
  /\ \A o \in Operator : CallSound(op[o], rule, overtaken[o])

-----------------------------------------------------------------------------
(* Lists: what sorting a finite set and flattening a list of lists give *)

\* A nonempty set of naturals has a least element.
LEMMA LeastNatural ==
  ASSUME NEW S \in SUBSET Nat, S # {}
  PROVE  \E n \in S : \A m \in S : n <= m
  <1>1. PICK n \in S : \A m \in S : ~ (<<m, n>> \in OpToRel(<, Nat))
    BY NatLessThanWellFounded, WFMin
  <1>2. ASSUME NEW m \in S, ~(n <= m)  PROVE FALSE
    <2>1. m \in Nat /\ n \in Nat /\ m < n
      BY <1>2
    <2>2. <<m, n>> \in OpToRel(<, Nat)
      BY <2>1 DEF OpToRel
    <2> QED
      BY <1>1, <2>2
  <1> QED
    BY <1>2

\* A property of every subset of a finite set follows from the smaller ones.
LEMMA FiniteInduction ==
  ASSUME NEW S, IsFiniteSet(S), NEW Q,
         \A s \in SUBSET S : (\A t \in SUBSET s : t # s => t \in Q) => s \in Q
  PROVE  \A s \in SUBSET S : s \in Q
  <1> DEFINE Bad == {s \in SUBSET S : s \notin Q}
             Sizes == {Cardinality(s) : s \in Bad}
  <1>1. \A s \in SUBSET S : IsFiniteSet(s) /\ Cardinality(s) \in Nat
    BY FS_Subset, FS_CardinalityType
  <1>2. SUFFICES ASSUME Bad # {}  PROVE FALSE
    OBVIOUS
  <1>3. Sizes \subseteq Nat /\ Sizes # {}
    BY <1>1, <1>2
  <1>4. PICK n \in Sizes : \A m \in Sizes : n <= m
    <2>1. Sizes \in SUBSET Nat /\ Sizes # {}
      BY <1>3
    <2> HIDE DEF Sizes
    <2> QED
      BY <2>1, LeastNatural
  <1>5. PICK s \in Bad : Cardinality(s) = n
    OBVIOUS
  <1>6. ASSUME NEW t \in SUBSET s, t # s  PROVE t \in Q
    <2>1. Cardinality(t) < n /\ Cardinality(t) \in Nat /\ n \in Nat
      BY <1>1, <1>5, <1>6, FS_Subset
    <2>2. Cardinality(t) \notin Sizes
      BY <2>1, <1>4
    <2> QED
      BY <2>2, <1>5
  <1> QED
    BY <1>5, <1>6

StrictOrder(S, R) ==
  /\ \A a, b \in S : a # b => <<a, b>> \in R \/ <<b, a>> \in R
  /\ \A a, b, c \in S : <<a, b>> \in R /\ <<b, c>> \in R => <<a, c>> \in R

\* A nonempty finite set has an element that comes before all others.
LEMMA FirstExists ==
  ASSUME NEW S, IsFiniteSet(S), NEW R, StrictOrder(S, R), S # {}
  PROVE  \E q \in S : \A r \in S \ {q} : <<q, r>> \in R
  <1> DEFINE Q == {t \in SUBSET S :
                    t # {} => \E q \in t : \A r \in t \ {q} : <<q, r>> \in R}
  <1>1. ASSUME NEW t \in SUBSET S, \A u \in SUBSET t : u # t => u \in Q
        PROVE  t \in Q
    <2>1. CASE t = {}
      BY <2>1
    <2>2. CASE t # {}
      <3>1. PICK x \in t : TRUE
        BY <2>2
      <3>2. CASE t \ {x} = {}
        <4>1. \A r \in t \ {x} : <<x, r>> \in R
          BY <3>2
        <4> QED
          BY <4>1, <3>1
      <3>3. CASE t \ {x} # {}
        <4>1. t \ {x} \in Q
          BY <1>1, <3>1
        <4>2. PICK q \in t \ {x} : \A r \in (t \ {x}) \ {q} : <<q, r>> \in R
          BY <4>1, <3>3
        <4>3. x \in S /\ q \in S /\ t \subseteq S /\ x # q
          BY <3>1, <4>2
        <4>4. CASE <<q, x>> \in R
          <5>1. \A r \in t \ {q} : <<q, r>> \in R
            BY <4>2, <4>4
          <5> QED
            BY <5>1, <4>2
        <4>5. CASE <<x, q>> \in R
          <5>1. \A r \in t \ {x} : <<x, r>> \in R
            BY <4>2, <4>3, <4>5 DEF StrictOrder
          <5> QED
            BY <5>1, <3>1
        <4> QED
          BY <4>3, <4>4, <4>5 DEF StrictOrder
      <3> QED
        BY <3>2, <3>3
    <2> QED
      BY <2>1, <2>2
  <1>2. \A t \in SUBSET S : t \in Q
    <2> HIDE DEF Q
    <2> QED
      BY <1>1, FiniteInduction
  <1>3. S \in Q
    BY <1>2
  <1> QED
    BY <1>3

Sorted(s, R) == \A i, j \in DOMAIN s : i < j => <<s[i], s[j]>> \in R

\* A finite set can be listed in any strict order.
LEMMA SortedExists ==
  ASSUME NEW S, IsFiniteSet(S), NEW R, StrictOrder(S, R)
  PROVE  \E s \in [1..Cardinality(S) -> S] : Sorted(s, R)
  <1> DEFINE Q == {t \in SUBSET S : \E s \in [1..Cardinality(t) -> t] : Sorted(s, R)}
  <1>1. ASSUME NEW t \in SUBSET S, \A u \in SUBSET t : u # t => u \in Q
        PROVE  t \in Q
    <2>0. IsFiniteSet(t) /\ Cardinality(t) \in Nat
      BY FS_Subset, FS_CardinalityType
    <2>1. CASE t = {}
      <3>1. Cardinality(t) = 0
        BY <2>1, FS_EmptySet
      <3> DEFINE s == [i \in 1..0 |-> i]
      <3>2. s \in [1..0 -> t] /\ Sorted(s, R)
        BY DEF Sorted
      <3> QED
        BY <3>1, <3>2
    <2>2. CASE t # {}
      <3>1. StrictOrder(t, R)
        BY DEF StrictOrder
      <3>2. PICK q \in t : \A r \in t \ {q} : <<q, r>> \in R
        BY <2>0, <2>2, <3>1, FirstExists
      <3> DEFINE u == t \ {q}
                 n == Cardinality(u)
      <3>3. n \in Nat /\ Cardinality(t) = n + 1
        <4>1. IsFiniteSet(u) /\ Cardinality(u) = Cardinality(t) - 1
          BY <2>0, <3>2, FS_RemoveElement
        <4>2. Cardinality(u) \in Nat
          BY <4>1, FS_CardinalityType
        <4> QED
          BY <2>0, <4>1, <4>2
      <3>4. PICK s \in [1..n -> u] : Sorted(s, R)
        <4>1. u \in Q
          BY <1>1, <3>2
        <4> QED
          BY <4>1
      <3> HIDE DEF u, n
      <3>5. u \subseteq t /\ q \in t /\ \A r \in u : <<q, r>> \in R
        BY <3>2 DEF u
      <3> DEFINE w == [i \in 1..(n + 1) |-> IF i = 1 THEN q ELSE s[i - 1]]
      <3>6. \A i \in 1..(n + 1) : i # 1 => i - 1 \in 1..n /\ s[i - 1] \in u
        BY <3>3, <3>4
      <3>7. w \in [1..(n + 1) -> t]
        BY <3>5, <3>6
      <3>8. ASSUME NEW i \in 1..(n + 1), NEW j \in 1..(n + 1), i < j
            PROVE  <<w[i], w[j]>> \in R
        <4>1. j # 1 /\ w[j] = s[j - 1] /\ j - 1 \in 1..n
          BY <3>3, <3>8, <3>6
        <4>2. CASE i = 1
          BY <4>1, <4>2, <3>5, <3>6
        <4>3. CASE i # 1
          <5>1. w[i] = s[i - 1] /\ i - 1 \in 1..n /\ i - 1 < j - 1
            BY <3>3, <3>8, <3>6, <4>3
          <5> QED
            BY <5>1, <4>1, <3>4 DEF Sorted
        <4> QED
          BY <4>2, <4>3
      <3>9. Sorted(w, R)
        BY <3>7, <3>8 DEF Sorted
      <3> QED
        BY <3>3, <3>7, <3>9
    <2> QED
      BY <2>1, <2>2
  <1>2. \A t \in SUBSET S : t \in Q
    <2> HIDE DEF Q
    <2> QED
      BY <1>1, FiniteInduction
  <1>3. S \in Q
    BY <1>2
  <1> QED
    BY <1>3

\* Listing the rules in some statuses gives a sequence of these rules.
LEMMA ListedType ==
  ASSUME rule \in Rows, IsFiniteSet(Existing(rule)),
         NEW statuses, "ABSENT" \notin statuses
  PROVE  Listed(statuses) \in Seq({r \in Existing(rule) : rule[r].status \in statuses})
  <1> DEFINE S == {r \in Rules : rule[r].status \in statuses}
             R == {p \in S \X S : p[1] < p[2]}
  <1>1. S \subseteq Nat /\ IsFiniteSet(S)
    <2>1. S \subseteq Existing(rule)
      BY DEF Existing
    <2> QED
      BY <2>1, FS_Subset, KnowledgeAssumption
  <1>2. StrictOrder(S, R)
    BY <1>1 DEF StrictOrder
  <1>3. PICK s \in [1..Cardinality(S) -> S] : Sorted(s, R)
    <2> HIDE DEF R
    <2> QED
      BY <1>1, <1>2, SortedExists
  <1>4. \A i, j \in DOMAIN s : i < j => s[i] < s[j]
    BY <1>3 DEF Sorted
  <1>5. Listed(statuses) \in [1..Cardinality(S) -> S]
    BY <1>4 DEF Listed, InOrder
  <1>6. Cardinality(S) \in Nat
    BY <1>1, FS_CardinalityType
  <1>7. Listed(statuses) \in Seq(S)
    <2> HIDE DEF S
    <2> QED
      BY <1>5, <1>6
  <1>8. S = {r \in Existing(rule) : rule[r].status \in statuses}
    BY DEF Existing
  <1> QED
    BY <1>7, <1>8

\* compareMergeCandidates is a strict order: renderings never tie.
LEMMA MergeOrder ==
  ASSUME rule \in Rows, NEW S \in SUBSET Rules
  PROVE  StrictOrder(S, {p \in S \X S : MergesInto(p[1], p[2])})
  <1>1. \A r \in S : r \in Nat /\ rule[r].sure \in BOOLEAN
    BY KnowledgeAssumption DEF Rows, Row
  <1>2. \A a, b \in S : a # b => MergesInto(a, b) \/ MergesInto(b, a)
    BY <1>1 DEF MergesInto
  <1>3. \A a, b, c \in S : MergesInto(a, b) /\ MergesInto(b, c) => MergesInto(a, c)
    BY <1>1 DEF MergesInto
  <1> HIDE DEF MergesInto
  <1> QED
    BY <1>2, <1>3 DEF StrictOrder

\* Listing renderings by that order gives a sequence of them.
LEMMA InMergeOrder ==
  ASSUME rule \in Rows, NEW S \in SUBSET Rules, IsFiniteSet(S)
  PROVE  InOrder(S, MergesInto) \in Seq(S)
  <1> DEFINE R == {p \in S \X S : MergesInto(p[1], p[2])}
  <1>1. StrictOrder(S, R)
    BY MergeOrder
  <1>2. PICK s \in [1..Cardinality(S) -> S] : Sorted(s, R)
    <2> HIDE DEF R
    <2> QED
      BY <1>1, SortedExists
  <1>3. \A i, j \in DOMAIN s : i < j => MergesInto(s[i], s[j])
    BY <1>2 DEF Sorted
  <1>4. InOrder(S, MergesInto) \in [1..Cardinality(S) -> S]
    BY <1>3 DEF InOrder
  <1>5. Cardinality(S) \in Nat
    BY FS_CardinalityType
  <1> QED
    BY <1>4, <1>5

\* A nonempty bucket of renderings has a primary.
LEMMA PrimaryExists ==
  ASSUME rule \in Rows, NEW S \in SUBSET Rules, IsFiniteSet(S), S # {}
  PROVE  Primary(S) \in S
  <1> DEFINE R == {p \in S \X S : MergesInto(p[1], p[2])}
  <1>1. StrictOrder(S, R)
    BY MergeOrder
  <1>2. \E q \in S : \A r \in S \ {q} : <<q, r>> \in R
    <2> HIDE DEF R
    <2> QED
      BY <1>1, FirstExists
  <1>3. \E q \in S : \A r \in S \ {q} : MergesInto(q, r)
    BY <1>2
  <1> HIDE DEF MergesInto
  <1> QED
    BY <1>3 DEF Primary

\* A finite set can be listed without an order.
LEMMA AnyOrder ==
  ASSUME NEW S, IsFiniteSet(S)
  PROVE  SetToSeq(S) \in Seq(S)
  <1>1. Cardinality(S) \in Nat /\ ExistsBijection(1..Cardinality(S), S)
    BY FS_CardinalityType
  <1>2. \E f \in [1..Cardinality(S) -> S] : IsInjective(f)
    BY <1>1 DEF ExistsBijection, Bijection, Injection, IsInjective
  <1>3. SetToSeq(S) \in [1..Cardinality(S) -> S]
    BY <1>2 DEF SetToSeq
  <1> QED
    BY <1>1, <1>3

\* The recursion by which FlattenSeq joins the lists of a list.
JoinBy(seqs, f, i) == IF i = 1 THEN seqs[i] ELSE f[i - 1] \o seqs[i]

Join(seqs) == CHOOSE f : f = [i \in 1..Len(seqs) |-> JoinBy(seqs, f, i)]

\* That recursion defines a function up to every length.
LEMMA JoinExists ==
  ASSUME NEW seqs, NEW m \in Nat
  PROVE  \E f : f = [i \in 1..m |-> JoinBy(seqs, f, i)]
  <1> DEFINE P(k) == \E f : f = [i \in 1..k |-> JoinBy(seqs, f, i)]
             Bad == {k \in Nat : ~P(k)}
  <1>1. P(0)
    <2> DEFINE f == [i \in 1..0 |-> <<>>]
    <2>1. f = [i \in 1..0 |-> JoinBy(seqs, f, i)]
      OBVIOUS
    <2> QED
      BY <2>1
  <1>2. ASSUME NEW k \in Nat, P(k)  PROVE P(k + 1)
    <2>1. PICK f : f = [i \in 1..k |-> JoinBy(seqs, f, i)]
      BY <1>2
    <2> DEFINE g == [i \in 1..(k + 1) |->
                       IF i <= k THEN f[i] ELSE JoinBy(seqs, f, i)]
    <2>2. ASSUME NEW i \in 1..(k + 1)  PROVE g[i] = JoinBy(seqs, g, i)
      <3>1. g[i] = JoinBy(seqs, f, i)
        <4>1. CASE i <= k
          <5>1. f[i] = JoinBy(seqs, f, i)
            BY <2>1, <4>1
          <5> QED
            BY <5>1, <4>1
        <4>2. CASE ~(i <= k)
          BY <4>2
        <4> QED
          BY <4>1, <4>2
      <3>2. i # 1 => g[i - 1] = f[i - 1]
        OBVIOUS
      <3> QED
        BY <3>1, <3>2 DEF JoinBy
    <2> HIDE DEF g
    <2>3. g = [i \in 1..(k + 1) |-> JoinBy(seqs, g, i)]
      <3>1. DOMAIN g = 1..(k + 1) /\ g = [i \in DOMAIN g |-> g[i]]
        BY DEF g
      <3> QED
        BY <3>1, <2>2
    <2> QED
      BY <2>3
  <1>3. Bad = {}
    <2> SUFFICES ASSUME Bad # {}  PROVE FALSE
      OBVIOUS
    <2> HIDE DEF P
    <2>1. PICK k \in Bad : \A j \in Bad : k <= j
      BY LeastNatural
    <2>2. k # 0 /\ k - 1 \in Nat
      BY <1>1
    <2>3. k - 1 \notin Bad
      BY <2>1, <2>2
    <2>4. P((k - 1) + 1)
      BY <1>2, <2>2, <2>3
    <2> QED
      BY <2>2, <2>4
  <1> HIDE DEF P
  <1>4. P(m)
    BY <1>3
  <1> QED
    BY <1>4 DEF P

\* Flattening lists over a set gives a list over that set.
LEMMA FlattenType ==
  ASSUME NEW T, NEW seqs \in Seq(Seq(T))
  PROVE  FlattenSeq(seqs) \in Seq(T)
  <1> DEFINE n == Len(seqs)
             join == Join(seqs)
             Bad == {i \in Nat : i \in 1..n /\ join[i] \notin Seq(T)}
  <1>1. n \in Nat
    BY LenProperties
  <1>2. CASE n = 0
    BY <1>2, EmptySeq DEF FlattenSeq
  <1>3. CASE n # 0
    <2>1. join = [i \in 1..n |-> JoinBy(seqs, join, i)]
      <3>1. \E f : f = [i \in 1..n |-> JoinBy(seqs, f, i)]
        BY <1>1, JoinExists
      <3> QED
        BY <3>1 DEF Join
    <2>2. FlattenSeq(seqs) = join[n]
      BY <1>3 DEF FlattenSeq, Join, JoinBy
    <2>3. \A i \in 1..n : join[i] = JoinBy(seqs, join, i)
      <3> HIDE DEF join
      <3> QED
        BY <2>1
    <2>4. Bad = {}
      <3> HIDE DEF join
      <3> SUFFICES ASSUME Bad # {}  PROVE FALSE
        OBVIOUS
      <3>1. PICK i \in Bad : \A j \in Bad : i <= j
        BY LeastNatural
      <3>2. i \in 1..n /\ i \in Nat /\ seqs[i] \in Seq(T)
        BY <1>1, ElementOfSeq
      <3>3. i # 1
        BY <2>3, <3>1, <3>2 DEF JoinBy
      <3>4. i - 1 \in 1..n /\ i - 1 \in Nat /\ i - 1 \notin Bad
        BY <1>1, <3>1, <3>2, <3>3
      <3>5. join[i - 1] \in Seq(T)
        BY <3>4
      <3>6. join[i - 1] \o seqs[i] \in Seq(T)
        BY <3>2, <3>5, ConcatProperties
      <3>7. join[i] = join[i - 1] \o seqs[i]
        BY <2>3, <3>2, <3>3 DEF JoinBy
      <3> QED
        BY <3>1, <3>6, <3>7
    <2>5. n \in 1..n
      BY <1>1, <1>3
    <2> QED
      <3> HIDE DEF join
      <3> QED
        BY <1>1, <2>2, <2>4, <2>5
  <1> QED
    BY <1>2, <1>3

-----------------------------------------------------------------------------
(* KnowledgeInv: what a step leaves *)

\* A call may still run what it could when there are more rules and versions.
LEMMA CallStateGrows ==
  ASSUME NEW ex, NEW more, ex \subseteq more,
         NEW n \in Nat, NEW m \in Nat, n <= m
  PROVE  CallState(ex, n) \subseteq CallState(more, m)
  <1>1. \A S, T : S \subseteq T => Seq(S) \subseteq Seq(T)
    OBVIOUS
  <1>2. /\ Extracts(ex) \subseteq Extracts(more)
        /\ MergeSteps(ex) \subseteq MergeSteps(more)
        /\ Classifies(ex) \subseteq Classifies(more)
        /\ Parks(ex) \subseteq Parks(more)
        /\ Verdicts(ex) \subseteq Verdicts(more)
    BY DEF Extracts, MergeSteps, Classifies, Parks, Verdicts, Moves, Folds, Writes
  <1>3. \A phase, S, T : S \subseteq T => Reviewing(phase, S) \subseteq Reviewing(phase, T)
    BY <1>1 DEF Reviewing
  <1>4. 1..n \subseteq 1..m
    OBVIOUS
  <1>5. \A part \in Parts :
          Reviewing(part, StepsOf(part, ex)) \subseteq Reviewing(part, StepsOf(part, more))
    <2>1. \A part \in Parts : StepsOf(part, ex) \subseteq StepsOf(part, more)
      BY <1>2 DEF StepsOf, Parts
    <2> QED
      BY <1>3, <2>1
  <1>6. Created(n) \subseteq Created(m)
    BY <1>4 DEF Created
  <1>7. Publishing(n) \subseteq Publishing(m)
    BY <1>4 DEF Publishing
  <1>8. Reviews(ex) \subseteq Reviews(more)
    BY <1>5 DEF Reviews
  <1> QED
    BY <1>6, <1>7, <1>8 DEF CallState

\* ... and so may an ingestion run.
LEMMA WorkStateGrows ==
  ASSUME NEW ex, NEW more, ex \subseteq more
  PROVE  WorkState(ex) \subseteq WorkState(more)
  BY DEF WorkState

\* One row is written: it exists afterwards and is stamped as before.
LEMMA RowWritten ==
  ASSUME RowsOK(rule, versions), NEW r \in Rules, NEW row \in Row,
         row.status # "ABSENT", row.refs # {}, row.version \in {0, rule[r].version},
         NEW rows, rows = [rule EXCEPT ![r] = row]
  PROVE  RowsOK(rows, versions) /\ Existing(rule) \subseteq Existing(rows)
  <1>1. rows \in Rows /\ rows[r] = row /\ \A q \in Rules \ {r} : rows[q] = rule[q]
    BY DEF RowsOK, Rows
  <1>2. Existing(rows) = Existing(rule) \cup {r}
    BY <1>1 DEF Existing
  <1>3. IsFiniteSet(Existing(rows))
    <2>1. IsFiniteSet(Existing(rule))
      BY DEF RowsOK
    <2>2. IsFiniteSet(Existing(rule) \cup {r})
      BY <2>1, FS_AddElement
    <2> QED
      BY <1>2, <2>2
  <1>4. \A q \in Rules : rows[q].version # 0 =>
          rows[q].version \in DOMAIN versions /\ versions[rows[q].version] # "DRAFT"
    BY <1>1 DEF RowsOK
  <1>5. \A q \in Existing(rows) : rows[q].refs # {}
    <2>1. \A q \in Existing(rows) : q = r \/ (q \in Existing(rule) /\ q \in Rules \ {r})
      BY <1>2 DEF Existing
    <2> QED
      BY <1>1, <2>1 DEF RowsOK
  <1> QED
    BY <1>1, <1>2, <1>3, <1>4, <1>5 DEF RowsOK

\* A change of status keeps the row as it was otherwise.
LEMMA StatusWritten ==
  ASSUME RowsOK(rule, versions), NEW r \in Existing(rule), NEW to \in Status \ {"ABSENT"},
         NEW rows, rows = [rule EXCEPT ![r].status = to]
  PROVE  RowsOK(rows, versions) /\ Existing(rule) \subseteq Existing(rows)
  <1> DEFINE row == [rule[r] EXCEPT !.status = to]
  <1>1. rule[r] \in Row /\ rule[r].refs # {} /\ r \in Rules
    BY DEF RowsOK, Rows, Existing
  <1>2. row \in Row /\ row.status = to /\ row.refs = rule[r].refs
        /\ row.version = rule[r].version
    BY <1>1 DEF Row
  <1>3. rows = [rule EXCEPT ![r] = row]
    OBVIOUS
  <1> HIDE DEF row
  <1> QED
    BY <1>1, <1>2, <1>3, RowWritten

\* So does writing references; there is at least one of them.
LEMMA RefsWritten ==
  ASSUME RowsOK(rule, versions), NEW r \in Existing(rule), NEW refs \in Evidence,
         NEW rows, rows = [rule EXCEPT ![r].refs = refs]
  PROVE  RowsOK(rows, versions) /\ Existing(rule) \subseteq Existing(rows)
  <1> DEFINE row == [rule[r] EXCEPT !.refs = refs]
  <1>1. rule[r] \in Row /\ rule[r].status # "ABSENT" /\ r \in Rules
    BY DEF RowsOK, Rows, Existing
  <1>2. row \in Row /\ row.status = rule[r].status /\ row.refs = refs /\ refs # {}
        /\ row.version = rule[r].version
    BY <1>1 DEF Row, Evidence
  <1>3. rows = [rule EXCEPT ![r] = row]
    OBVIOUS
  <1> HIDE DEF row
  <1> QED
    BY <1>1, <1>2, <1>3, RowWritten

\* So does updateRuleReview.
LEMMA ConfidenceWritten ==
  ASSUME RowsOK(rule, versions), NEW r \in Existing(rule),
         NEW rows, rows = [rule EXCEPT ![r].sure = ~ @]
  PROVE  RowsOK(rows, versions) /\ Existing(rule) \subseteq Existing(rows)
  <1> DEFINE row == [rule[r] EXCEPT !.sure = ~ @]
  <1>1. rule[r] \in Row /\ rule[r].status # "ABSENT" /\ r \in Rules /\ rule[r].refs # {}
    BY DEF RowsOK, Rows, Existing
  <1>2. row \in Row /\ row.status = rule[r].status /\ row.refs = rule[r].refs
        /\ row.version = rule[r].version
    BY <1>1 DEF Row
  <1>3. rows = [rule EXCEPT ![r] = row]
    OBVIOUS
  <1> HIDE DEF row
  <1> QED
    BY <1>1, <1>2, <1>3, RowWritten

\* A step of one call that leaves the rows and versions well formed.
LEMMA CallMoves ==
  ASSUME KnowledgeInv, NEW o \in Operator, NEW c,
         RowsOK(rule', versions'), VersionsOK(versions', current'),
         Existing(rule) \subseteq Existing(rule'), Len(versions) <= Len(versions'),
         c \in CallState(Existing(rule'), Len(versions')),
         op' = [op EXCEPT ![o] = c], work' = work
  PROVE  KnowledgeInv'
  <1>1. Len(versions) \in Nat /\ Len(versions') \in Nat
    BY LenProperties DEF KnowledgeInv, VersionsOK
  <1>2. CallState(Existing(rule), Len(versions)) \subseteq CallState(Existing(rule'), Len(versions'))
    BY <1>1, CallStateGrows
  <1>3. WorkState(Existing(rule)) \subseteq WorkState(Existing(rule'))
    BY WorkStateGrows
  <1>4. op' \in [Operator -> CallState(Existing(rule'), Len(versions'))]
    <2> HIDE DEF CallState
    <2> QED
      BY <1>2 DEF KnowledgeInv
  <1>5. work' \in [Worker -> WorkState(Existing(rule'))]
    BY <1>3 DEF KnowledgeInv
  <1> QED
    BY <1>4, <1>5 DEF KnowledgeInv

\* A step of a call that changes nothing but what the call will do.
LEMMA CallTurns ==
  ASSUME KnowledgeInv, NEW o \in Operator,
         NEW c \in CallState(Existing(rule), Len(versions)),
         op' = [op EXCEPT ![o] = c], UNCHANGED <<rule, versions, current, work>>
  PROVE  KnowledgeInv'
  <1>1. RowsOK(rule', versions') /\ VersionsOK(versions', current')
    BY DEF KnowledgeInv
  <1>2. Len(versions) <= Len(versions')
    BY LenProperties DEF KnowledgeInv, VersionsOK
  <1> QED
    BY <1>1, <1>2, CallMoves

\* A step of an ingestion run, or one outside every call.
LEMMA WorkMoves ==
  ASSUME KnowledgeInv,
         RowsOK(rule', versions), Existing(rule) \subseteq Existing(rule'),
         work' \in [Worker -> WorkState(Existing(rule'))],
         UNCHANGED <<versions, current, op>>
  PROVE  KnowledgeInv'
  <1>1. Len(versions) \in Nat
    BY LenProperties DEF KnowledgeInv, VersionsOK
  <1>2. CallState(Existing(rule), Len(versions)) \subseteq CallState(Existing(rule'), Len(versions))
    BY <1>1, CallStateGrows
  <1>3. op' \in [Operator -> CallState(Existing(rule'), Len(versions'))]
    <2> HIDE DEF CallState
    <2> QED
      BY <1>2 DEF KnowledgeInv
  <1> QED
    BY <1>3 DEF KnowledgeInv

-----------------------------------------------------------------------------
(* What the parts of the pipeline list *)

\* A list made item by item from another one.
LEMMA ListType ==
  ASSUME NEW T, NEW U, NEW list \in Seq(U), NEW s,
         s = [i \in DOMAIN list |-> s[i]], \A i \in DOMAIN list : s[i] \in T
  PROVE  s \in Seq(T)
  <1>1. Len(list) \in Nat /\ DOMAIN list = 1..Len(list)
    BY LenProperties
  <1>2. s \in [1..Len(list) -> T]
    BY <1>1
  <1> QED
    BY <1>1, <1>2

\* Extraction lists rules that exist.
LEMMA ExtractionType ==
  ASSUME RowsOK(rule, versions)
  PROVE  Extraction \in Seq(Extracts(Existing(rule)))
  <1> DEFINE fresh == Listed({"NEW"})
  <1>1. fresh \in Seq({r \in Existing(rule) : rule[r].status \in {"NEW"}})
    BY ListedType DEF RowsOK
  <1> HIDE DEF fresh
  <1> DEFINE s == [i \in DOMAIN fresh |-> Move(fresh[i], "EXTRACTED")]
  <1>2. \A i \in DOMAIN fresh : fresh[i] \in Existing(rule)
    BY <1>1, ElementOfSeq
  <1>3. \A i \in DOMAIN fresh : s[i] \in Extracts(Existing(rule))
    BY <1>2 DEF Extracts, Moves, Move
  <1>4. s = [i \in DOMAIN fresh |-> s[i]]
    OBVIOUS
  <1>5. Extraction = s
    BY DEF Extraction, fresh
  <1> HIDE DEF s
  <1> QED
    BY <1>1, <1>3, <1>4, <1>5, ListType

\* Classification lists rules that exist and gives them one of two statuses.
LEMMA ClassificationType ==
  ASSUME RowsOK(rule, versions)
  PROVE  Classification \in Seq(Classifies(Existing(rule)))
  <1> DEFINE extracted == Listed({"EXTRACTED"})
  <1>1. extracted \in Seq({r \in Existing(rule) : rule[r].status \in {"EXTRACTED"}})
    BY ListedType DEF RowsOK
  <1> HIDE DEF extracted
  <1> DEFINE s == [i \in DOMAIN extracted |-> Move(extracted[i], Classified(extracted[i]))]
  <1>2. \A i \in DOMAIN extracted : extracted[i] \in Existing(rule)
    BY <1>1, ElementOfSeq
  <1>3. \A r : Classified(r) \in {"VALIDATED", "NEEDS_REVIEW"}
    BY DEF Classified
  <1>4. \A i \in DOMAIN extracted : s[i] \in Classifies(Existing(rule))
    BY <1>2, <1>3 DEF Classifies, Moves, Move
  <1>5. s = [i \in DOMAIN extracted |-> s[i]]
    OBVIOUS
  <1>6. Classification = s
    BY DEF Classification, extracted
  <1> HIDE DEF s
  <1> QED
    BY <1>1, <1>4, <1>5, <1>6, ListType

\* Conflict marking has nothing to run on an approved rule.
LEMMA ConflictsType ==
  ASSUME RowsOK(rule, versions)
  PROVE  Conflicts \in Seq(Parks(Unapproved(rule)))
  <1> DEFINE group == Listed({"VALIDATED", "NEEDS_REVIEW", "APPROVED", "CONFLICTED"})
  <1>1. group \in Seq({r \in Existing(rule) : rule[r].status
                        \in {"VALIDATED", "NEEDS_REVIEW", "APPROVED", "CONFLICTED"}})
    BY ListedType DEF RowsOK
  <1> HIDE DEF group
  <1> DEFINE s == [i \in DOMAIN group |-> Park(group[i])]
  <1>2. \A i \in DOMAIN group : group[i] \in Existing(rule)
    BY <1>1, ElementOfSeq
  <1>3. ASSUME NEW r \in Existing(rule)  PROVE Park(r) \in Seq(Parks(Unapproved(rule)))
    <2>1. CASE rule[r].status \in {"VALIDATED", "NEEDS_REVIEW"}
      <3>1. r \in Unapproved(rule)
        BY <2>1 DEF Unapproved
      <3>2. \A to \in {"NEEDS_REVIEW", "CONFLICTED"} : Move(r, to) \in Parks(Unapproved(rule))
        BY <3>1 DEF Parks, Moves, Move
      <3> HIDE DEF Move
      <3> QED
        BY <2>1, <3>2 DEF Park
    <2>2. CASE rule[r].status \notin {"VALIDATED", "NEEDS_REVIEW"}
      BY <2>2, EmptySeq DEF Park
    <2> QED
      BY <2>1, <2>2
  <1>4. \A i \in DOMAIN group : s[i] \in Seq(Parks(Unapproved(rule)))
    BY <1>2, <1>3
  <1>5. s = [i \in DOMAIN group |-> s[i]]
    OBVIOUS
  <1>6. Conflicts \in {<<>>, FlattenSeq(s)}
    BY DEF Conflicts, group
  <1> HIDE DEF s
  <1>7. s \in Seq(Seq(Parks(Unapproved(rule))))
    BY <1>1, <1>4, <1>5, ListType
  <1> QED
    BY <1>6, <1>7, FlattenType, EmptySeq

\* The rules that may be merged, the renderings of one value among them, and
\* the plan for that value.
Pool == Mergeable(ToSet(Listed({"VALIDATED", "NEEDS_REVIEW", "EXTRACTED", "CONFLICTED"})))

Bucket(v) == {r \in Pool : Value[r] = v}

Secondaries(v) == InOrder(Bucket(v) \ {Primary(Bucket(v))}, MergesInto)

Plan(v) ==
  IF Cardinality(UNION {Sources(r) : r \in Bucket(v)}) < 2 THEN <<>>
  ELSE [i \in DOMAIN Secondaries(v) |-> Fold(Secondaries(v)[i], Primary(Bucket(v)))]

\* The folds that a plan may have: a rendering into the primary of its value.
PlannedFolds ==
  {Fold(r, Primary(Bucket(Value[r]))) : r \in {q \in Pool : q # Primary(Bucket(Value[q]))}}

\* The plans of all values, one after the other.
LEMMA MergesIsPlans ==
  Merges = FlattenSeq([i \in DOMAIN SetToSeq({Value[r] : r \in Pool}) |->
                         Plan(SetToSeq({Value[r] : r \in Pool})[i])])
  BY DEF Merges, Plan, Secondaries, Bucket, Pool

\* The pool is a finite set of rules that are alive and not approved.
LEMMA PoolType ==
  ASSUME RowsOK(rule, versions)
  PROVE  IsFiniteSet(Pool) /\ Pool \subseteq Unapproved(rule) /\ Pool \subseteq Surviving(rule)
  <1> DEFINE listed == Listed({"VALIDATED", "NEEDS_REVIEW", "EXTRACTED", "CONFLICTED"})
             open == {r \in Existing(rule) : rule[r].status
                        \in {"VALIDATED", "NEEDS_REVIEW", "EXTRACTED", "CONFLICTED"}}
  <1>1. listed \in Seq(open)
    BY ListedType DEF RowsOK
  <1>2. ToSet(listed) \subseteq open
    <2> HIDE DEF listed, open
    <2> QED
      BY <1>1, ElementOfSeq DEF ToSet
  <1>3. Pool \subseteq open
    BY <1>2 DEF Pool, Mergeable
  <1>4. IsFiniteSet(Existing(rule)) /\ Pool \subseteq Existing(rule)
    BY <1>3 DEF RowsOK
  <1>5. IsFiniteSet(Pool)
    BY <1>4, FS_Subset
  <1> QED
    BY <1>3, <1>5 DEF Unapproved, Surviving, Existing

\* planCorroborationMerges folds renderings into the primary of their value.
LEMMA MergesType ==
  ASSUME RowsOK(rule, versions)
  PROVE  Merges \in Seq(PlannedFolds)
  <1>1. IsFiniteSet(Pool) /\ Pool \subseteq Rules /\ rule \in Rows
    BY PoolType DEF RowsOK, Surviving
  <1>2. ASSUME NEW v  PROVE Plan(v) \in Seq(PlannedFolds)
    <2> DEFINE S == Bucket(v) \ {Primary(Bucket(v))}
    <2>1. S \in SUBSET Rules /\ IsFiniteSet(S)
      <3>1. S \subseteq Pool
        BY DEF Bucket
      <3> QED
        BY <1>1, <3>1, FS_Subset
    <2>2. Secondaries(v) \in Seq(S)
      <3> HIDE DEF S
      <3>1. InOrder(S, MergesInto) \in Seq(S)
        BY <1>1, <2>1, InMergeOrder
      <3> QED
        BY <3>1 DEF Secondaries, S
    <2> DEFINE folds == [i \in DOMAIN Secondaries(v) |-> Fold(Secondaries(v)[i], Primary(Bucket(v)))]
    <2>3. \A r \in S : Fold(r, Primary(Bucket(v))) \in PlannedFolds
      BY DEF Bucket, PlannedFolds
    <2>4. \A i \in DOMAIN Secondaries(v) : Secondaries(v)[i] \in S
      <3> HIDE DEF S
      <3> QED
        BY <2>2, ElementOfSeq
    <2>5. \A i \in DOMAIN Secondaries(v) : folds[i] \in PlannedFolds
      <3> HIDE DEF S
      <3> QED
        BY <2>3, <2>4
    <2>6. folds = [i \in DOMAIN Secondaries(v) |-> folds[i]]
      OBVIOUS
    <2>7. Plan(v) \in {<<>>, folds}
      BY DEF Plan
    <2> HIDE DEF folds, S
    <2>8. folds \in Seq(PlannedFolds)
      BY <2>2, <2>5, <2>6, ListType
    <2> QED
      BY <2>7, <2>8, EmptySeq
  <1> DEFINE values == SetToSeq({Value[r] : r \in Pool})
             plans == [i \in DOMAIN values |-> Plan(values[i])]
  <1>3. values \in Seq({Value[r] : r \in Pool})
    <2> DEFINE V == {Value[r] : r \in Pool}
           f == [r \in Pool |-> Value[r]]
    <2>1. f \in Surjection(Pool, V)
      BY DEF Surjection
    <2> HIDE DEF f, V
    <2>2. IsFiniteSet(V)
      BY <1>1, <2>1, FS_Surjection
    <2>3. SetToSeq(V) \in Seq(V)
      BY <2>2, AnyOrder
    <2> QED
      BY <2>3 DEF V
  <1>4. \A i \in DOMAIN values : plans[i] \in Seq(PlannedFolds)
    <2> HIDE DEF values
    <2> QED
      BY <1>2
  <1>5. plans = [i \in DOMAIN values |-> plans[i]]
    OBVIOUS
  <1>6. Merges = FlattenSeq(plans)
    BY MergesIsPlans
  <1> HIDE DEF values, plans
  <1>7. plans \in Seq(Seq(PlannedFolds))
    BY <1>3, <1>4, <1>5, ListType
  <1> QED
    BY <1>6, <1>7, FlattenType

\* The primary of a bucket is one of it, and never folded itself.
LEMMA PlannedFoldsType ==
  ASSUME RowsOK(rule, versions), NEW f \in PlannedFolds
  PROVE  /\ f \in Folds(Unapproved(rule), Existing(rule))
         /\ Value[f.into] = Value[f.rule] /\ f.into \in Surviving(rule)
         /\ \A g \in PlannedFolds : g.rule # f.into
  <1>1. PICK r \in Pool : r # Primary(Bucket(Value[r])) /\ f = Fold(r, Primary(Bucket(Value[r])))
    BY DEF PlannedFolds
  <1> DEFINE B == Bucket(Value[r])
  <1>2. B \in SUBSET Rules /\ IsFiniteSet(B) /\ r \in B /\ B \subseteq Pool
    <2>1. B \subseteq Pool /\ r \in B
      BY DEF Bucket
    <2>2. Pool \subseteq Rules
      BY PoolType DEF Surviving
    <2> QED
      BY <2>1, <2>2, PoolType, FS_Subset
  <1>3. Primary(B) \in B
    <2> HIDE DEF B
    <2>1. B # {} /\ rule \in Rows
      BY <1>2 DEF RowsOK
    <2> QED
      BY <1>2, <2>1, PrimaryExists
  <1>4. f.into = Primary(B) /\ f.rule = r
    BY <1>1 DEF Fold
  <1>5. Value[Primary(B)] = Value[r]
    BY <1>3 DEF Bucket
  <1>6. ASSUME NEW g \in PlannedFolds  PROVE g.rule # f.into
    <2>1. PICK q \in Pool : q # Primary(Bucket(Value[q])) /\ g = Fold(q, Primary(Bucket(Value[q])))
      BY DEF PlannedFolds
    <2>2. g.rule = q
      BY <2>1 DEF Fold
    <2> QED
      BY <1>4, <1>5, <2>1, <2>2
  <1>7. Primary(B) \in Existing(rule) /\ Primary(B) \in Surviving(rule) /\ r \in Unapproved(rule)
    BY <1>2, <1>3, PoolType DEF Unapproved
  <1>8. f \in Folds(Unapproved(rule), Existing(rule))
    BY <1>1, <1>7 DEF Folds, Fold
  <1> QED
    BY <1>4, <1>5, <1>6, <1>7, <1>8

-----------------------------------------------------------------------------
(* KnowledgeInv: one step *)

AllSteps(ex) == Moves(ex, Status \ {"ABSENT"}) \cup Folds(ex, ex) \cup Writes(ex)

\* A call in a part of the pipeline or of a decision has that part's script.
LEMMA CallHasScript ==
  ASSUME KnowledgeInv, NEW o \in Operator, op[o].phase \in Parts
  PROVE  /\ op[o] \in Reviewing(op[o].phase, StepsOf(op[o].phase, Existing(rule)))
         /\ StepsOf(op[o].phase, Existing(rule)) \subseteq AllSteps(Existing(rule))
  <1>1. op[o] \in CallState(Existing(rule), Len(versions))
    BY DEF KnowledgeInv
  <1>2. op[o] \in Reviewing(op[o].phase, StepsOf(op[o].phase, Existing(rule)))
    <2>1. op[o] # Idle /\ op[o].phase \notin {"created", "publishing"}
      BY DEF Idle, Parts
    <2>2. op[o] \notin Created(Len(versions))
      BY <2>1 DEF Created
    <2>3. op[o] \notin Publishing(Len(versions))
      BY <2>1 DEF Publishing
    <2>4. PICK part \in Parts : op[o] \in Reviewing(part, StepsOf(part, Existing(rule)))
      <3>1. op[o] \in Reviews(Existing(rule))
        BY <1>1, <2>1, <2>2, <2>3 DEF CallState
      <3> QED
        BY <3>1 DEF Reviews
    <2>5. op[o].phase = part
      BY <2>4 DEF Reviewing
    <2> QED
      BY <2>4, <2>5
  <1>3. StepsOf(op[o].phase, Existing(rule)) \subseteq AllSteps(Existing(rule))
    BY DEF StepsOf, Parts, AllSteps, Extracts, MergeSteps, Classifies, Parks, Verdicts,
           Moves, Status
  <1> QED
    BY <1>2, <1>3

\* The next statement of a script, and what is left after it.
LEMMA ScriptRuns ==
  ASSUME NEW part \in Parts, NEW T, NEW c \in Reviewing(part, T), c.script # <<>>
  PROVE  /\ Head(c.script) \in T /\ Tail(c.script) \in Seq(T)
         /\ [c EXCEPT !.script = Tail(@), !.checked = FALSE] \in Reviewing(part, T)
         /\ [c EXCEPT !.checked = TRUE] \in Reviewing(part, T)
         /\ \A s \in Seq(T) : [c EXCEPT !.script = s] \in Reviewing(part, T)
  <1>1. c.script \in Seq(T)
    BY DEF Reviewing
  <1>2. Head(c.script) \in T /\ Tail(c.script) \in Seq(T)
    BY <1>1, HeadTailProperties
  <1> QED
    BY <1>2 DEF Reviewing

\* A call in one of the parts is a call.
LEMMA PartIsCall ==
  ASSUME NEW part \in Parts, NEW c, NEW ex, NEW n, c \in Reviewing(part, StepsOf(part, ex))
  PROVE  c \in CallState(ex, n)
  BY DEF CallState, Reviews

\* An idle operator is one.
LEMMA IdleIsCall == ASSUME NEW ex, NEW n PROVE Idle \in CallState(ex, n)
  BY DEF CallState

\* A part starts with its script unchecked.
LEMMA CallsIsReviewing ==
  ASSUME NEW part, NEW T, NEW s \in Seq(T)
  PROVE  Calls(part, s) \in Reviewing(part, T)
  BY DEF Calls, Reviewing

\* The pipeline starts with what extraction lists.
LEMMA StartPipelineInv ==
  ASSUME KnowledgeInv, NEW o \in Operator, StartPipeline(o)
  PROVE  KnowledgeInv'
  <1>1. Extraction \in Seq(StepsOf("extract", Existing(rule)))
    BY ExtractionType DEF KnowledgeInv, StepsOf
  <1>2. Calls("extract", Extraction) \in CallState(Existing(rule), Len(versions))
    BY <1>1, CallsIsReviewing, PartIsCall DEF Parts
  <1> QED
    BY <1>2, CallTurns DEF StartPipeline, Enter

\* Planned folds are steps of a merge, parked rules exist.
LEMMA ListedSteps ==
  ASSUME KnowledgeInv
  PROVE  /\ Merges \in Seq(StepsOf("merge", Existing(rule)))
         /\ Classification \in Seq(StepsOf("classify", Existing(rule)))
         /\ Conflicts \in Seq(StepsOf("conflict", Existing(rule)))
  <1>0. \A S, T : S \subseteq T => Seq(S) \subseteq Seq(T)
    OBVIOUS
  <1>1. RowsOK(rule, versions) /\ Unapproved(rule) \subseteq Existing(rule)
    BY DEF KnowledgeInv, Unapproved
  <1>2. PlannedFolds \subseteq MergeSteps(Existing(rule))
    <2>1. PlannedFolds \subseteq Folds(Unapproved(rule), Existing(rule))
      BY <1>1, PlannedFoldsType
    <2> QED
      BY <1>1, <2>1 DEF MergeSteps, Folds
  <1>3. Parks(Unapproved(rule)) \subseteq Parks(Existing(rule))
    BY <1>1 DEF Parks, Moves
  <1>4. Merges \in Seq(MergeSteps(Existing(rule)))
    BY <1>0, <1>1, <1>2, MergesType
  <1>5. Conflicts \in Seq(Parks(Existing(rule)))
    BY <1>0, <1>1, <1>3, ConflictsType
  <1>6. Classification \in Seq(Classifies(Existing(rule)))
    BY <1>1, ClassificationType
  <1> QED
    BY <1>4, <1>5, <1>6 DEF StepsOf

\* A part that is done makes way for the next one's list.
LEMMA NextPartInv ==
  ASSUME KnowledgeInv, NEW o \in Operator, NextPart(o)
  PROVE  KnowledgeInv'
  <1> DEFINE c == CASE op[o].phase = "extract" -> Calls("merge", Merges)
                    [] op[o].phase = "merge" -> Calls("classify", Classification)
                    [] op[o].phase = "classify" -> Calls("conflict", Conflicts)
                    [] OTHER -> Idle
  <1>1. /\ Calls("merge", Merges) \in CallState(Existing(rule), Len(versions))
        /\ Calls("classify", Classification) \in CallState(Existing(rule), Len(versions))
        /\ Calls("conflict", Conflicts) \in CallState(Existing(rule), Len(versions))
    BY ListedSteps, CallsIsReviewing, PartIsCall DEF Parts
  <1>2. c \in {Calls("merge", Merges), Calls("classify", Classification),
               Calls("conflict", Conflicts), Idle}
    OBVIOUS
  <1>3. op' = [op EXCEPT ![o] = c] /\ UNCHANGED <<rule, versions, current, work>>
    BY DEF NextPart, Enter
  <1> HIDE DEF c
  <1>4. c \in CallState(Existing(rule), Len(versions))
    BY <1>1, <1>2, IdleIsCall
  <1> QED
    BY <1>3, <1>4, CallTurns

\* The check changes nothing but the call.
LEMMA CheckTransitionInv ==
  ASSUME KnowledgeInv, NEW o \in Operator, CheckTransition(o)
  PROVE  KnowledgeInv'
  <1>1. op[o].phase \in Parts /\ op[o].script # <<>>
    BY DEF CheckTransition, Scripted, Parts
  <1>2. [op[o] EXCEPT !.checked = TRUE] \in CallState(Existing(rule), Len(versions))
    BY <1>1, CallHasScript, ScriptRuns, PartIsCall
  <1>3. PICK c \in {[op[o] EXCEPT !.checked = TRUE], Idle} :
          op' = [op EXCEPT ![o] = c] /\ UNCHANGED <<rule, versions, current, work>>
    BY DEF CheckTransition, Enter, Continue
  <1>4. c \in CallState(Existing(rule), Len(versions))
    BY <1>2, <1>3, IdleIsCall
  <1> QED
    BY <1>3, <1>4, CallTurns

\* Of a scripted call: its next statement, and the call when that is done.
LEMMA ScriptedCall ==
  ASSUME KnowledgeInv, NEW o \in Operator, NEW do, Scripted(o, do)
  PROVE  /\ op[o].phase \in Parts /\ op[o].script # <<>>
         /\ Head(op[o].script) \in AllSteps(Existing(rule)) /\ Head(op[o].script).do = do
         /\ Done(o) \in Reviewing(op[o].phase, StepsOf(op[o].phase, Existing(rule)))
         /\ \A ex : Existing(rule) \subseteq ex =>
              Done(o) \in CallState(ex, Len(versions))
  <1>1. op[o].phase \in Parts /\ op[o].script # <<>> /\ Head(op[o].script).do = do
    BY DEF Scripted, Parts
  <1>2. Head(op[o].script) \in AllSteps(Existing(rule))
    BY <1>1, CallHasScript, ScriptRuns
  <1>3. Done(o) \in Reviewing(op[o].phase, StepsOf(op[o].phase, Existing(rule)))
    BY <1>1, CallHasScript, ScriptRuns DEF Done
  <1>4. Done(o) \in CallState(Existing(rule), Len(versions))
    BY <1>1, <1>3, PartIsCall
  <1>5. Len(versions) \in Nat
    BY LenProperties DEF KnowledgeInv, VersionsOK
  <1>6. \A ex : Existing(rule) \subseteq ex =>
          CallState(Existing(rule), Len(versions)) \subseteq CallState(ex, Len(versions))
    BY <1>5, CallStateGrows
  <1> QED
    BY <1>1, <1>2, <1>3, <1>4, <1>6

\* The rule whose status is written exists.
LEMMA WriteTransitionInv ==
  ASSUME KnowledgeInv, NEW o \in Operator, WriteTransition(o)
  PROVE  KnowledgeInv'
  <1> DEFINE step == Head(op[o].script)
  <1>1. Scripted(o, "move") /\ rule' = [rule EXCEPT ![step.rule].status = step.to]
        /\ op' = [op EXCEPT ![o] = Done(o)] /\ UNCHANGED <<versions, current, work>>
    BY DEF WriteTransition
  <1>2. step \in AllSteps(Existing(rule)) /\ step.do = "move"
    BY <1>1, ScriptedCall
  <1>3. step.rule \in Existing(rule) /\ step.to \in Status \ {"ABSENT"}
    <2> HIDE DEF step
    <2> QED
      BY <1>2 DEF AllSteps, Moves, Folds, Writes
  <1>4. RowsOK(rule', versions) /\ Existing(rule) \subseteq Existing(rule')
    <2> HIDE DEF step
    <2> QED
      BY <1>1, <1>3, StatusWritten DEF KnowledgeInv
  <1>5. Done(o) \in CallState(Existing(rule'), Len(versions))
    BY <1>1, <1>4, ScriptedCall
  <1>6. VersionsOK(versions', current') /\ Len(versions) <= Len(versions') /\ versions' = versions
    BY <1>1, LenProperties DEF KnowledgeInv, VersionsOK
  <1> HIDE DEF step
  <1> QED
    BY <1>1, <1>4, <1>5, <1>6, CallMoves

\* The rule whose references are written exists, and they are not empty.
LEMMA WriteRefsInv ==
  ASSUME KnowledgeInv, NEW o \in Operator, WriteRefs(o)
  PROVE  KnowledgeInv'
  <1> DEFINE step == Head(op[o].script)
  <1>1. Scripted(o, "write") /\ rule' = [rule EXCEPT ![step.rule].refs = step.refs]
        /\ op' = [op EXCEPT ![o] = Done(o)] /\ UNCHANGED <<versions, current, work>>
    BY DEF WriteRefs, Continue
  <1>2. step \in AllSteps(Existing(rule)) /\ step.do = "write"
    BY <1>1, ScriptedCall
  <1>3. step.rule \in Existing(rule) /\ step.refs \in Evidence
    <2> HIDE DEF step
    <2> QED
      BY <1>2 DEF AllSteps, Moves, Folds, Writes
  <1>4. RowsOK(rule', versions) /\ Existing(rule) \subseteq Existing(rule')
    <2> HIDE DEF step
    <2> QED
      BY <1>1, <1>3, RefsWritten DEF KnowledgeInv
  <1>5. Done(o) \in CallState(Existing(rule'), Len(versions))
    BY <1>1, <1>4, ScriptedCall
  <1>6. VersionsOK(versions', current') /\ Len(versions) <= Len(versions') /\ versions' = versions
    BY <1>1, LenProperties DEF KnowledgeInv, VersionsOK
  <1> HIDE DEF step
  <1> QED
    BY <1>1, <1>4, <1>5, <1>6, CallMoves

\* Only a merge folds rules and writes their references.
LEMMA MergeCall ==
  ASSUME KnowledgeInv, NEW o \in Operator, NEW do \in {"fold", "write"}, Scripted(o, do)
  PROVE  /\ op[o].phase = "merge" /\ op[o].script # <<>>
         /\ op[o] \in Reviewing("merge", MergeSteps(Existing(rule)))
         /\ Head(op[o].script) \in MergeSteps(Existing(rule)) /\ Head(op[o].script).do = do
  <1>1. op[o].phase \in Parts /\ op[o].script # <<>> /\ Head(op[o].script).do = do
    BY ScriptedCall
  <1>2. /\ op[o] \in Reviewing(op[o].phase, StepsOf(op[o].phase, Existing(rule)))
        /\ Head(op[o].script) \in StepsOf(op[o].phase, Existing(rule))
    BY <1>1, CallHasScript, ScriptRuns
  <1>3. op[o].phase = "merge"
    BY <1>1, <1>2 DEF StepsOf, Parts, Extracts, Classifies, Parks, Verdicts, Moves
  <1> QED
    BY <1>1, <1>2, <1>3 DEF StepsOf

\* What mergeCorroboratingRules has to run once it has read both rules.
Folded(step, refs) ==
  IF refs # rule[step.into].refs
  THEN <<Move(step.rule, "SUPERSEDED"), Write(step.into, refs)>>
  ELSE IF rule[step.rule].status # "SUPERSEDED" THEN <<Move(step.rule, "SUPERSEDED")>>
  ELSE <<>>

\* Reading both rules of a fold replaces it by statements that retire one of
\* them and write references of existing rules.
LEMMA ReadMergeEffect ==
  ASSUME KnowledgeInv, NEW o \in Operator, ReadMerge(o)
  PROVE  \E front \in Seq(Moves({Head(op[o].script).rule}, {"SUPERSEDED"})
                           \cup Writes(Existing(rule))) :
           /\ op' = [op EXCEPT ![o] = [op[o] EXCEPT !.script = front \o Tail(op[o].script)]]
           /\ UNCHANGED <<rule, versions, current, work>>
           /\ Scripted(o, "fold")
  <1> DEFINE step == Head(op[o].script)
             refs == rule[step.into].refs \cup rule[step.rule].refs
             front == Folded(step, refs)
             T == Moves({step.rule}, {"SUPERSEDED"}) \cup Writes(Existing(rule))
  <1>1. Scripted(o, "fold")
    BY DEF ReadMerge
  <1>2. step \in MergeSteps(Existing(rule)) /\ step.do = "fold"
    BY <1>1, MergeCall
  <1>3. step.rule \in Existing(rule) /\ step.into \in Existing(rule)
    <2> HIDE DEF step
    <2> QED
      BY <1>2 DEF MergeSteps, Moves, Folds, Writes
  <1>4. refs \in Evidence
    <2> HIDE DEF step
    <2> QED
      BY <1>3 DEF Evidence, KnowledgeInv, RowsOK, Rows, Row, Existing
  <1>5. Move(step.rule, "SUPERSEDED") \in T /\ Write(step.into, refs) \in T
    <2> HIDE DEF step, refs
    <2> QED
      BY <1>3, <1>4 DEF Moves, Move, Writes, Write
  <1>6. front \in Seq(T)
    <2> HIDE DEF step, refs, T, Move, Write
    <2> QED
      BY <1>5 DEF Folded
  <1>7. op' = [op EXCEPT ![o] = [op[o] EXCEPT !.script = front \o Tail(op[o].script)]]
    BY DEF ReadMerge, Continue, Folded
  <1>8. UNCHANGED <<rule, versions, current, work>>
    BY DEF ReadMerge
  <1> QED
    BY <1>1, <1>6, <1>7, <1>8

\* These are steps of a merge.
LEMMA ReadMergeInv ==
  ASSUME KnowledgeInv, NEW o \in Operator, ReadMerge(o)
  PROVE  KnowledgeInv'
  <1> DEFINE step == Head(op[o].script)
             T == Moves({step.rule}, {"SUPERSEDED"}) \cup Writes(Existing(rule))
  <1>1. PICK front \in Seq(T) :
           /\ op' = [op EXCEPT ![o] = [op[o] EXCEPT !.script = front \o Tail(op[o].script)]]
           /\ UNCHANGED <<rule, versions, current, work>>
           /\ Scripted(o, "fold")
    BY ReadMergeEffect
  <1>2. /\ op[o].script # <<>> /\ op[o] \in Reviewing("merge", MergeSteps(Existing(rule)))
        /\ step \in MergeSteps(Existing(rule)) /\ step.do = "fold"
    BY <1>1, MergeCall
  <1>3. step.rule \in Existing(rule)
    <2> HIDE DEF step
    <2> QED
      BY <1>2 DEF MergeSteps, Moves, Folds, Writes
  <1>4. T \subseteq MergeSteps(Existing(rule))
    <2> HIDE DEF step
    <2> QED
      BY <1>3 DEF MergeSteps, Moves
  <1>5. front \in Seq(MergeSteps(Existing(rule)))
    <2> HIDE DEF T
    <2> QED
      BY <1>4
  <1>6. Tail(op[o].script) \in Seq(MergeSteps(Existing(rule)))
    BY <1>2, ScriptRuns DEF Parts
  <1>7. front \o Tail(op[o].script) \in Seq(MergeSteps(Existing(rule)))
    BY <1>5, <1>6, ConcatProperties
  <1>8. [op[o] EXCEPT !.script = front \o Tail(op[o].script)]
          \in Reviewing("merge", MergeSteps(Existing(rule)))
    BY <1>2, <1>7, ScriptRuns DEF Parts
  <1>9. [op[o] EXCEPT !.script = front \o Tail(op[o].script)]
          \in CallState(Existing(rule), Len(versions))
    BY <1>8, PartIsCall DEF Parts, StepsOf
  <1> QED
    BY <1>1, <1>9, CallTurns

\* A decision is about a rule that exists.
LEMMA DecideInv ==
  ASSUME KnowledgeInv, NEW o \in Operator, NEW r \in Rules, Decide(o, r)
  PROVE  KnowledgeInv'
  <1> DEFINE S == Verdicts(Existing(rule))
  <1>1. r \in Existing(rule)
    BY DEF Decide, Existing
  <1>2. \A to \in {"NEEDS_REVIEW", "APPROVED", "REJECTED", "SUPERSEDED"} : Move(r, to) \in S
    BY <1>1 DEF Verdicts, Moves, Move
  <1> HIDE DEF S
  <1>3. PICK s \in Seq(S) : op' = [op EXCEPT ![o] = Calls("decide", s)]
    <2>1. PICK verdict \in {"APPROVED", "REJECTED", "SUPERSEDED"} :
            Enter(o, Calls("decide",
              IF rule[r].status = "CONFLICTED" /\ verdict # "SUPERSEDED"
              THEN <<Move(r, "NEEDS_REVIEW"), Move(r, verdict)>> ELSE <<Move(r, verdict)>>))
      BY DEF Decide
    <2> HIDE DEF Move
    <2>2. <<Move(r, "NEEDS_REVIEW"), Move(r, verdict)>> \in Seq(S) /\ <<Move(r, verdict)>> \in Seq(S)
      BY <1>2, <2>1
    <2> QED
      BY <2>1, <2>2 DEF Enter
  <1>4. Calls("decide", s) \in CallState(Existing(rule), Len(versions))
    BY <1>3, CallsIsReviewing, PartIsCall DEF S, Parts, StepsOf
  <1> QED
    BY <1>3, <1>4, CallTurns DEF Decide

\* A call that dies leaves what it committed.
LEMMA CrashInv ==
  ASSUME KnowledgeInv, NEW o \in Operator, Crash(o)
  PROVE  KnowledgeInv'
  BY CallTurns, IdleIsCall DEF Crash, Enter

\* A new version is a draft, which no rule is stamped with.
LEMMA CreateVersionInv ==
  ASSUME KnowledgeInv, NEW o \in Operator, CreateVersion(o)
  PROVE  KnowledgeInv'
  <1> DEFINE n == Len(versions)
             c == [phase |-> "created", version |-> n + 1]
  <1>1. versions \in Seq({"DRAFT", "PUBLISHED", "RETIRED"}) /\ n \in Nat /\ n < MaxVersion
        /\ MaxVersion \in Nat
    BY LenProperties, KnowledgeAssumption DEF CreateVersion, KnowledgeInv, VersionsOK
  <1>2. versions' = Append(versions, "DRAFT") /\ op' = [op EXCEPT ![o] = c]
        /\ UNCHANGED <<rule, current, work>>
    BY DEF CreateVersion, Enter
  <1>3. /\ versions' \in Seq({"DRAFT", "PUBLISHED", "RETIRED"}) /\ Len(versions') = n + 1
        /\ \A v \in DOMAIN versions : v \in DOMAIN versions' /\ versions'[v] = versions[v]
    BY <1>1, <1>2, AppendProperties
  <1>4. VersionsOK(versions', current')
    <2>1. current' \in {0} \cup {v \in DOMAIN versions' : versions'[v] = "PUBLISHED"}
      BY <1>2, <1>3 DEF KnowledgeInv, VersionsOK
    <2> QED
      BY <1>1, <1>3, <2>1 DEF VersionsOK
  <1>5. RowsOK(rule', versions')
    BY <1>2, <1>3 DEF KnowledgeInv, RowsOK
  <1>6. c \in CallState(Existing(rule'), n + 1)
    <2>1. c \in Created(n + 1)
      BY <1>1 DEF Created
    <2> QED
      BY <2>1 DEF CallState
  <1>7. Len(versions) <= Len(versions') /\ Existing(rule) \subseteq Existing(rule')
    BY <1>1, <1>2, <1>3
  <1>8. c \in CallState(Existing(rule'), Len(versions'))
    BY <1>3, <1>6
  <1> HIDE DEF c
  <1> QED
    BY <1>2, <1>4, <1>5, <1>7, <1>8, CallMoves

\* A call that creates or publishes a version names one that exists.
LEMMA CreatedCall ==
  ASSUME KnowledgeInv, NEW o \in Operator, op[o].phase = "created"
  PROVE  op[o] \in Created(Len(versions))
  <1>1. op[o] \in CallState(Existing(rule), Len(versions))
    BY DEF KnowledgeInv
  <1>2. op[o] # Idle
    BY DEF Idle
  <1>3. op[o] \notin Publishing(Len(versions))
    BY DEF Publishing
  <1>4. op[o] \notin Reviews(Existing(rule))
    <2> SUFFICES ASSUME NEW part \in Parts, op[o] \in Reviewing(part, StepsOf(part, Existing(rule)))
                 PROVE  FALSE
      BY DEF Reviews
    <2> QED
      BY DEF Reviewing, Parts
  <1> QED
    BY <1>1, <1>2, <1>3, <1>4 DEF CallState

\* ... and so does one that publishes.
LEMMA PublishingCall ==
  ASSUME KnowledgeInv, NEW o \in Operator, op[o].phase = "publishing"
  PROVE  op[o] \in Publishing(Len(versions))
  <1>1. op[o] \in CallState(Existing(rule), Len(versions))
    BY DEF KnowledgeInv
  <1>2. op[o] # Idle
    BY DEF Idle
  <1>3. op[o] \notin Created(Len(versions))
    BY DEF Created
  <1>4. op[o] \notin Reviews(Existing(rule))
    <2> SUFFICES ASSUME NEW part \in Parts, op[o] \in Reviewing(part, StepsOf(part, Existing(rule)))
                 PROVE  FALSE
      BY DEF Reviews
    <2> QED
      BY DEF Reviewing, Parts
  <1> QED
    BY <1>1, <1>2, <1>3, <1>4 DEF CallState

\* A publication retires versions that exist.
LEMMA StartPublicationInv ==
  ASSUME KnowledgeInv, NEW o \in Operator, StartPublication(o)
  PROVE  KnowledgeInv'
  <1> DEFINE c == [phase |-> "publishing", version |-> op[o].version,
                   retiring |-> {v \in DOMAIN versions : versions[v] = "PUBLISHED"}]
  <1>1. op[o] \in Created(Len(versions))
    BY CreatedCall DEF StartPublication
  <1>2. DOMAIN versions = 1..Len(versions)
    BY LenProperties DEF KnowledgeInv, VersionsOK
  <1>3. c \in Publishing(Len(versions))
    BY <1>1, <1>2 DEF Created, Publishing
  <1>4. op' = [op EXCEPT ![o] = c] /\ UNCHANGED <<rule, versions, current, work>>
    BY DEF StartPublication, Enter
  <1> HIDE DEF c
  <1>5. c \in CallState(Existing(rule), Len(versions))
    BY <1>3 DEF CallState
  <1> QED
    BY <1>4, <1>5, CallTurns

\* Stamping changes nothing but the version of the approved rules.
LEMMA StampedRows ==
  ASSUME rule \in Rows, NEW v \in 0..MaxVersion
  PROVE  /\ Stamped(v) \in Rows
         /\ \A r \in Rules : /\ Stamped(v)[r].status = rule[r].status
                             /\ Stamped(v)[r].refs = rule[r].refs
                             /\ Stamped(v)[r].version \in {v, rule[r].version}
                             /\ rule[r].status = "APPROVED" => Stamped(v)[r].version = v
  <1>1. ASSUME NEW r \in Rules
        PROVE  /\ Stamped(v)[r] \in Row
               /\ Stamped(v)[r].status = rule[r].status
               /\ Stamped(v)[r].refs = rule[r].refs
               /\ Stamped(v)[r].version \in {v, rule[r].version}
               /\ rule[r].status = "APPROVED" => Stamped(v)[r].version = v
    <2>1. rule[r] \in Row
      BY DEF Rows
    <2>2. CASE rule[r].status = "APPROVED"
      <3>1. Stamped(v)[r] = [rule[r] EXCEPT !.version = v]
        BY <2>2 DEF Stamped
      <3> QED
        BY <2>1, <3>1 DEF Row
    <2>3. CASE rule[r].status # "APPROVED"
      <3>1. Stamped(v)[r] = rule[r]
        BY <2>3 DEF Stamped
      <3> QED
        BY <2>1, <2>3, <3>1
    <2> QED
      BY <2>2, <2>3
  <1>2. Stamped(v) = [r \in Rules |-> Stamped(v)[r]]
    BY DEF Stamped
  <1>3. Stamped(v) \in [Rules -> Row]
    <2>1. \A r \in Rules : Stamped(v)[r] \in Row
      BY <1>1
    <2> QED
      BY <1>2, <2>1
  <1> QED
    BY <1>1, <1>3 DEF Rows

\* Publishing changes no status.
LEMMA StampKeepsStatuses ==
  ASSUME KnowledgeInv, NEW o \in Operator, CommitPublication(o)
  PROVE  \A r \in Rules : rule'[r].status = rule[r].status
  <1>1. op[o] \in Publishing(Len(versions)) /\ Len(versions) \in Nat
        /\ Len(versions) <= MaxVersion /\ MaxVersion \in Nat
    BY PublishingCall, LenProperties, KnowledgeAssumption
       DEF CommitPublication, KnowledgeInv, VersionsOK
  <1>2. op[o].version \in 0..MaxVersion
    BY <1>1 DEF Publishing
  <1> QED
    BY <1>2, StampedRows DEF CommitPublication, KnowledgeInv, RowsOK

\* A commit serves a version that it publishes, whatever it retires.
LEMMA CommitPublicationInv ==
  ASSUME KnowledgeInv, NEW o \in Operator, CommitPublication(o)
  PROVE  KnowledgeInv'
  <1> DEFINE v == op[o].version
             n == Len(versions)
  <1>1. op[o] \in Publishing(n)
    BY PublishingCall DEF CommitPublication
  <1>2. /\ versions \in Seq({"DRAFT", "PUBLISHED", "RETIRED"}) /\ n \in Nat /\ n <= MaxVersion
        /\ DOMAIN versions = 1..n /\ MaxVersion \in Nat
    BY LenProperties, KnowledgeAssumption DEF KnowledgeInv, VersionsOK
  <1>3. v \in 1..n /\ v # 0 /\ v \in 0..MaxVersion
    BY <1>1, <1>2 DEF Publishing
  <1>4. /\ rule' = Stamped(v) /\ current' = v /\ op' = [op EXCEPT ![o] = Idle] /\ work' = work
        /\ versions' = [w \in DOMAIN versions |->
             IF w = v THEN "PUBLISHED"
             ELSE IF w \in op[o].retiring THEN "RETIRED" ELSE versions[w]]
    BY DEF CommitPublication, Enter
  <1> HIDE DEF v, n
  <1>5. /\ versions' \in [1..n -> {"DRAFT", "PUBLISHED", "RETIRED"}]
        /\ versions'[v] = "PUBLISHED"
        /\ \A w \in 1..n : versions[w] # "DRAFT" => versions'[w] # "DRAFT"
    BY <1>2, <1>3, <1>4
  <1>6. /\ versions' \in Seq({"DRAFT", "PUBLISHED", "RETIRED"})
        /\ Len(versions') = n /\ DOMAIN versions' = 1..n
    BY <1>2, <1>5, LenProperties
  <1>7. VersionsOK(versions', current')
    BY <1>2, <1>3, <1>4, <1>5, <1>6 DEF VersionsOK
  <1>8. /\ rule' \in Rows
        /\ \A r \in Rules : /\ rule'[r].status = rule[r].status
                            /\ rule'[r].refs = rule[r].refs
                            /\ rule'[r].version \in {v, rule[r].version}
    BY <1>3, <1>4, StampedRows DEF KnowledgeInv, RowsOK
  <1>9. Existing(rule') = Existing(rule)
    BY <1>8 DEF Existing
  <1>10. \A r \in Rules : rule'[r].version # 0 =>
           rule'[r].version \in DOMAIN versions' /\ versions'[rule'[r].version] # "DRAFT"
    BY <1>2, <1>3, <1>5, <1>6, <1>8 DEF KnowledgeInv, RowsOK
  <1>11. \A r \in Existing(rule') : rule'[r].refs # {}
    BY <1>8, <1>9 DEF KnowledgeInv, RowsOK, Existing
  <1>12. RowsOK(rule', versions')
    BY <1>8, <1>9, <1>10, <1>11 DEF KnowledgeInv, RowsOK
  <1>13. Idle \in CallState(Existing(rule'), Len(versions'))
    BY IdleIsCall
  <1>14. Len(versions) <= Len(versions') /\ Existing(rule) \subseteq Existing(rule')
    BY <1>2, <1>6, <1>9 DEF n
  <1> QED
    BY <1>4, <1>7, <1>12, <1>13, <1>14, CallMoves

\* updateRuleReview leaves a row well formed.
LEMMA EditRuleInv ==
  ASSUME KnowledgeInv, NEW o \in Operator, NEW r \in Rules, EditRule(o, r)
  PROVE  KnowledgeInv'
  <1>1. r \in Existing(rule) /\ rule' = [rule EXCEPT ![r].sure = ~ @]
        /\ UNCHANGED <<versions, current, op, work>>
    BY DEF EditRule, Existing
  <1>2. RowsOK(rule', versions) /\ Existing(rule) \subseteq Existing(rule')
    BY <1>1, ConfidenceWritten DEF KnowledgeInv
  <1>3. work' \in [Worker -> WorkState(Existing(rule'))]
    BY <1>1, <1>2, WorkStateGrows DEF KnowledgeInv
  <1> QED
    BY <1>1, <1>2, <1>3, WorkMoves

\* A row is inserted, by an ingestion run or from the corpus.
LEMMA RowInserted ==
  ASSUME KnowledgeInv, NEW r \in Rules, NEW row \in Row,
         row.status # "ABSENT", row.refs # {}, row.version = 0,
         rule' = [rule EXCEPT ![r] = row], UNCHANGED <<versions, current, op, work>>
  PROVE  KnowledgeInv'
  <1>1. RowsOK(rule', versions) /\ Existing(rule) \subseteq Existing(rule')
    BY RowWritten DEF KnowledgeInv
  <1>2. work' \in [Worker -> WorkState(Existing(rule'))]
    BY <1>1, WorkStateGrows DEF KnowledgeInv
  <1> QED
    BY <1>1, <1>2, WorkMoves

\* A rule of the corpus has the handbook as its source.
LEMMA ImportCorpusInv ==
  ASSUME KnowledgeInv, NEW o \in Operator, NEW r \in Corpus, ImportCorpus(o, r)
  PROVE  KnowledgeInv'
  <1> DEFINE ref == [source |-> Handbook, document |-> 0]
             row == [status |-> "APPROVED", refs |-> {ref}, from |-> Handbook,
                     sure |-> TRUE, version |-> 0]
  <1>1. r \in Rules /\ Handbook \in Source /\ 0 \in 0..MaxVersion
    BY KnowledgeAssumption
  <1>2. ref \in Ref
    BY <1>1 DEF Ref
  <1>3. rule' = [rule EXCEPT ![r] = row] /\ UNCHANGED <<versions, current, op, work>>
    BY DEF ImportCorpus
  <1> HIDE DEF ref
  <1>4. row \in Row
    BY <1>1, <1>2, Zenon DEF Row, Status
  <1>5. row.status # "ABSENT" /\ row.refs # {} /\ row.version = 0
    OBVIOUS
  <1> HIDE DEF row
  <1> QED
    BY <1>1, <1>3, <1>4, <1>5, RowInserted

\* A report names a rule and a source.
LEMMA ReportRef ==
  ASSUME NEW report \in Reports
  PROVE  /\ report.rule \in Rules /\ report.source \in Source /\ report.sure \in BOOLEAN
         /\ RefOf(report) \in Ref
  BY KnowledgeAssumption DEF RefOf, Ref

\* A fresh candidate has the source that reported it.
LEMMA InsertInv ==
  ASSUME KnowledgeInv, NEW w \in Worker, NEW report \in Reports, Insert(w, report)
  PROVE  KnowledgeInv'
  <1> DEFINE row == [status |-> "NEW", refs |-> {RefOf(report)}, from |-> report.source,
                     sure |-> report.sure, version |-> 0]
  <1>2. 0 \in 0..MaxVersion
    BY KnowledgeAssumption
  <1>3. row \in Row
    BY <1>2, ReportRef, Zenon DEF Row, Status
  <1>4. row.status # "ABSENT" /\ row.refs # {} /\ row.version = 0
    OBVIOUS
  <1>5. rule' = [rule EXCEPT ![report.rule] = row] /\ UNCHANGED <<versions, current, op, work>>
    BY DEF Insert
  <1> HIDE DEF row
  <1> QED
    BY <1>3, <1>4, <1>5, ReportRef, RowInserted

\* What a run has read is a rule that exists, with at least one source.
LEMMA StartCorroborationInv ==
  ASSUME KnowledgeInv, NEW w \in Worker, NEW report \in Reports, StartCorroboration(w, report)
  PROVE  KnowledgeInv'
  <1> DEFINE refs == rule[report.rule].refs \cup {RefOf(report)}
             c == [phase |-> "read", rule |-> report.rule, refs |-> refs]
  <1>1. report.rule \in Existing(rule)
    BY ReportRef DEF StartCorroboration, Existing
  <1>2. rule[report.rule].refs \in SUBSET Ref
    BY <1>1 DEF Existing, KnowledgeInv, RowsOK, Rows, Row
  <1>3. refs \in Evidence
    BY <1>2, ReportRef DEF Evidence
  <1>4. work' = [work EXCEPT ![w] = c] /\ UNCHANGED <<rule, versions, current, op>>
    BY DEF StartCorroboration
  <1> HIDE DEF refs
  <1>5. c \in WorkState(Existing(rule))
    BY <1>1, <1>3 DEF WorkState
  <1> HIDE DEF c
  <1>6. work' \in [Worker -> WorkState(Existing(rule'))]
    BY <1>4, <1>5 DEF KnowledgeInv
  <1>7. RowsOK(rule', versions)
    BY <1>4 DEF KnowledgeInv
  <1> QED
    BY <1>4, <1>6, <1>7, WorkMoves

\* The rule is still there when the run writes it back.
LEMMA FinishCorroborationInv ==
  ASSUME KnowledgeInv, NEW w \in Worker, FinishCorroboration(w)
  PROVE  KnowledgeInv'
  <1>1. work[w] \in WorkState(Existing(rule)) /\ work[w] # Idle
    BY DEF KnowledgeInv, FinishCorroboration
  <1>2. work[w].rule \in Existing(rule) /\ work[w].refs \in Evidence
    BY <1>1 DEF WorkState
  <1>3. /\ rule' = [rule EXCEPT ![work[w].rule].refs = work[w].refs]
        /\ work' = [work EXCEPT ![w] = Idle] /\ UNCHANGED <<versions, current, op>>
    BY DEF FinishCorroboration
  <1>4. RowsOK(rule', versions) /\ Existing(rule) \subseteq Existing(rule')
    BY <1>2, <1>3, RefsWritten DEF KnowledgeInv
  <1>5. WorkState(Existing(rule)) \subseteq WorkState(Existing(rule')) /\ Idle \in WorkState(Existing(rule'))
    BY <1>4, WorkStateGrows DEF WorkState
  <1>6. work' \in [Worker -> WorkState(Existing(rule'))]
    <2> HIDE DEF WorkState
    <2> QED
      BY <1>3, <1>5 DEF KnowledgeInv
  <1> QED
    BY <1>3, <1>4, <1>6, WorkMoves

\* A run that dies leaves the rows.
LEMMA LoseWorkInv ==
  ASSUME KnowledgeInv, NEW w \in Worker, LoseWork(w)
  PROVE  KnowledgeInv'
  <1>1. work' = [work EXCEPT ![w] = Idle] /\ UNCHANGED <<rule, versions, current, op>>
    BY DEF LoseWork
  <1>2. work' \in [Worker -> WorkState(Existing(rule'))]
    BY <1>1 DEF KnowledgeInv, WorkState
  <1>3. RowsOK(rule', versions)
    BY <1>1 DEF KnowledgeInv
  <1> QED
    BY <1>1, <1>2, <1>3, WorkMoves

\* Nothing exists at first.
LEMMA KnowledgeInvInit == KnowledgeInit => KnowledgeInv
  <1> SUFFICES ASSUME KnowledgeInit PROVE KnowledgeInv
    OBVIOUS
  <1>1. Absent \in Row
    <2>1. Handbook \in Source /\ 0 \in 0..MaxVersion
      BY KnowledgeAssumption
    <2> QED
      BY <2>1 DEF Absent, Row, Status
  <1>2. Existing(rule) = {}
    BY DEF KnowledgeInit, Existing, Absent
  <1>3. RowsOK(rule, versions)
    BY <1>1, <1>2, FS_EmptySet DEF KnowledgeInit, RowsOK, Rows, Absent
  <1>4. VersionsOK(versions, current)
    BY KnowledgeAssumption DEF KnowledgeInit, VersionsOK
  <1>5. op \in [Operator -> CallState(Existing(rule), Len(versions))]
    BY IdleIsCall DEF KnowledgeInit
  <1>6. work \in [Worker -> WorkState(Existing(rule))]
    BY DEF KnowledgeInit, WorkState
  <1> QED
    BY <1>3, <1>4, <1>5, <1>6 DEF KnowledgeInv

\* Every step keeps KnowledgeInv, whatever calls overlap.
LEMMA KnowledgeInvNext == KnowledgeInv /\ [KnowledgeNext]_knowledgeVars => KnowledgeInv'
  <1> SUFFICES ASSUME KnowledgeInv, [KnowledgeNext]_knowledgeVars PROVE KnowledgeInv'
    OBVIOUS
  <1>1. ASSUME NEW w \in Worker, NEW report \in Reports,
               Insert(w, report) \/ StartCorroboration(w, report)
        PROVE  KnowledgeInv'
    BY <1>1, InsertInv, StartCorroborationInv
  <1>2. ASSUME NEW w \in Worker, FinishCorroboration(w) \/ LoseWork(w)
        PROVE  KnowledgeInv'
    BY <1>2, FinishCorroborationInv, LoseWorkInv
  <1>3. ASSUME NEW o \in Operator, StartPipeline(o) \/ NextPart(o)
        PROVE  KnowledgeInv'
    BY <1>3, StartPipelineInv, NextPartInv
  <1>4. ASSUME NEW o \in Operator,
               CheckTransition(o) \/ WriteTransition(o) \/ ReadMerge(o) \/ WriteRefs(o)
        PROVE  KnowledgeInv'
    BY <1>4, CheckTransitionInv, WriteTransitionInv, ReadMergeInv, WriteRefsInv
  <1>5. ASSUME NEW o \in Operator, NEW r \in Rules, Decide(o, r) \/ EditRule(o, r)
        PROVE  KnowledgeInv'
    BY <1>5, DecideInv, EditRuleInv
  <1>6. ASSUME NEW o \in Operator, NEW r \in Corpus, ImportCorpus(o, r)
        PROVE  KnowledgeInv'
    BY <1>6, ImportCorpusInv
  <1>7. ASSUME NEW o \in Operator,
               CreateVersion(o) \/ StartPublication(o) \/ CommitPublication(o) \/ Crash(o)
        PROVE  KnowledgeInv'
    BY <1>7, CreateVersionInv, StartPublicationInv, CommitPublicationInv, CrashInv
  <1>8. CASE UNCHANGED knowledgeVars
    BY <1>8 DEF knowledgeVars, KnowledgeInv, RowsOK, VersionsOK, Existing
  <1>9. Pipelines \subseteq Operator /\ Reviewers \subseteq Operator /\ Edited \subseteq Rules
    BY KnowledgeAssumption
  <1> QED
    BY <1>1, <1>2, <1>3, <1>4, <1>5, <1>6, <1>7, <1>8, <1>9 DEF KnowledgeNext

\* KnowledgeInv is an invariant.
LEMMA KnowledgeInvHolds == KnowledgeSpec => []KnowledgeInv
  <1> QED
    BY KnowledgeInvInit, KnowledgeInvNext, PTL DEF KnowledgeSpec

\* Whatever calls and ingestion runs overlap: the rows and versions are well
\* formed, what is served is a published version, a rule is never stamped with
\* a version that was not published, and no rule loses its last source.
THEOREM KnowledgeTypeAlways == KnowledgeSpec => []KnowledgeTypeOK
  <1>1. KnowledgeInv => KnowledgeTypeOK
    BY DEF KnowledgeInv, KnowledgeTypeOK, RowsOK, VersionsOK, Rows, Row, Existing
  <1> QED
    BY <1>1, KnowledgeInvHolds, PTL

-----------------------------------------------------------------------------
(* ReviewInv: what a script may still change *)

\* A script of statements on some rules changes the status of at most these.
LEMMA TargetsWithin ==
  ASSUME NEW T, NEW s \in Seq(T), NEW R, \A t \in T : t.do # "write" => t.rule \in R
  PROVE  Targets(s) \subseteq R
  <1>1. \A i \in DOMAIN s : s[i] \in T
    BY ElementOfSeq
  <1> QED
    BY <1>1 DEF Targets

\* Running a statement adds no target; the rule it is about was one.
LEMMA TargetsOfTail ==
  ASSUME NEW T, NEW s \in Seq(T), s # <<>>
  PROVE  /\ Targets(Tail(s)) \subseteq Targets(s)
         /\ Head(s).do # "write" => Head(s).rule \in Targets(s)
  <1>1. Len(s) \in Nat /\ Len(s) # 0 /\ DOMAIN s = 1..Len(s) /\ Head(s) = s[1]
    BY LenProperties, EmptySeq, HeadTailProperties
  <1>2. \A i \in DOMAIN Tail(s) : i + 1 \in DOMAIN s /\ Tail(s)[i] = s[i + 1]
    <2>1. DOMAIN Tail(s) = 1..(Len(s) - 1) /\ \A i \in 1..(Len(s) - 1) : Tail(s)[i] = s[i + 1]
      BY HeadTailProperties, LenProperties
    <2> QED
      BY <1>1, <2>1
  <1>3. 1 \in DOMAIN s
    BY <1>1
  <1> QED
    BY <1>1, <1>2, <1>3 DEF Targets

\* A script put together of two has the targets of both.
LEMMA TargetsOfConcat ==
  ASSUME NEW T, NEW a \in Seq(T), NEW b \in Seq(T)
  PROVE  Targets(a \o b) \subseteq Targets(a) \cup Targets(b)
  <1>1. /\ Len(a) \in Nat /\ DOMAIN a = 1..Len(a) /\ Len(b) \in Nat /\ DOMAIN b = 1..Len(b)
        /\ DOMAIN (a \o b) = 1..(Len(a) + Len(b))
    BY LenProperties, ConcatProperties
  <1>2. ASSUME NEW i \in DOMAIN (a \o b)
        PROVE  \/ i \in DOMAIN a /\ (a \o b)[i] = a[i]
               \/ i - Len(a) \in DOMAIN b /\ (a \o b)[i] = b[i - Len(a)]
    <2>1. (a \o b)[i] = IF i <= Len(a) THEN a[i] ELSE b[i - Len(a)]
      BY <1>1, ConcatProperties
    <2> QED
      BY <1>1, <2>1
  <1> QED
    BY <1>2 DEF Targets

\* A call that neither merges nor parks is sound.
LEMMA OtherCallSound ==
  ASSUME NEW c, NEW rows, NEW over, c.phase \notin {"merge", "conflict"},
         c.phase \in Parts => ~ c.checked
  PROVE  CallSound(c, rows, over)
  BY DEF CallSound, ChecksHold, SparesApproved, LeavesPrimary

\* A call stays sound while other steps change no status that it is not told of.
LEMMA CallStaysSound ==
  ASSUME KnowledgeInv, NEW o \in Operator, NEW over, CallSound(op[o], rule, over),
         NEW rows, NEW more, over \subseteq more,
         op[o].phase \in Parts =>
           \A r \in Existing(rule) : rows[r].status = rule[r].status \/ r \in more
  PROVE  CallSound(op[o], rows, more)
  <1>1. CASE op[o].phase \notin Parts
    BY <1>1 DEF CallSound, ChecksHold, SparesApproved, LeavesPrimary, Parts
  <1>2. CASE op[o].phase \in Parts
    <2>1. \A r \in Existing(rule) : rows[r].status = rule[r].status \/ r \in more
      BY <1>2
    <2>2. Unapproved(rule) \cup over \subseteq Unapproved(rows) \cup more
      BY <2>1 DEF Unapproved, Existing
    <2>3. Surviving(rule) \subseteq Surviving(rows) \cup more
      BY <2>1 DEF Surviving, Existing
    <2>4. ChecksHold(op[o], rows, more)
      <3> SUFFICES ASSUME op[o].checked
                   PROVE  /\ op[o].script # <<>> /\ Head(op[o].script).do = "move"
                          /\ \/ Head(op[o].script).to
                                  \in Allowed(rows[Head(op[o].script).rule].status)
                             \/ Head(op[o].script).rule \in more
        BY DEF ChecksHold
      <3>1. /\ op[o].script # <<>> /\ Head(op[o].script).do = "move"
            /\ \/ Head(op[o].script).to \in Allowed(rule[Head(op[o].script).rule].status)
               \/ Head(op[o].script).rule \in over
        BY <1>2 DEF CallSound, ChecksHold
      <3>2. Head(op[o].script) \in AllSteps(Existing(rule))
        BY <1>2, <3>1, CallHasScript, ScriptRuns
      <3>3. Head(op[o].script).rule \in Existing(rule)
        BY <3>2 DEF AllSteps, Moves, Folds, Writes
      <3> QED
        BY <2>1, <3>1, <3>3
    <2>5. SparesApproved(op[o], rows, more)
      BY <2>2 DEF CallSound, SparesApproved
    <2>6. LeavesPrimary(op[o], rows, more)
      BY <2>3 DEF CallSound, LeavesPrimary
    <2> QED
      BY <2>4, <2>5, <2>6 DEF CallSound
  <1> QED
    BY <1>1, <1>2

\* Steps that change no status of a rule that exists, outside every call.
LEMMA StatusesKept ==
  ASSUME ReviewInv, KnowledgeInv',
         \A r \in Existing(rule) : rule'[r].status = rule[r].status,
         UNCHANGED <<op, overtaken>>
  PROVE  ReviewInv'
  <1>1. ASSUME NEW o \in Operator  PROVE CallSound(op[o], rule', overtaken[o])
    BY CallStaysSound DEF ReviewInv
  <1> QED
    BY <1>1 DEF ReviewInv

\* A step of one call that changes no status of a rule that exists: what that
\* call knows is up to date when it lists again, and no other call is overtaken.
LEMMA CallEnters ==
  ASSUME ReviewInv, KnowledgeInv', NEW o \in Operator, NEW c, Enter(o, c),
         \A r \in Existing(rule) : rule'[r].status = rule[r].status,
         CallSound(c, rule', {})
  PROVE  ReviewInv'
  <1>1. /\ op' = [op EXCEPT ![o] = c] /\ overtaken' = [overtaken EXCEPT ![o] = {}]
        /\ o \in DOMAIN op /\ DOMAIN op = Operator
        /\ overtaken \in [Operator -> SUBSET Rules]
    BY DEF Enter, ReviewInv, KnowledgeInv
  <1>2. overtaken' \in [Operator -> SUBSET Rules] /\ overtaken'[o] = {} /\ op'[o] = c
    BY <1>1
  <1>3. ASSUME NEW p \in Operator, p # o  PROVE CallSound(op'[p], rule', overtaken'[p])
    <2>1. op'[p] = op[p] /\ overtaken'[p] = overtaken[p]
      BY <1>1, <1>3
    <2>2. CallSound(op[p], rule', overtaken[p])
      BY CallStaysSound DEF ReviewInv
    <2> QED
      BY <2>1, <2>2
  <1> QED
    BY <1>2, <1>3 DEF ReviewInv

\* ... or when it goes on with what it listed.
LEMMA CallContinues ==
  ASSUME ReviewInv, KnowledgeInv', NEW o \in Operator, NEW c, Continue(o, c),
         \A r \in Existing(rule) : rule'[r].status = rule[r].status,
         CallSound(c, rule', overtaken[o])
  PROVE  ReviewInv'
  <1>1. /\ op' = [op EXCEPT ![o] = c] /\ overtaken' = overtaken
        /\ o \in DOMAIN op /\ DOMAIN op = Operator
    BY DEF Continue, ReviewInv, KnowledgeInv
  <1>2. ASSUME NEW p \in Operator, p # o  PROVE CallSound(op'[p], rule', overtaken'[p])
    <2>1. op'[p] = op[p] /\ overtaken'[p] = overtaken[p]
      BY <1>1, <1>2
    <2>2. CallSound(op[p], rule', overtaken[p])
      BY CallStaysSound DEF ReviewInv
    <2> QED
      BY <2>1, <2>2
  <1> QED
    BY <1>1, <1>2 DEF ReviewInv

\* Planned merges spare approved rules and leave the primaries alive.
LEMMA PlansAreSound ==
  ASSUME KnowledgeInv
  PROVE  CallSound(Calls("merge", Merges), rule, {})
  <1> DEFINE c == Calls("merge", Merges)
  <1>0. c.phase = "merge" /\ c.script = Merges /\ c.checked = FALSE
    BY DEF Calls
  <1>1. RowsOK(rule, versions) /\ Merges \in Seq(PlannedFolds)
    BY MergesType DEF KnowledgeInv
  <1>2. \A i \in DOMAIN Merges : Merges[i] \in PlannedFolds
    BY <1>1, ElementOfSeq
  <1>3. \A f \in PlannedFolds : f.rule \in Unapproved(rule)
    BY <1>1, PlannedFoldsType DEF Folds
  <1>4. Targets(Merges) \subseteq Unapproved(rule)
    BY <1>2, <1>3 DEF Targets
  <1>5. ASSUME NEW r \in Targets(Merges)
        PROVE  \E q \in Surviving(rule) \ Targets(Merges) : Value[q] = Value[r]
    <2>1. PICK f \in PlannedFolds : f.rule = r
      BY <1>2 DEF Targets
    <2>2. /\ f.into \in Surviving(rule) /\ Value[f.into] = Value[r]
          /\ \A g \in PlannedFolds : g.rule # f.into
      BY <1>1, <2>1, PlannedFoldsType
    <2>3. f.into \notin Targets(Merges)
      BY <1>2, <2>2 DEF Targets
    <2> QED
      BY <2>2, <2>3
  <1> HIDE DEF c
  <1> QED
    BY <1>0, <1>4, <1>5 DEF CallSound, ChecksHold, SparesApproved, LeavesPrimary, c

\* Conflict marking spares approved rules.
LEMMA ParksAreSound ==
  ASSUME KnowledgeInv
  PROVE  CallSound(Calls("conflict", Conflicts), rule, {})
  <1> DEFINE c == Calls("conflict", Conflicts)
  <1>0. c.phase = "conflict" /\ c.script = Conflicts /\ c.checked = FALSE
    BY DEF Calls
  <1>1. Conflicts \in Seq(Parks(Unapproved(rule)))
    BY ConflictsType DEF KnowledgeInv
  <1>2. \A t \in Parks(Unapproved(rule)) : t.rule \in Unapproved(rule)
    BY DEF Parks, Moves
  <1>3. Targets(Conflicts) \subseteq Unapproved(rule)
    BY <1>1, <1>2, TargetsWithin
  <1> HIDE DEF c
  <1> QED
    BY <1>0, <1>3 DEF CallSound, ChecksHold, SparesApproved, LeavesPrimary, c

-----------------------------------------------------------------------------
(* ReviewInv: one step *)

\* Lists are sound when they are made.
LEMMA ListingStepSound ==
  ASSUME ReviewInv, KnowledgeInv', NEW o \in Operator, StartPipeline(o) \/ NextPart(o)
  PROVE  ReviewInv'
  <1>1. /\ CallSound(Calls("extract", Extraction), rule, {})
        /\ CallSound(Calls("classify", Classification), rule, {})
        /\ CallSound(Idle, rule, {})
    BY OtherCallSound DEF Calls, Idle, Parts
  <1>2. /\ CallSound(Calls("merge", Merges), rule, {})
        /\ CallSound(Calls("conflict", Conflicts), rule, {})
    BY PlansAreSound, ParksAreSound DEF ReviewInv
  <1>3. PICK c \in {Calls("extract", Extraction), Calls("merge", Merges),
                    Calls("classify", Classification), Calls("conflict", Conflicts), Idle} :
          Enter(o, c)
    <2>1. CASE StartPipeline(o)
      BY <2>1 DEF StartPipeline
    <2>2. CASE NextPart(o)
      <3> DEFINE c == CASE op[o].phase = "extract" -> Calls("merge", Merges)
                        [] op[o].phase = "merge" -> Calls("classify", Classification)
                        [] op[o].phase = "classify" -> Calls("conflict", Conflicts)
                        [] OTHER -> Idle
      <3>1. c \in {Calls("merge", Merges), Calls("classify", Classification),
                   Calls("conflict", Conflicts), Idle}
        OBVIOUS
      <3>2. Enter(o, c)
        BY <2>2 DEF NextPart
      <3> HIDE DEF c
      <3> QED
        BY <3>1, <3>2
    <2> QED
      BY <2>1, <2>2
  <1>4. rule' = rule
    BY DEF StartPipeline, NextPart
  <1>5. CallSound(c, rule, {})
    BY <1>1, <1>2, <1>3
  <1> QED
    BY <1>3, <1>4, <1>5, CallEnters

\* A check that passes holds when it is made.
LEMMA CheckTransitionSound ==
  ASSUME ReviewInv, KnowledgeInv', NEW o \in Operator, CheckTransition(o)
  PROVE  ReviewInv'
  <1> DEFINE step == Head(op[o].script)
             d == [op[o] EXCEPT !.checked = TRUE]
  <1>1. Scripted(o, "move") /\ rule' = rule
    BY DEF CheckTransition
  <1>2. CASE step.to \in Allowed(rule[step.rule].status)
    <2>1. op[o].phase \in Parts /\ op[o].script # <<>> /\ step.do = "move"
      BY <1>1, ScriptedCall DEF ReviewInv
    <2>2. op[o] \in Reviewing(op[o].phase, StepsOf(op[o].phase, Existing(rule)))
      BY <2>1, CallHasScript DEF ReviewInv
    <2>3. d.phase = op[o].phase /\ d.script = op[o].script
      BY <2>2 DEF Reviewing
    <2>4. Continue(o, d)
      BY <1>2 DEF CheckTransition
    <2> HIDE DEF d
    <2>5. CallSound(d, rule, overtaken[o])
      BY <1>2, <2>1, <2>3 DEF ReviewInv, CallSound, ChecksHold, SparesApproved, LeavesPrimary
    <2> QED
      BY <1>1, <2>4, <2>5, CallContinues
  <1>3. CASE step.to \notin Allowed(rule[step.rule].status)
    <2>1. CallSound(Idle, rule, {})
      BY OtherCallSound DEF Idle, Parts
    <2>2. Enter(o, Idle)
      BY <1>3 DEF CheckTransition
    <2> QED
      BY <1>1, <2>1, <2>2, CallEnters
  <1> QED
    BY <1>2, <1>3

\* What the fields of a call are when one statement of its script is done.
LEMMA DoneCall ==
  ASSUME KnowledgeInv, NEW o \in Operator, NEW do, Scripted(o, do)
  PROVE  /\ Done(o).phase = op[o].phase /\ Done(o).checked = FALSE
         /\ Targets(Done(o).script) \subseteq Targets(op[o].script)
  <1>1. op[o].phase \in Parts /\ op[o].script # <<>> /\ Head(op[o].script).do = do
    BY ScriptedCall
  <1>2. op[o] \in Reviewing(op[o].phase, StepsOf(op[o].phase, Existing(rule)))
    BY <1>1, CallHasScript
  <1>3. /\ Done(o).phase = op[o].phase /\ Done(o).checked = FALSE
        /\ Done(o).script = Tail(op[o].script)
        /\ op[o].script \in Seq(StepsOf(op[o].phase, Existing(rule)))
    BY <1>2 DEF Done, Reviewing
  <1> QED
    BY <1>1, <1>3, TargetsOfTail

\* The rule of a change of status is a target of the script.
LEMMA MovedRule ==
  ASSUME KnowledgeInv, NEW o \in Operator, Scripted(o, "move")
  PROVE  Head(op[o].script).rule \in Targets(op[o].script)
  <1>1. op[o].phase \in Parts /\ op[o].script # <<>> /\ Head(op[o].script).do = "move"
    BY ScriptedCall
  <1>2. op[o] \in Reviewing(op[o].phase, StepsOf(op[o].phase, Existing(rule)))
    BY <1>1, CallHasScript
  <1>3. op[o].script \in Seq(StepsOf(op[o].phase, Existing(rule)))
    BY <1>2 DEF Reviewing
  <1> QED
    BY <1>1, <1>3, TargetsOfTail

\* Writing references changes no status.
LEMMA WriteRefsSound ==
  ASSUME ReviewInv, KnowledgeInv', NEW o \in Operator, WriteRefs(o)
  PROVE  ReviewInv'
  <1> DEFINE step == Head(op[o].script)
  <1>1. /\ Scripted(o, "write") /\ Continue(o, Done(o))
        /\ rule' = [rule EXCEPT ![step.rule].refs = step.refs]
    BY DEF WriteRefs
  <1>2. \A r \in Rules : rule'[r].status = rule[r].status
    <2> HIDE DEF step
    <2> QED
      BY <1>1 DEF ReviewInv, KnowledgeInv, RowsOK, Rows, Row
  <1>3. Unapproved(rule') = Unapproved(rule) /\ Surviving(rule') = Surviving(rule)
    BY <1>2 DEF Unapproved, Existing, Surviving
  <1>4. /\ op[o].phase = "merge" /\ Done(o).phase = "merge" /\ Done(o).checked = FALSE
        /\ Targets(Done(o).script) \subseteq Targets(op[o].script)
    BY <1>1, DoneCall, MergeCall DEF ReviewInv
  <1>5. CallSound(op[o], rule, overtaken[o])
    BY DEF ReviewInv
  <1>6. CallSound(Done(o), rule', overtaken[o])
    BY <1>3, <1>4, <1>5 DEF CallSound, ChecksHold, SparesApproved, LeavesPrimary
  <1>7. \A r \in Existing(rule) : rule'[r].status = rule[r].status
    BY <1>2 DEF Existing
  <1> QED
    BY <1>1, <1>6, <1>7, CallContinues

\* What a change of status may be, in each part of a call.
LEMMA MoveCall ==
  ASSUME KnowledgeInv, NEW o \in Operator, Scripted(o, "move")
  PROVE  LET step == Head(op[o].script)
         IN  /\ step = Move(step.rule, step.to) /\ step.rule \in Existing(rule)
             /\ op[o].phase = "extract" => step.to = "EXTRACTED"
             /\ op[o].phase = "merge" => step.to = "SUPERSEDED"
             /\ op[o].phase = "classify" => step.to \in {"VALIDATED", "NEEDS_REVIEW"}
             /\ op[o].phase = "conflict" => step.to \in {"NEEDS_REVIEW", "CONFLICTED"}
             /\ op[o].phase = "decide" =>
                  step.to \in {"NEEDS_REVIEW", "APPROVED", "REJECTED", "SUPERSEDED"}
  <1> DEFINE step == Head(op[o].script)
  <1>1. op[o].phase \in Parts /\ op[o].script # <<>> /\ step.do = "move"
    BY ScriptedCall
  <1>2. step \in StepsOf(op[o].phase, Existing(rule))
    BY <1>1, CallHasScript, ScriptRuns
  <1> HIDE DEF step
  <1>3. step \in Moves(Existing(rule), Status)
    BY <1>1, <1>2 DEF StepsOf, Parts, Extracts, MergeSteps, Classifies, Parks, Verdicts,
                      Moves, Folds, Writes, Status
  <1>4. step = Move(step.rule, step.to) /\ step.rule \in Existing(rule)
    BY <1>3 DEF Moves, Move
  <1>5. /\ op[o].phase = "extract" => step.to = "EXTRACTED"
        /\ op[o].phase = "merge" => step.to = "SUPERSEDED"
        /\ op[o].phase = "classify" => step.to \in {"VALIDATED", "NEEDS_REVIEW"}
        /\ op[o].phase = "conflict" => step.to \in {"NEEDS_REVIEW", "CONFLICTED"}
        /\ op[o].phase = "decide" =>
             step.to \in {"NEEDS_REVIEW", "APPROVED", "REJECTED", "SUPERSEDED"}
    BY <1>1, <1>2 DEF StepsOf, Extracts, MergeSteps, Classifies, Parks, Verdicts,
                      Moves, Folds, Writes
  <1> QED
    BY <1>4, <1>5 DEF step

\* The effect of a status change on the rows.
LEMMA StatusEffect ==
  ASSUME KnowledgeInv, NEW o \in Operator, WriteTransition(o)
  PROVE  LET step == Head(op[o].script)
         IN  /\ Scripted(o, "move") /\ op[o].checked
             /\ op' = [op EXCEPT ![o] = Done(o)] /\ UNCHANGED <<versions, current, work>>
             /\ step.rule \in Existing(rule) /\ rule'[step.rule].status = step.to
             /\ rule'[step.rule].version = rule[step.rule].version
             /\ \A r \in Rules \ {step.rule} : rule'[r] = rule[r]
             /\ Overtakes(o, step.rule)
  <1> DEFINE step == Head(op[o].script)
  <1>1. /\ Scripted(o, "move") /\ op[o].checked /\ Overtakes(o, step.rule)
        /\ op' = [op EXCEPT ![o] = Done(o)] /\ UNCHANGED <<versions, current, work>>
        /\ rule' = [rule EXCEPT ![step.rule].status = step.to]
    BY DEF WriteTransition
  <1>2. step.rule \in Existing(rule)
    BY <1>1, MoveCall
  <1> HIDE DEF step
  <1>3. /\ rule'[step.rule].status = step.to
        /\ rule'[step.rule].version = rule[step.rule].version
        /\ \A r \in Rules \ {step.rule} : rule'[r] = rule[r]
    BY <1>1, <1>2 DEF KnowledgeInv, RowsOK, Rows, Row, Existing
  <1> QED
    BY <1>1, <1>2, <1>3 DEF step

\* A status that a script writes keeps the rest of the script sound: merging
\* supersedes a rule that is nobody's primary, parking makes nothing approved.
LEMMA ScriptStaysSound ==
  ASSUME ReviewInv, NEW o \in Operator, WriteTransition(o)
  PROVE  CallSound(Done(o), rule', overtaken[o])
  <1> DEFINE step == Head(op[o].script)
  <1>0. KnowledgeInv /\ CallSound(op[o], rule, overtaken[o])
    BY DEF ReviewInv
  <1>1. /\ Scripted(o, "move") /\ step.rule \in Existing(rule)
        /\ rule'[step.rule].status = step.to
        /\ \A r \in Rules \ {step.rule} : rule'[r] = rule[r]
    BY <1>0, StatusEffect
  <1>2. /\ op[o].phase \in Parts /\ Done(o).phase = op[o].phase /\ Done(o).checked = FALSE
        /\ Targets(Done(o).script) \subseteq Targets(op[o].script)
        /\ step.rule \in Targets(op[o].script)
    <2>0. KnowledgeInv /\ Scripted(o, "move")
      BY <1>0, <1>1
    <2>1. op[o].phase \in Parts
      BY <2>0, ScriptedCall
    <2>2. /\ Done(o).phase = op[o].phase /\ Done(o).checked = FALSE
          /\ Targets(Done(o).script) \subseteq Targets(op[o].script)
      BY <2>0, DoneCall
    <2>3. step.rule \in Targets(op[o].script)
      BY <2>0, MovedRule
    <2> QED
      BY <2>1, <2>2, <2>3
  <1>3. /\ op[o].phase = "merge" => step.to = "SUPERSEDED"
        /\ op[o].phase = "conflict" => step.to \in {"NEEDS_REVIEW", "CONFLICTED"}
    BY <1>0, <1>1, MoveCall
  <1> HIDE DEF step
  <1>4. CASE op[o].phase \in {"merge", "conflict"}
    <2>1. Unapproved(rule) \subseteq Unapproved(rule')
      BY <1>1, <1>3, <1>4 DEF Unapproved, Existing
    <2>2. SparesApproved(Done(o), rule', overtaken[o])
      BY <1>0, <1>2, <2>1 DEF CallSound, SparesApproved
    <2>3. Surviving(rule) \ Targets(op[o].script)
            \subseteq Surviving(rule') \ Targets(Done(o).script)
      BY <1>1, <1>2 DEF Surviving
    <2>4. LeavesPrimary(Done(o), rule', overtaken[o])
      BY <1>0, <1>2, <2>3 DEF CallSound, LeavesPrimary
    <2> QED
      BY <1>2, <2>2, <2>4 DEF CallSound, ChecksHold
  <1>5. CASE op[o].phase \notin {"merge", "conflict"}
    BY <1>2, <1>5, OtherCallSound DEF Parts
  <1> QED
    BY <1>4, <1>5

\* It overtakes every other call that works through a script, on this one rule.
LEMMA WriteTransitionSound ==
  ASSUME ReviewInv, KnowledgeInv', NEW o \in Operator, WriteTransition(o)
  PROVE  ReviewInv'
  <1> DEFINE step == Head(op[o].script)
  <1>1. /\ op' = [op EXCEPT ![o] = Done(o)] /\ step.rule \in Existing(rule)
        /\ \A r \in Rules \ {step.rule} : rule'[r] = rule[r]
        /\ Overtakes(o, step.rule)
    BY StatusEffect DEF ReviewInv
  <1> HIDE DEF step
  <1>2. /\ overtaken \in [Operator -> SUBSET Rules] /\ DOMAIN op = Operator
        /\ step.rule \in Rules
    BY <1>1 DEF ReviewInv, KnowledgeInv, Existing
  <1>3. /\ overtaken' \in [Operator -> SUBSET Rules]
        /\ overtaken'[o] = overtaken[o]
        /\ \A p \in Operator : overtaken[p] \subseteq overtaken'[p]
        /\ \A p \in Operator : p # o /\ "script" \in DOMAIN op[p] => step.rule \in overtaken'[p]
    BY <1>1, <1>2 DEF Overtakes
  <1>4. op'[o] = Done(o) /\ CallSound(Done(o), rule', overtaken'[o])
    BY <1>1, <1>2, <1>3, ScriptStaysSound
  <1>5. ASSUME NEW p \in Operator, p # o  PROVE CallSound(op'[p], rule', overtaken'[p])
    <2>1. op'[p] = op[p]
      BY <1>1, <1>2, <1>5
    <2>2. op[p].phase \in Parts =>
            \A r \in Existing(rule) : rule'[r].status = rule[r].status \/ r \in overtaken'[p]
      <3> SUFFICES ASSUME op[p].phase \in Parts
                   PROVE  \A r \in Existing(rule) :
                            rule'[r].status = rule[r].status \/ r \in overtaken'[p]
        OBVIOUS
      <3>1. op[p] \in Reviewing(op[p].phase, StepsOf(op[p].phase, Existing(rule)))
        BY CallHasScript DEF ReviewInv
      <3>2. "script" \in DOMAIN op[p]
        BY <3>1 DEF Reviewing
      <3>3. step.rule \in overtaken'[p]
        BY <1>3, <1>5, <3>2
      <3> QED
        BY <1>1, <3>3 DEF Existing
    <2>3. CallSound(op[p], rule, overtaken[p]) /\ KnowledgeInv
      BY DEF ReviewInv
    <2>4. CallSound(op[p], rule', overtaken'[p])
      BY <1>3, <2>2, <2>3, CallStaysSound
    <2> QED
      BY <2>1, <2>4
  <1> QED
    BY <1>3, <1>4, <1>5 DEF ReviewInv

\* Reading the rules of a fold adds no target.
LEMMA ReadMergeSound ==
  ASSUME ReviewInv, KnowledgeInv', NEW o \in Operator, ReadMerge(o)
  PROVE  ReviewInv'
  <1> DEFINE step == Head(op[o].script)
             T == Moves({step.rule}, {"SUPERSEDED"}) \cup Writes(Existing(rule))
             M == MergeSteps(Existing(rule))
  <1>0. KnowledgeInv /\ CallSound(op[o], rule, overtaken[o])
    BY DEF ReviewInv
  <1>1. PICK front \in Seq(T) :
           /\ op' = [op EXCEPT ![o] = [op[o] EXCEPT !.script = front \o Tail(op[o].script)]]
           /\ UNCHANGED <<rule, versions, current, work>>
           /\ Scripted(o, "fold")
    BY <1>0, ReadMergeEffect
  <1> DEFINE c == [op[o] EXCEPT !.script = front \o Tail(op[o].script)]
  <1>2. /\ op[o].phase = "merge" /\ op[o].script # <<>> /\ op[o] \in Reviewing("merge", M)
        /\ step \in M /\ step.do = "fold"
    BY <1>0, <1>1, MergeCall
  <1>3. c.phase = "merge" /\ c.checked = op[o].checked /\ c.script = front \o Tail(op[o].script)
        /\ op[o].script \in Seq(M) /\ Tail(op[o].script) \in Seq(M)
    BY <1>2, HeadTailProperties DEF Reviewing
  <1>4. op[o].checked \in BOOLEAN /\ ~ op[o].checked
    BY <1>0, <1>2 DEF CallSound, ChecksHold, Parts, Reviewing
  <1>5. Targets(front) \subseteq {step.rule}
    <2>1. \A t \in T : t.do # "write" => t.rule \in {step.rule}
      <3> HIDE DEF step
      <3> QED
        BY DEF Moves, Writes
    <2> HIDE DEF T, step
    <2> QED
      BY <2>1, TargetsWithin
  <1>6. Targets(c.script) \subseteq Targets(op[o].script)
    <2>1. Targets(Tail(op[o].script)) \subseteq Targets(op[o].script)
          /\ step.rule \in Targets(op[o].script)
      BY <1>2, <1>3, TargetsOfTail
    <2>2. front \in Seq(T \cup M) /\ Tail(op[o].script) \in Seq(T \cup M)
      <3> HIDE DEF T, M
      <3> QED
        BY <1>3
    <2>3. Targets(front \o Tail(op[o].script))
            \subseteq Targets(front) \cup Targets(Tail(op[o].script))
      <3> DEFINE TM == T \cup M
             tail == Tail(op[o].script)
      <3>1. front \in Seq(TM) /\ tail \in Seq(TM)
        BY <2>2
      <3> HIDE DEF TM, tail
      <3>2. Targets(front \o tail) \subseteq Targets(front) \cup Targets(tail)
        BY <3>1, TargetsOfConcat
      <3> QED
        BY <3>2 DEF tail
    <2> QED
      BY <1>3, <1>5, <2>1, <2>3
  <1> HIDE DEF c
  <1>7. CallSound(c, rule, overtaken[o])
    BY <1>0, <1>2, <1>3, <1>4, <1>6
       DEF CallSound, ChecksHold, SparesApproved, LeavesPrimary
  <1>8. Continue(o, c)
    BY <1>1 DEF ReadMerge, Continue, c
  <1> QED
    BY <1>1, <1>7, <1>8, CallContinues

\* A decision starts unchecked.
LEMMA DecideSound ==
  ASSUME ReviewInv, KnowledgeInv', NEW o \in Operator, NEW r \in Rules, Decide(o, r)
  PROVE  ReviewInv'
  <1>1. PICK s : Enter(o, Calls("decide", s))
    BY DEF Decide
  <1>2. rule' = rule
    BY DEF Decide
  <1>3. CallSound(Calls("decide", s), rule, {})
    BY OtherCallSound DEF Calls, Parts
  <1> QED
    BY <1>1, <1>2, <1>3, CallEnters

\* A call that dies has nothing left to run.
LEMMA CrashSound ==
  ASSUME ReviewInv, KnowledgeInv', NEW o \in Operator, Crash(o)
  PROVE  ReviewInv'
  <1>1. Enter(o, Idle) /\ rule' = rule
    BY DEF Crash
  <1>2. CallSound(Idle, rule, {})
    BY OtherCallSound DEF Idle, Parts
  <1> QED
    BY <1>1, <1>2, CallEnters

\* A publication changes no status.
LEMMA PublicationSound ==
  ASSUME ReviewInv, KnowledgeInv', NEW o \in Operator,
         CreateVersion(o) \/ StartPublication(o) \/ CommitPublication(o)
  PROVE  ReviewInv'
  <1>1. ASSUME NEW c, Enter(o, c), c.phase \in {"idle", "created", "publishing"},
               \A r \in Existing(rule) : rule'[r].status = rule[r].status
        PROVE  ReviewInv'
    <2>1. CallSound(c, rule', {})
      BY <1>1, OtherCallSound DEF Parts
    <2> QED
      BY <1>1, <2>1, CallEnters
  <1>2. CASE CreateVersion(o)
    BY <1>1, <1>2 DEF CreateVersion
  <1>3. CASE StartPublication(o)
    BY <1>1, <1>3 DEF StartPublication
  <1>4. CASE CommitPublication(o)
    <2>1. Enter(o, Idle) /\ rule' = Stamped(op[o].version)
      BY <1>4 DEF CommitPublication
    <2>2. \A r \in Existing(rule) : rule'[r].status = rule[r].status
      BY <2>1, <1>4, StampKeepsStatuses DEF ReviewInv, Existing
    <2> QED
      BY <1>1, <2>1, <2>2 DEF Idle
  <1> QED
    BY <1>2, <1>3, <1>4

\* Every other step leaves the statuses of the rules that exist.
QuietStep ==
  \/ \E w \in Worker : \/ \E report \in Reports : Insert(w, report) \/ StartCorroboration(w, report)
                       \/ FinishCorroboration(w) \/ LoseWork(w)
  \/ \E o \in Operator : \/ \E r \in Rules : EditRule(o, r)
                         \/ \E r \in Corpus : ImportCorpus(o, r)
  \/ UNCHANGED knowledgeVars

\* They leave versions and calls too.
LEMMA QuietRows ==
  ASSUME KnowledgeInv, QuietStep
  PROVE  /\ \A r \in Existing(rule) : /\ rule'[r].status = rule[r].status
                                      /\ rule'[r].version = rule[r].version
         /\ UNCHANGED <<versions, current, op, overtaken>>
  <1>0. rule \in Rows
    BY DEF KnowledgeInv, RowsOK
  <1>1. ASSUME NEW r, NEW row, rule[r].status = "ABSENT", rule' = [rule EXCEPT ![r] = row]
        PROVE  \A q \in Existing(rule) : rule'[q] = rule[q]
    BY <1>0, <1>1 DEF Existing, Rows
  <1>2. ASSUME NEW w \in Worker, NEW report \in Reports, Insert(w, report)
        PROVE  (\A q \in Existing(rule) : rule'[q] = rule[q]) /\ UNCHANGED <<versions, current, op, overtaken>>
    BY <1>1, <1>2 DEF Insert
  <1>3. ASSUME NEW o \in Operator, NEW r \in Corpus, ImportCorpus(o, r)
        PROVE  (\A q \in Existing(rule) : rule'[q] = rule[q]) /\ UNCHANGED <<versions, current, op, overtaken>>
    BY <1>1, <1>3 DEF ImportCorpus
  <1>4. ASSUME NEW w \in Worker, NEW report \in Reports, StartCorroboration(w, report)
        PROVE  rule' = rule /\ UNCHANGED <<versions, current, op, overtaken>>
    BY <1>4 DEF StartCorroboration
  <1>5. ASSUME NEW w \in Worker, LoseWork(w)
        PROVE  rule' = rule /\ UNCHANGED <<versions, current, op, overtaken>>
    BY <1>5 DEF LoseWork
  <1>6. ASSUME NEW w \in Worker, FinishCorroboration(w)
        PROVE  /\ \A q \in Rules : /\ rule'[q].status = rule[q].status
                                   /\ rule'[q].version = rule[q].version
               /\ UNCHANGED <<versions, current, op, overtaken>>
    BY <1>0, <1>6 DEF FinishCorroboration, Rows, Row
  <1>7. ASSUME NEW o \in Operator, NEW r \in Rules, EditRule(o, r)
        PROVE  /\ \A q \in Rules : /\ rule'[q].status = rule[q].status
                                   /\ rule'[q].version = rule[q].version
               /\ UNCHANGED <<versions, current, op, overtaken>>
    BY <1>0, <1>7 DEF EditRule, Rows, Row
  <1>8. CASE UNCHANGED knowledgeVars
    BY <1>8 DEF knowledgeVars
  <1>9. Existing(rule) \subseteq Rules
    BY DEF Existing
  <1> QED
    BY <1>2, <1>3, <1>4, <1>5, <1>6, <1>7, <1>8, <1>9 DEF QuietStep

\* No call has a script at first.
LEMMA ReviewInvInit == KnowledgeInit => ReviewInv
  <1> SUFFICES ASSUME KnowledgeInit PROVE ReviewInv
    OBVIOUS
  <1>1. \A o \in Operator : op[o] = Idle
    BY DEF KnowledgeInit
  <1>2. \A o \in Operator : CallSound(Idle, rule, overtaken[o])
    BY OtherCallSound DEF Idle, Parts
  <1>3. overtaken \in [Operator -> SUBSET Rules]
    BY DEF KnowledgeInit
  <1> QED
    BY <1>1, <1>2, <1>3, KnowledgeInvInit DEF ReviewInv

\* Every step keeps ReviewInv, whatever calls overlap.
LEMMA ReviewInvNext == ReviewInv /\ [KnowledgeNext]_knowledgeVars => ReviewInv'
  <1> SUFFICES ASSUME ReviewInv, [KnowledgeNext]_knowledgeVars PROVE ReviewInv'
    OBVIOUS
  <1>0. KnowledgeInv /\ KnowledgeInv'
    BY KnowledgeInvNext DEF ReviewInv
  <1>1. CASE QuietStep
    BY <1>0, <1>1, QuietRows, StatusesKept
  <1>2. ASSUME NEW o \in Operator, StartPipeline(o) \/ NextPart(o)
        PROVE  ReviewInv'
    BY <1>0, <1>2, ListingStepSound
  <1>3. ASSUME NEW o \in Operator,
               CheckTransition(o) \/ WriteTransition(o) \/ ReadMerge(o) \/ WriteRefs(o)
        PROVE  ReviewInv'
    BY <1>0, <1>3, CheckTransitionSound, WriteTransitionSound, ReadMergeSound, WriteRefsSound
  <1>4. ASSUME NEW o \in Operator, NEW r \in Rules, Decide(o, r)
        PROVE  ReviewInv'
    BY <1>0, <1>4, DecideSound
  <1>5. ASSUME NEW o \in Operator,
               CreateVersion(o) \/ StartPublication(o) \/ CommitPublication(o) \/ Crash(o)
        PROVE  ReviewInv'
    BY <1>0, <1>5, PublicationSound, CrashSound
  <1> QED
    BY <1>1, <1>2, <1>3, <1>4, <1>5, KnowledgeAssumption DEF KnowledgeNext, QuietStep

\* ReviewInv is an invariant.
LEMMA ReviewInvHolds == KnowledgeSpec => []ReviewInv
  <1> QED
    BY ReviewInvInit, ReviewInvNext, PTL DEF KnowledgeSpec

-----------------------------------------------------------------------------
(* What no step does *)

\* A change of the status of a rule that exists is a statement of a script; the
\* version of a rule changes only when a publication stamps it.
LEMMA RowChanges ==
  ASSUME KnowledgeInv, [KnowledgeNext]_knowledgeVars, NEW r \in Existing(rule)
  PROVE  \/ /\ rule'[r].status = rule[r].status /\ rule'[r].version = rule[r].version
            /\ current' = current
         \/ \E o \in Operator : /\ WriteTransition(o) /\ Head(op[o].script).rule = r
                                /\ rule'[r].version = rule[r].version /\ current' = current
         \/ \E o \in Operator : CommitPublication(o)
  <1>0. r \in Rules /\ rule \in Rows
    BY DEF Existing, KnowledgeInv, RowsOK
  <1>1. CASE QuietStep
    BY <1>1, QuietRows
  <1>2. ASSUME NEW o \in Operator,
               \/ StartPipeline(o) \/ NextPart(o) \/ CheckTransition(o) \/ ReadMerge(o)
               \/ CreateVersion(o) \/ StartPublication(o) \/ Crash(o)
               \/ \E q \in Rules : Decide(o, q)
        PROVE  rule' = rule /\ current' = current
    BY <1>2 DEF StartPipeline, NextPart, CheckTransition, ReadMerge, CreateVersion,
                StartPublication, Crash, Decide
  <1>3. ASSUME NEW o \in Operator, WriteRefs(o)
        PROVE  /\ rule'[r].status = rule[r].status /\ rule'[r].version = rule[r].version
               /\ current' = current
    BY <1>0, <1>3 DEF WriteRefs, Rows, Row
  <1>4. ASSUME NEW o \in Operator, WriteTransition(o)
        PROVE  /\ current' = current /\ rule'[r].version = rule[r].version
               /\ Head(op[o].script).rule # r => rule'[r] = rule[r]
    BY <1>0, <1>4, StatusEffect
  <1> QED
    BY <1>1, <1>2, <1>3, <1>4, KnowledgeAssumption DEF KnowledgeNext, QuietStep

\* A call that changes a status is not what it was afterwards.
LEMMA CallWrites ==
  ASSUME KnowledgeInv, NEW o \in Operator, WriteTransition(o)
  PROVE  op'[o] # op[o] /\ Scripted(o, "move")
  <1>1. Scripted(o, "move") /\ op[o].checked /\ op' = [op EXCEPT ![o] = Done(o)]
    BY StatusEffect
  <1>2. Done(o).checked = FALSE
    BY <1>1, DoneCall
  <1>3. op'[o] = Done(o)
    BY <1>1 DEF KnowledgeInv
  <1> QED
    BY <1>1, <1>2, <1>3

\* A script that supersedes a rule either is the reviewer's decision or merges it.
LEMMA SupersededBy ==
  ASSUME KnowledgeInv, NEW o \in Operator, WriteTransition(o),
         Head(op[o].script).to = "SUPERSEDED", ~ Superseding(Head(op[o].script).rule)
  PROVE  op[o].phase = "merge" /\ Head(op[o].script).rule \in Targets(op[o].script)
  <1> DEFINE step == Head(op[o].script)
  <1>1. Scripted(o, "move") /\ op'[o] # op[o]
    BY CallWrites
  <1>2. op[o].phase \in Parts /\ op[o].script # <<>> /\ step.rule \in Targets(op[o].script)
    BY <1>1, MovedRule, ScriptedCall
  <1>3. /\ step = Move(step.rule, step.to)
        /\ op[o].phase = "extract" => step.to = "EXTRACTED"
        /\ op[o].phase = "classify" => step.to \in {"VALIDATED", "NEEDS_REVIEW"}
        /\ op[o].phase = "conflict" => step.to \in {"NEEDS_REVIEW", "CONFLICTED"}
    BY <1>1, MoveCall
  <1>4. op[o].phase # "decide"
    BY <1>1, <1>2, <1>3 DEF Superseding
  <1> QED
    BY <1>2, <1>3, <1>4 DEF Parts

\* A step that takes a rule out of production is the reviewer's decision, or that
\* of a call that was overtaken on this rule: the table lets an approved rule only
\* be superseded or put in conflict, and no list of the pipeline names an approved
\* rule.
LEMMA StepStaysStable ==
  ASSUME ReviewInv, [KnowledgeNext]_knowledgeVars, NEW r \in Production
  PROVE  r \in Production' \/ Superseding(r) \/ Overtaken(r, {r})
  <1>0. /\ KnowledgeInv /\ r \in Existing(rule) /\ rule[r].status = "APPROVED"
        /\ r \in Rules /\ rule[r].version = current /\ current # 0
    BY DEF ReviewInv, Production, Existing
  <1>1. CASE /\ rule'[r].status = rule[r].status /\ rule'[r].version = rule[r].version
             /\ current' = current
    BY <1>0, <1>1 DEF Production
  <1>2. ASSUME NEW o \in Operator, WriteTransition(o), Head(op[o].script).rule = r,
               rule'[r].version = rule[r].version, current' = current
        PROVE  Superseding(r) \/ Overtaken(r, {r})
    <2> DEFINE step == Head(op[o].script)
    <2>1. Scripted(o, "move") /\ op[o].checked /\ op'[o] # op[o]
      BY <1>0, <1>2, StatusEffect, CallWrites
    <2>2. CASE r \in overtaken[o]
      BY <1>2, <2>1, <2>2 DEF Overtaken
    <2>3. CASE r \notin overtaken[o]
      <3>1. op[o].phase \in Parts /\ step.rule \in Targets(op[o].script)
        BY <1>0, <2>1, MovedRule, ScriptedCall
      <3>2. step.to \in {"SUPERSEDED", "CONFLICTED"}
        <4>1. step.to \in Allowed(rule[r].status)
          BY <1>2, <2>1, <2>3, <3>1 DEF ReviewInv, CallSound, ChecksHold
        <4> HIDE DEF step
        <4> QED
          BY <1>0, <4>1 DEF Allowed
      <3>3. op[o].phase \notin {"merge", "conflict"}
        <4>1. r \notin Unapproved(rule)
          BY <1>0 DEF Unapproved
        <4> QED
          BY <1>2, <2>3, <3>1, <4>1 DEF ReviewInv, CallSound, SparesApproved
      <3>4. /\ op[o].phase = "extract" => step.to = "EXTRACTED"
            /\ op[o].phase = "classify" => step.to \in {"VALIDATED", "NEEDS_REVIEW"}
            /\ op[o].phase = "decide" =>
                 step.to \in {"NEEDS_REVIEW", "APPROVED", "REJECTED", "SUPERSEDED"}
        BY <1>0, <2>1, MoveCall
      <3>5. step.to = "SUPERSEDED"
        BY <3>1, <3>2, <3>3, <3>4 DEF Parts
      <3> QED
        BY <1>0, <1>2, <3>3, <3>5, SupersededBy
    <2> QED
      BY <2>2, <2>3
  <1>3. ASSUME NEW o \in Operator, CommitPublication(o)
        PROVE  r \in Production'
    <2>1. op[o] \in Publishing(Len(versions)) /\ Len(versions) \in Nat
          /\ Len(versions) <= MaxVersion /\ MaxVersion \in Nat
      BY <1>0, <1>3, PublishingCall, LenProperties, KnowledgeAssumption
         DEF CommitPublication, KnowledgeInv, VersionsOK
    <2>2. op[o].version \in 0..MaxVersion /\ op[o].version # 0
      BY <2>1 DEF Publishing
    <2>3. rule' = Stamped(op[o].version) /\ current' = op[o].version
      BY <1>3 DEF CommitPublication
    <2>4. rule'[r].status = "APPROVED" /\ rule'[r].version = op[o].version
      BY <1>0, <2>2, <2>3, StampedRows DEF KnowledgeInv, RowsOK
    <2> QED
      BY <1>0, <2>2, <2>3, <2>4 DEF Production
  <1> QED
    BY <1>0, <1>1, <1>2, <1>3, RowChanges

\* A step that supersedes a live rule without a decision merges it; its primary
\* is alive, or another call moved a rule of that value.
LEMMA StepLeavesTheFact ==
  ASSUME ReviewInv, [KnowledgeNext]_knowledgeVars, NEW r \in Rules,
         Live(r), rule'[r].status = "SUPERSEDED", ~ Superseding(r)
  PROVE  LET same == {q \in Rules : Value[q] = Value[r]}
         IN  (\E q \in same \ {r} : Live(q)) \/ Overtaken(r, same)
  <1>0. /\ KnowledgeInv /\ r \in Existing(rule) /\ rule[r].status # "SUPERSEDED"
    BY DEF ReviewInv, Live, Existing
  <1>1. ASSUME NEW o \in Operator, CommitPublication(o)
        PROVE  rule'[r].status = rule[r].status
    BY <1>0, <1>1, StampKeepsStatuses
  <1>2. PICK o \in Operator : WriteTransition(o) /\ Head(op[o].script).rule = r
    BY <1>0, <1>1, RowChanges
  <1>3. Head(op[o].script).to = "SUPERSEDED"
    BY <1>0, <1>2, StatusEffect
  <1>4. op[o].phase = "merge" /\ r \in Targets(op[o].script)
    BY <1>0, <1>2, <1>3, SupersededBy
  <1>5. PICK q \in (Surviving(rule) \ Targets(op[o].script)) \cup overtaken[o] :
          Value[q] = Value[r]
    BY <1>4 DEF ReviewInv, CallSound, LeavesPrimary
  <1>6. CASE q \in overtaken[o]
    <2>1. q \in Rules
      BY <1>6 DEF ReviewInv
    <2>2. Scripted(o, "move") /\ op'[o] # op[o]
      BY <1>0, <1>2, CallWrites
    <2> QED
      BY <1>2, <1>5, <1>6, <2>1, <2>2 DEF Overtaken
  <1>7. CASE q \in Surviving(rule) \ Targets(op[o].script)
    BY <1>4, <1>5, <1>7 DEF Surviving, Live
  <1> QED
    BY <1>5, <1>6, <1>7

\* Whatever calls, publications and ingestion runs overlap, and wherever calls
\* die, a rule leaves production only by the reviewer's decision to supersede it,
\* or by a call that another one overtook on this very rule.
THEOREM ProductionIsStable == KnowledgeSpec => ProductionStaysStable
  <1>1. ReviewInv /\ [KnowledgeNext]_knowledgeVars =>
          [\A r \in Production :
             r \in Production' \/ Superseding(r) \/ Overtaken(r, {r})]_knowledgeVars
    BY StepStaysStable
  <1> QED
    BY <1>1, ReviewInvHolds, PTL DEF KnowledgeSpec, ProductionStaysStable

\* Whatever overlaps, merging retires a rendering only while another live rule
\* states its value, or after another call moved a rule of that value.
THEOREM MergingKeepsFacts == KnowledgeSpec => FactsSurviveMerging
  <1>1. ReviewInv /\ [KnowledgeNext]_knowledgeVars =>
          [\A r \in Rules :
             Live(r) /\ rule'[r].status = "SUPERSEDED" /\ ~ Superseding(r) =>
               LET same == {q \in Rules : Value[q] = Value[r]}
               IN  (\E q \in same \ {r} : Live(q)) \/ Overtaken(r, same)]_knowledgeVars
    BY StepLeavesTheFact
  <1> QED
    BY <1>1, ReviewInvHolds, PTL DEF KnowledgeSpec, FactsSurviveMerging

=============================================================================
