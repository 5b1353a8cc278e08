------------------------- MODULE DesignOrdersProofs -------------------------
(***************************************************************************)
(* Theorems about DesignOrders, for any designs, bills, stock and number   *)
(* of calls at a time.                                                     *)
(*                                                                         *)
(* OrdersInv is inductive.  FulfilsIn is what an order promises, and holds *)
(* of a call as soon as it has made its fulfilment lines; KeysAreUnique    *)
(* covers rows that are inserted and not yet committed, which is where the *)
(* idempotency key of an order has to be settled.  BackedInv follows the   *)
(* stock from the snapshot a call reads to the one it commits.             *)
(***************************************************************************)
EXTENDS DesignOrders, FiniteSetTheorems, WellFoundedInduction, TLAPS

\* A revision that compliance has cleared.
Cleared(rs, d, r) == r \in DOMAIN rs[d] /\ rs[d][r]

\* The lines of an order fulfil the bill of a revision of a design.
FulfilsIn(ds, rs, d, r, lines) ==
  /\ Cleared(rs, d, r)
  /\ \A p \in Product :
       /\ lines[p].reserved + lines[p].backorder = Bill[d][r][p]
       /\ lines[p].backorder > 0 => ds[d].tarot

RowFulfils(ds, rs, o) == FulfilsIn(ds, rs, o.design, o.revision, o.lines)

\* What a call has validated.
SoundCall(ds, rs, x) ==
  /\ x.phase = "validated" => Cleared(rs, x.design, x.revision)
  /\ x.phase = "stocked" => FulfilsIn(ds, rs, x.design, x.revision, x.lines)
  /\ x.phase = "inserted" => RowFulfils(ds, rs, x.row)

\* A design that does not exist, and no other, is without a revision.
AbsentIsEmpty ==
  \A d \in Design :
    /\ designs[d].status = "ABSENT" <=> designs[d].current = 0
    /\ designs[d].status = "ABSENT" => designs[d].request = NoRequest

RequestsAreUnique ==
  \A d, e \in Design :
    designs[d].request # NoRequest /\ designs[d].request = designs[e].request => d = e

\* What is stored of designs and revisions.
DesignsTypeOK ==
  /\ designs \in [Design ->
       [status : {"ABSENT", "OPEN", "SAVED", "ARCHIVED"}, current : 0..MaxRevision,
        tarot : BOOLEAN, request : Request \cup {NoRequest}, fingerprint : Fingerprint \cup {NoRequest}]]
  /\ revisions \in [Design -> Seq(BOOLEAN)]
  /\ \A d \in Design : Len(revisions[d]) = designs[d].current

DesignsInv == DesignsTypeOK /\ AbsentIsEmpty /\ RequestsAreUnique

CallsAreSound == \A c \in Client : SoundCall(designs, revisions, call[c])

OrdersAreSound == \A o \in orders : RowFulfils(designs, revisions, o)

\* Capture times and order ids are given out in the order of insertion.
StampsAreGiven ==
  /\ \A p \in Product : stock[p].at <= inserted
  /\ \A c \in Inserting, p \in Product : call[c].rows[p].at <= inserted
  /\ \A o \in orders : o.id <= inserted
  /\ \A c \in Inserting : call[c].row.id <= inserted

\* Two rows, committed or not, have neither the id nor the revision in common.
Apart(o, n) == o.id # n.id /\ <<o.design, o.revision>> # <<n.design, n.revision>>

KeysAreUnique ==
  /\ \A o, n \in orders : o # n => Apart(o, n)
  /\ \A c \in Inserting, o \in orders : Apart(call[c].row, o)
  /\ \A b, c \in Inserting : b # c => Apart(call[b].row, call[c].row)

OrdersInv ==
  /\ OrdersTypeOK
  /\ DesignsInv
  /\ CallsAreSound
  /\ OrdersAreSound
  /\ StampsAreGiven
  /\ KeysAreUnique
-----------------------------------------------------------------------------
(* Operators *)

\* A nonempty set of naturals has a least element.
LEMMA LeastNatural ==
  ASSUME NEW S \in SUBSET Nat, S # {}
  PROVE  \E n \in S : \A m \in S : n <= m
  <1>1. PICK n \in S : \A m \in S : ~ (<<m, n>> \in OpToRel(<, Nat))
    BY NatLessThanWellFounded, WFMin
  <1>2. ASSUME NEW m \in S, ~(n <= m)  PROVE FALSE
    <2>1. m \in Nat /\ n \in Nat /\ m < n
      BY <1>2
    <2>2. <<m, n>> \in OpToRel(<, Nat)
      BY <2>1 DEF OpToRel
    <2> QED
      BY <1>1, <2>2
  <1> QED
    BY <1>2

\* The maximum of a nonempty set of naturals with a bound is in the set.
LEMMA MaxIsTaken ==
  ASSUME NEW n \in Nat, NEW S, S \subseteq 0..n, S # {}
  PROVE  Max(S) \in S /\ \A y \in S : Max(S) >= y
  <1> DEFINE T == {n - x : x \in S}
  <1>1. T \subseteq Nat /\ T # {}
    <2>1. \A x \in S : n - x \in Nat
      <3> TAKE x \in S
      <3>1. x \in 0..n
        OBVIOUS
      <3> QED
        BY <3>1
    <2>2. PICK x \in S : TRUE
      OBVIOUS
    <2>3. n - x \in T
      OBVIOUS
    <2> QED
      BY <2>1, <2>3
  <1>2. PICK t \in T : \A u \in T : t <= u
    <2> HIDE DEF T
    <2> QED
      BY <1>1, LeastNatural
  <1>3. \A u \in T : u >= t
    BY <1>1, <1>2
  <1>4. PICK x \in S : t = n - x
    OBVIOUS
  <1>5. \A y \in S : x >= y
    BY <1>3, <1>4
  <1> QED
    BY <1>5 DEF Max

\* The smaller of two naturals.
LEMMA MinOfTwo ==
  ASSUME NEW a \in Nat, NEW b \in Nat
  PROVE  Min({a, b}) \in {a, b} /\ Min({a, b}) <= a /\ Min({a, b}) <= b
  <1>1. \E x \in {a, b} : \A y \in {a, b} : x =< y
    <2>1. CASE a <= b
      BY <2>1
    <2>2. CASE b <= a
      BY <2>2
    <2> QED
      BY <2>1, <2>2
  <1> QED
    BY <1>1 DEF Min

\* What remains of a product, and what is missing of it for the need.
LEMMA LineEffect ==
  ASSUME NEW p \in Product, NEW needed \in Nat, stock[p].reserved \in Nat
  PROVE  /\ Line(p, needed) \in [reserved : Nat, backorder : Nat]
         /\ Line(p, needed).reserved + Line(p, needed).backorder = needed
         /\ Line(p, needed).backorder > 0 => Remaining(p) < needed
         /\ \/ Line(p, needed).reserved = 0
            \/ stock[p].reserved + Line(p, needed).reserved <= Available[p]
  <1> DEFINE left == Available[p] - stock[p].reserved
             taken == Min({Remaining(p), needed})
  <1>1. left \in Int
    BY OrdersAssumption
  <1> HIDE DEF left
  <1>2. Max({0, left}) \in Nat /\ Max({0, left}) \in {0, left}
    <2>1. \E x \in {0, left} : \A y \in {0, left} : x >= y
      <3>1. CASE left <= 0
        BY <1>1, <3>1
      <3>2. CASE left >= 0
        BY <1>1, <3>2
      <3> QED
        BY <1>1, <3>1, <3>2
    <2>2. Max({0, left}) \in {0, left} /\ Max({0, left}) >= 0
      BY <2>1 DEF Max
    <2> QED
      BY <1>1, <2>2
  <1>3. Remaining(p) \in Nat /\ Remaining(p) \in {0, left}
    BY <1>2 DEF Remaining, left
  <1>4. taken \in {Remaining(p), needed} /\ taken <= needed
    BY <1>3, MinOfTwo
  <1> HIDE DEF taken
  <1>5. Line(p, needed) = [reserved |-> taken, backorder |-> needed - taken]
    BY DEF Line, taken
  <1>6. taken \in Nat /\ needed - taken \in Nat
    BY <1>3, <1>4
  <1>7. needed - taken > 0 => Remaining(p) < needed
    <2> SUFFICES ASSUME needed - taken > 0, ~(Remaining(p) < needed)  PROVE FALSE
      OBVIOUS
    <2>1. taken <= Remaining(p)
      BY <1>3, MinOfTwo DEF taken
    <2>2. taken = Remaining(p)
      BY <1>3, <1>4
    <2> QED
      BY <1>3, <1>6, <2>2
  <1>8. taken = 0 \/ stock[p].reserved + taken <= Available[p]
    <2>1. taken <= Remaining(p)
      BY <1>3, MinOfTwo DEF taken
    <2>2. taken # 0 => taken <= left
      BY <1>1, <1>3, <1>6, <2>1
    <2> QED
      BY <1>1, <1>6, <2>2, OrdersAssumption DEF left
  <1> QED
    BY <1>5, <1>6, <1>7, <1>8
-----------------------------------------------------------------------------
(* Designs *)

\* What a step leaves of designs: cleared revisions stay cleared, and the mode
\* of a design that has one is what it was.
PromisesKept ==
  \A d \in Design : \A r \in DOMAIN revisions[d] :
    /\ Cleared(revisions, d, r) => Cleared(revisions', d, r)
    /\ designs'[d].tarot = designs[d].tarot

\* A sequence that is extended keeps its elements.
LEMMA AppendKeeps ==
  ASSUME NEW s \in Seq(BOOLEAN), NEW e \in BOOLEAN
  PROVE  /\ Append(s, e) \in Seq(BOOLEAN) /\ Len(Append(s, e)) = Len(s) + 1
         /\ \A r \in DOMAIN s : r \in DOMAIN Append(s, e) /\ Append(s, e)[r] = s[r]
  OBVIOUS

\* A new design takes the place of nothing, and a request that has none yet.
LEMMA StoreNewEffect ==
  ASSUME OrdersInv, NEW d \in Design, NEW tarot \in BOOLEAN, NEW q \in Request \cup {NoRequest},
         NEW f \in Fingerprint \cup {NoRequest}, q # NoRequest => MadeBy(q) = {},
         StoreNew(d, tarot, q, f)
  PROVE  /\ DesignsInv' /\ PromisesKept
         /\ designs'[d].request = q
         /\ \A e \in Design \ {d} : designs'[e] = designs[e]
         /\ designs[d].request = NoRequest
  <1> USE DEF OrdersInv, DesignsInv
  <1> DEFINE row == [status |-> "OPEN", current |-> 1, tarot |-> tarot, request |-> q,
                     fingerprint |-> f]
  <1>1. /\ designs[d].status = "ABSENT" /\ designs[d].current = 0 /\ designs[d].request = NoRequest
        /\ designs' = [designs EXCEPT ![d] = row]
    BY DEF StoreNew, AbsentIsEmpty
  <1>2. PICK cleared \in BOOLEAN : revisions' = [revisions EXCEPT ![d] = <<cleared>>]
    BY DEF StoreNew
  <1>3. /\ designs'[d] = row
        /\ \A e \in Design \ {d} : designs'[e] = designs[e]
        /\ \A e \in Design \ {d} : revisions'[e] = revisions[e]
    BY <1>1, <1>2 DEF DesignsTypeOK
  <1>4. row \in [status : {"ABSENT", "OPEN", "SAVED", "ARCHIVED"}, current : 0..MaxRevision,
        tarot : BOOLEAN, request : Request \cup {NoRequest}, fingerprint : Fingerprint \cup {NoRequest}]
    BY OrdersAssumption
  <1>5. DesignsTypeOK'
    <2>1. designs' \in [Design ->
       [status : {"ABSENT", "OPEN", "SAVED", "ARCHIVED"}, current : 0..MaxRevision,
        tarot : BOOLEAN, request : Request \cup {NoRequest}, fingerprint : Fingerprint \cup {NoRequest}]]
      BY <1>1, <1>4 DEF DesignsTypeOK
    <2> QED
      BY <2>1, <1>2, <1>3 DEF DesignsTypeOK
  <1>6. AbsentIsEmpty'
    BY <1>3 DEF AbsentIsEmpty
  <1>7. RequestsAreUnique'
    <2>1. q # NoRequest => \A e \in Design : designs[e].request # q
      BY DEF MadeBy
    <2> QED
      BY <1>3, <2>1 DEF RequestsAreUnique
  <1>8. PromisesKept
    BY <1>1, <1>3 DEF PromisesKept, Cleared, DesignsTypeOK
  <1> QED
    BY <1>1, <1>3, <1>5, <1>6, <1>7, <1>8

\* The status of a design that is stored changes, or a revision is added.
LEMMA DesignRowEffect ==
  ASSUME OrdersInv, NEW d \in Design, Live(d),
         \/ /\ \E status \in {"SAVED", "ARCHIVED"} :
                 designs' = [designs EXCEPT ![d].status = status]
            /\ UNCHANGED revisions
         \/ UpdateDesign(d)
  PROVE  /\ DesignsInv' /\ PromisesKept
         /\ \A e \in Design : designs'[e].request = designs[e].request
  <1> USE DEF OrdersInv, DesignsInv
  <1> DEFINE next == designs[d].current + 1
  <1>1. CASE UpdateDesign(d)
    <2>1. PICK cleared \in BOOLEAN : revisions' = [revisions EXCEPT ![d] = Append(@, cleared)]
      BY <1>1 DEF UpdateDesign
    <2>2. next \in 0..MaxRevision /\ next # 0
      BY <1>1, OrdersAssumption DEF UpdateDesign, DesignsTypeOK
    <2> HIDE DEF next
    <2>3. designs' = [designs EXCEPT ![d].current = next]
      BY <1>1 DEF UpdateDesign, next
    <2>4. DesignsTypeOK'
      <3>1. designs' \in [Design ->
         [status : {"ABSENT", "OPEN", "SAVED", "ARCHIVED"}, current : 0..MaxRevision,
          tarot : BOOLEAN, request : Request \cup {NoRequest}, fingerprint : Fingerprint \cup {NoRequest}]]
        BY <2>2, <2>3, ZenonT(60) DEF DesignsTypeOK
      <3>2. designs'[d].current = next /\ \A e \in Design \ {d} : designs'[e] = designs[e]
        BY <2>3 DEF DesignsTypeOK
      <3>3. /\ revisions'[d] = Append(revisions[d], cleared)
            /\ \A e \in Design \ {d} : revisions'[e] = revisions[e]
        BY <2>1 DEF DesignsTypeOK
      <3>4. revisions' \in [Design -> Seq(BOOLEAN)]
        BY <2>1, AppendKeeps DEF DesignsTypeOK
      <3>5. \A e \in Design : Len(revisions'[e]) = designs'[e].current
        <4>1. Len(revisions'[d]) = next
          BY <3>3, AppendKeeps DEF DesignsTypeOK, next
        <4> QED
          BY <4>1, <3>2, <3>3 DEF DesignsTypeOK
      <3> QED
        BY <3>1, <3>4, <3>5 DEF DesignsTypeOK
    <2>5. \A e \in Design : /\ designs'[e].request = designs[e].request
                            /\ designs'[e].status = designs[e].status
                            /\ designs'[e].tarot = designs[e].tarot
                            /\ e # d => designs'[e] = designs[e]
                            /\ e = d => designs'[e].current = next /\ designs[e].status # "ABSENT"
      BY <2>3 DEF DesignsTypeOK, Live
    <2>6. AbsentIsEmpty' /\ RequestsAreUnique'
      BY <2>2, <2>5 DEF AbsentIsEmpty, RequestsAreUnique
    <2>7. PromisesKept
      <3>1. \A e \in Design \ {d} : revisions'[e] = revisions[e]
        BY <2>1
      <3>2. revisions'[d] = Append(revisions[d], cleared)
        BY <2>1 DEF DesignsTypeOK
      <3> QED
        BY <3>1, <3>2, <2>5, AppendKeeps DEF PromisesKept, Cleared, DesignsTypeOK
    <2> QED
      BY <2>4, <2>5, <2>6, <2>7
  <1>2. CASE ~UpdateDesign(d)
    <2>1. PICK status \in {"SAVED", "ARCHIVED"} : designs' = [designs EXCEPT ![d].status = status]
      BY <1>2
    <2>2. revisions' = revisions
      BY <1>2
    <2>3. \A e \in Design : /\ designs'[e].request = designs[e].request
                            /\ designs'[e].current = designs[e].current
                            /\ designs'[e].tarot = designs[e].tarot
                            /\ designs'[e].status = "ABSENT" <=> designs[e].status = "ABSENT"
      BY <2>1 DEF DesignsTypeOK, Live
    <2>4. DesignsTypeOK'
      <3>1. designs' \in [Design ->
         [status : {"ABSENT", "OPEN", "SAVED", "ARCHIVED"}, current : 0..MaxRevision,
          tarot : BOOLEAN, request : Request \cup {NoRequest}, fingerprint : Fingerprint \cup {NoRequest}]]
        BY <2>1, ZenonT(60) DEF DesignsTypeOK
      <3> QED
        BY <3>1, <2>2, <2>3 DEF DesignsTypeOK
    <2>5. AbsentIsEmpty' /\ RequestsAreUnique'
      BY <2>3 DEF AbsentIsEmpty, RequestsAreUnique
    <2>6. PromisesKept
      BY <2>2, <2>3 DEF PromisesKept, Cleared
    <2> QED
      BY <2>3, <2>4, <2>5, <2>6
  <1> QED
    BY <1>1, <1>2

-----------------------------------------------------------------------------
(* Frames *)

\* What an order was promised holds after a step that keeps promises.
LEMMA FulfilsStays ==
  ASSUME OrdersInv, PromisesKept
  PROVE  \A d \in Design : \A r, lines :
           FulfilsIn(designs, revisions, d, r, lines) => FulfilsIn(designs', revisions', d, r, lines)
  <1> TAKE d \in Design
  <1> TAKE r, lines
  <1> HAVE FulfilsIn(designs, revisions, d, r, lines)
  <1>1. Cleared(revisions, d, r) /\ r \in DOMAIN revisions[d]
    BY DEF FulfilsIn, Cleared
  <1>2. Cleared(revisions', d, r) /\ designs'[d].tarot = designs[d].tarot
    BY <1>1 DEF PromisesKept
  <1> QED
    BY <1>2 DEF FulfilsIn

\* The fields of what a call remembers.
LEMMA CallFields ==
  ASSUME NEW x \in Calls
  PROVE  /\ x.phase \in {"idle", "validated", "deleting", "stocked", "inserted", "creating"}
         /\ x.phase = "idle" => x = Idle
         /\ x.phase \in {"validated", "deleting", "stocked"} =>
              x.design \in Design /\ x.revision \in Revision
         /\ x.phase = "stocked" => x.lines \in Lines /\ x.seen \in [Product -> Nat]
         /\ x.phase = "inserted" => x.row \in OrderRow /\ x.rows \in [Product -> Snapshot]
         /\ x.phase = "creating" => x.request \in Request /\ x.fingerprint \in Fingerprint
  BY DEF Calls, Idle

\* What a call has validated stays so.
LEMMA SoundStays ==
  ASSUME OrdersInv, PromisesKept
  PROVE  /\ \A x \in Calls : SoundCall(designs, revisions, x) => SoundCall(designs', revisions', x)
         /\ \A o \in OrderRow : RowFulfils(designs, revisions, o) => RowFulfils(designs', revisions', o)
  <1>1. \A o \in OrderRow : RowFulfils(designs, revisions, o) => RowFulfils(designs', revisions', o)
    BY FulfilsStays DEF RowFulfils, OrderRow
  <1>2. ASSUME NEW x \in Calls, SoundCall(designs, revisions, x)
        PROVE  SoundCall(designs', revisions', x)
    <2>1. CASE x.phase = "validated"
      <3>1. x.design \in Design /\ Cleared(revisions, x.design, x.revision)
        BY <1>2, <2>1, CallFields DEF SoundCall
      <3>2. Cleared(revisions', x.design, x.revision)
        BY <3>1 DEF PromisesKept, Cleared
      <3> QED
        BY <2>1, <3>2 DEF SoundCall
    <2>2. CASE x.phase = "stocked"
      BY <1>2, <2>2, CallFields, FulfilsStays DEF SoundCall
    <2>3. CASE x.phase = "inserted"
      BY <1>2, <2>3, <1>1, CallFields DEF SoundCall
    <2> QED
      BY <2>1, <2>2, <2>3 DEF SoundCall
  <1> QED
    BY <1>1, <1>2

\* A step that inserts and commits nothing, keeps its promises about designs
\* and lets a call remember only what it has validated preserves OrdersInv.
LEMMA NothingOrdered ==
  ASSUME OrdersInv, DesignsInv', PromisesKept, UNCHANGED <<orders, stock, inserted>>,
         NEW x \in Calls, x.phase # "inserted", SoundCall(designs', revisions', x),
         UNCHANGED call \/ \E c \in Client : Enter(c, x)
  PROVE  OrdersInv'
  <1> USE DEF OrdersInv
  <1>1. /\ call' \in [Client -> Calls]
        /\ \A b \in Client : call'[b] = call[b] \/ call'[b] = x
    BY DEF Enter, OrdersTypeOK
  <1>2. Inserting' \subseteq Inserting /\ \A b \in Inserting' : call'[b] = call[b]
    BY <1>1 DEF Inserting
  <1>3. OrdersTypeOK'
    BY <1>1 DEF OrdersTypeOK, DesignsInv, DesignsTypeOK
  <1>4. CallsAreSound'
    <2>1. \A b \in Client : call[b] \in Calls /\ SoundCall(designs, revisions, call[b])
      BY DEF CallsAreSound, OrdersTypeOK
    <2>2. \A b \in Client : SoundCall(designs', revisions', call[b])
      BY <2>1, SoundStays
    <2> QED
      BY <1>1, <2>2 DEF CallsAreSound
  <1>5. OrdersAreSound'
    <2>1. \A o \in orders : o \in OrderRow /\ RowFulfils(designs, revisions, o)
      BY DEF OrdersAreSound, OrdersTypeOK
    <2>2. \A o \in orders : RowFulfils(designs', revisions', o)
      BY <2>1, SoundStays
    <2> QED
      BY <2>2 DEF OrdersAreSound
  <1>6. StampsAreGiven'
    BY <1>2 DEF StampsAreGiven
  <1>7. KeysAreUnique'
    BY <1>2 DEF KeysAreUnique
  <1> QED
    BY <1>3, <1>4, <1>5, <1>6, <1>7

\* A step that leaves the designs alone keeps its promises about them.
LEMMA DesignsUntouched ==
  ASSUME OrdersInv, UNCHANGED <<designs, revisions>>
  PROVE  DesignsInv' /\ PromisesKept
  <1>1. DesignsInv'
    BY DEF OrdersInv, DesignsInv, DesignsTypeOK, AbsentIsEmpty, RequestsAreUnique
  <1> QED
    BY <1>1 DEF PromisesKept

\* An idle call has validated nothing.
LEMMA IdleIsSound ==
  Idle \in Calls /\ Idle.phase # "inserted" /\ \A ds, rs : SoundCall(ds, rs, Idle)
  BY DEF Calls, Idle, SoundCall

\* A step that only sends a call home preserves OrdersInv.
LEMMA GoesHome ==
  ASSUME OrdersInv, UNCHANGED <<designs, revisions, orders, stock, inserted>>,
         UNCHANGED call \/ \E c \in Client : Enter(c, Idle)
  PROVE  OrdersInv'
  BY DesignsUntouched, IdleIsSound, NothingOrdered

-----------------------------------------------------------------------------
(* The steps *)

\* The steps of designs that no call takes part in.
LEMMA DesignStep ==
  ASSUME OrdersInv, NEW d \in Design, CreateDesign(d) \/ UpdateDesign(d) \/ SaveDesign(d)
  PROVE  /\ OrdersInv'
         /\ \A e \in Design : designs'[e].request = designs[e].request
         /\ UNCHANGED <<orders, told>>
  <1>1. UNCHANGED <<orders, stock, call, inserted, told>>
    BY DEF CreateDesign, UpdateDesign, SaveDesign
  <1>2. /\ DesignsInv' /\ PromisesKept
        /\ \A e \in Design : designs'[e].request = designs[e].request
    <2>1. CASE CreateDesign(d)
      <3>1. PICK tarot \in BOOLEAN : StoreNew(d, tarot, NoRequest, NoRequest)
        BY <2>1 DEF CreateDesign
      <3> QED
        BY <3>1, StoreNewEffect
    <2>2. CASE UpdateDesign(d)
      BY <2>2, DesignRowEffect DEF UpdateDesign
    <2>3. CASE SaveDesign(d)
      BY <2>3, DesignRowEffect DEF SaveDesign
    <2> QED
      BY <2>1, <2>2, <2>3
  <1> QED
    BY <1>1, <1>2, IdleIsSound, NothingOrdered

\* The two steps of a delete.
LEMMA DeleteStep ==
  ASSUME OrdersInv, NEW c \in Client,
         FinishDelete(c) \/ \E d \in Design : StartDelete(c, d)
  PROVE  /\ OrdersInv'
         /\ \A e \in Design : designs'[e].request = designs[e].request
         /\ UNCHANGED <<orders, told>>
  <1>1. CASE FinishDelete(c)
    <2> DEFINE d == call[c].design
    <2>1. d \in Design
      BY <1>1, CallFields DEF FinishDelete, OrdersInv, OrdersTypeOK
    <2>2. /\ DesignsInv' /\ PromisesKept
          /\ \A e \in Design : designs'[e].request = designs[e].request
      <3>1. CASE Live(d)
        BY <1>1, <2>1, <3>1, DesignRowEffect DEF FinishDelete
      <3>2. CASE ~Live(d)
        BY <1>1, <3>2, DesignsUntouched DEF FinishDelete
      <3> QED
        BY <3>1, <3>2
    <2> QED
      BY <1>1, <2>2, IdleIsSound, NothingOrdered DEF FinishDelete
  <1>2. ASSUME NEW d \in Design, StartDelete(c, d)
        PROVE  OrdersInv' /\ UNCHANGED <<designs, orders, told>>
    <2> DEFINE x == [phase |-> "deleting", design |-> d, revision |-> designs[d].current]
    <2>1. designs[d].current \in Revision
      <3>1. designs[d].current \in 0..MaxRevision /\ Len(revisions[d]) = designs[d].current
        BY DEF OrdersInv, OrdersTypeOK
      <3>2. designs[d].current # 0
        BY <1>2, <3>1 DEF StartDelete, Live, OrdersInv, DesignsInv, AbsentIsEmpty
      <3> QED
        BY <3>1, <3>2, OrdersAssumption DEF Revision
    <2>2. x \in Calls /\ x.phase # "inserted" /\ SoundCall(designs', revisions', x)
      BY <2>1 DEF Calls, SoundCall
    <2> HIDE DEF x
    <2>3. Enter(c, x) /\ UNCHANGED <<designs, revisions, orders, stock, inserted, told>>
      BY <1>2 DEF StartDelete, x
    <2> QED
      BY <2>2, <2>3, DesignsUntouched, NothingOrdered
  <1> QED
    BY <1>1, <1>2

\* A first-bead request is answered with the design it made, or makes one.
LEMMA FirstBeadStep ==
  ASSUME OrdersInv, NEW c \in Client,
         \/ \E d \in Design : FinishFirstBead(c, d)
         \/ \E q \in Request, f \in Fingerprint : StartFirstBead(c, q, f)
  PROVE  /\ OrdersInv'
         /\ UNCHANGED orders
         /\ \E q \in Request :
              \/ /\ UNCHANGED designs
                 /\ told' = told \/ \E f : told' = told \cup Answer(q, f)
              \/ \E d \in Design :
                   /\ designs[d].request = NoRequest /\ designs'[d].request = q
                   /\ \A e \in Design \ {d} : designs'[e] = designs[e]
                   /\ MadeBy(q) = {}
                   /\ told' = told \cup {<<q, d>>}
  <1>1. ASSUME NEW d \in Design, FinishFirstBead(c, d)
        PROVE  /\ OrdersInv'
               /\ UNCHANGED orders
               /\ \E q \in Request :
                    \/ UNCHANGED designs /\ \E f : told' = told \cup Answer(q, f)
                    \/ /\ designs[d].request = NoRequest /\ designs'[d].request = q
                       /\ \A e \in Design \ {d} : designs'[e] = designs[e]
                       /\ MadeBy(q) = {}
                       /\ told' = told \cup {<<q, d>>}
    <2> DEFINE q == call[c].request
               f == call[c].fingerprint
    <2>1. q \in Request /\ f \in Fingerprint
      BY <1>1, CallFields DEF FinishFirstBead, OrdersInv, OrdersTypeOK
    <2>2. UNCHANGED <<orders, stock, inserted>> /\ Enter(c, Idle)
      BY <1>1 DEF FinishFirstBead
    <2>3. CASE MadeBy(q) # {}
      <3>1. UNCHANGED <<designs, revisions>> /\ told' = told \cup Answer(q, f)
        BY <1>1, <2>3 DEF FinishFirstBead
      <3> QED
        BY <2>1, <2>2, <3>1, GoesHome
    <2>4. CASE MadeBy(q) = {}
      <3>1. StoreNew(d, FALSE, q, f) /\ told' = told \cup {<<q, d>>}
        BY <1>1, <2>4 DEF FinishFirstBead
      <3> HIDE DEF q, f
      <3>2. /\ DesignsInv' /\ PromisesKept
            /\ designs'[d].request = q /\ designs[d].request = NoRequest
            /\ \A e \in Design \ {d} : designs'[e] = designs[e]
        BY <2>1, <2>4, <3>1, StoreNewEffect
      <3>3. OrdersInv'
        BY <2>2, <3>2, IdleIsSound, NothingOrdered
      <3> QED
        BY <2>1, <2>2, <2>4, <3>1, <3>2, <3>3
    <2> QED
      BY <2>3, <2>4
  <1>2. ASSUME NEW q \in Request, NEW f \in Fingerprint, StartFirstBead(c, q, f)
        PROVE  /\ OrdersInv'
               /\ UNCHANGED <<designs, orders>>
               /\ told' = told \/ told' = told \cup Answer(q, f)
    <2> DEFINE x == [phase |-> "creating", request |-> q, fingerprint |-> f]
    <2>1. UNCHANGED <<designs, revisions, orders, stock, inserted>>
      BY <1>2 DEF StartFirstBead
    <2>2. x \in Calls /\ x.phase # "inserted" /\ SoundCall(designs', revisions', x)
      BY DEF Calls, SoundCall
    <2> HIDE DEF x
    <2>3. /\ UNCHANGED call \/ Enter(c, x)
          /\ told' = told \/ told' = told \cup Answer(q, f)
      BY <1>2 DEF StartFirstBead, x
    <2> QED
      BY <2>1, <2>2, <2>3, DesignsUntouched, NothingOrdered
  <1> QED
    BY <1>1, <1>2

\* A new order is validated against its revision; a repeated one is answered.
LEMMA OrderRequestStep ==
  ASSUME OrdersInv, NEW c \in Client, NEW d \in Design, NEW r \in Revision,
         ReplayOrder(c, d, r) \/ StartOrder(c, d, r)
  PROVE  OrdersInv'
  <1>1. CASE ReplayOrder(c, d, r)
    BY <1>1, GoesHome DEF ReplayOrder
  <1>2. CASE StartOrder(c, d, r)
    <2> DEFINE x == [phase |-> "validated", design |-> d, revision |-> r]
    <2>1. Live(d) /\ r <= Len(revisions[d]) /\ revisions[d][r]
      <3>1. OrderReply(d, r) = "NEW"
        BY <1>2 DEF StartOrder
      <3>2. Live(d) /\ r <= Len(revisions[d])
        <4>1. r \in Int /\ Len(revisions[d]) \in Int
          BY OrdersAssumption DEF Revision, OrdersInv, OrdersTypeOK
        <4>2. ~(~Live(d) \/ r > Len(revisions[d]))
          BY <3>1 DEF OrderReply
        <4> QED
          BY <4>1, <4>2
      <3>3. OrdersOf(d, r) = {}
        BY <3>1, <3>2 DEF OrderReply
      <3> QED
        BY <3>1, <3>2, <3>3 DEF OrderReply
    <2>2. Cleared(revisions, d, r)
      BY <2>1 DEF Cleared, Revision, OrdersInv, OrdersTypeOK
    <2>3. UNCHANGED <<designs, revisions, orders, stock, inserted>> /\ Enter(c, x)
      BY <1>2 DEF StartOrder
    <2>4. x \in Calls /\ x.phase # "inserted" /\ SoundCall(designs', revisions', x)
      BY <2>2, <2>3 DEF Calls, SoundCall
    <2> HIDE DEF x
    <2> QED
      BY <2>3, <2>4, DesignsUntouched, NothingOrdered
  <1> QED
    BY <1>1, <1>2

\* The lines that are made of the latest snapshots fulfil the bill.
LEMMA ReadStockStep ==
  ASSUME OrdersInv, NEW c \in Client, ReadStock(c)
  PROVE  OrdersInv'
  <1> DEFINE d == call[c].design
             r == call[c].revision
             need == Bill[d][r]
             lines == [p \in Product |-> Line(p, need[p])]
             seen == [p \in Product |-> stock[p].reserved]
             x == [phase |-> "stocked", design |-> d, revision |-> r, lines |-> lines, seen |-> seen]
  <1>1. UNCHANGED <<designs, revisions, orders, stock, inserted>>
    BY DEF ReadStock
  <1>2. CASE ~designs[d].tarot /\ \E p \in Product : Remaining(p) < need[p]
    <2>1. Enter(c, Idle)
      BY <1>2 DEF ReadStock
    <2> QED
      BY <1>1, <2>1, GoesHome
  <1>3. CASE designs[d].tarot \/ \A p \in Product : ~(Remaining(p) < need[p])
    <2>1. Enter(c, x)
      BY <1>3 DEF ReadStock
    <2>2. d \in Design /\ r \in Revision /\ Cleared(revisions, d, r)
      BY CallFields DEF ReadStock, OrdersInv, OrdersTypeOK, CallsAreSound, SoundCall
    <2>3. need \in [Product -> Nat]
      BY <2>2, OrdersAssumption DEF Revision
    <2>4. seen \in [Product -> Nat]
      BY DEF OrdersInv, OrdersTypeOK, Snapshot
    <2> HIDE DEF need, d, r
    <2>5. \A p \in Product :
            /\ lines[p] \in [reserved : Nat, backorder : Nat]
            /\ lines[p].reserved + lines[p].backorder = need[p]
            /\ lines[p].backorder > 0 => Remaining(p) < need[p]
      BY <2>3, LineEffect DEF OrdersInv, OrdersTypeOK, Snapshot
    <2>6. FulfilsIn(designs, revisions, d, r, lines)
      <3> HIDE DEF lines
      <3> QED
        BY <1>3, <2>2, <2>5 DEF FulfilsIn, need
    <2>7. lines \in Lines
      BY <2>5 DEF Lines
    <2>8. x \in Calls /\ x.phase # "inserted" /\ SoundCall(designs', revisions', x)
      <3> HIDE DEF lines, seen
      <3> QED
        BY <1>1, <2>2, <2>4, <2>6, <2>7 DEF Calls, SoundCall
    <2> HIDE DEF x
    <2> QED
      BY <1>1, <2>1, <2>8, DesignsUntouched, NothingOrdered
  <1> QED
    BY <1>2, <1>3

\* A snapshot inserted now is captured after the ones before it.
LEMMA CaptureIsNext ==
  ASSUME OrdersInv, NEW p \in Product
  PROVE  NextCapture(p) \in 1..(inserted + 1)
  <1> DEFINE S == {stock[p].at} \cup {call[c].rows[p].at : c \in Inserting}
  <1>1. inserted \in Nat
    BY OrdersAssumption DEF OrdersInv, OrdersTypeOK
  <1>2. stock[p].at \in 0..inserted
    BY <1>1, OrdersAssumption DEF OrdersInv, OrdersTypeOK, StampsAreGiven, Snapshot
  <1>3. \A c \in Inserting : call[c].rows[p].at \in 0..inserted
    <2> TAKE c \in Inserting
    <2>1. call[c].rows \in [Product -> Snapshot]
      BY CallFields DEF Inserting, OrdersInv, OrdersTypeOK
    <2>2. call[c].rows[p].at \in 0..MaxOrders
      BY <2>1 DEF Snapshot
    <2>3. call[c].rows[p].at <= inserted
      BY DEF OrdersInv, StampsAreGiven
    <2> QED
      BY <1>1, <2>2, <2>3, OrdersAssumption
  <1>4. S \subseteq 0..inserted /\ S # {}
    BY <1>2, <1>3
  <1>5. Max(S) \in 0..inserted
    BY <1>1, <1>4, MaxIsTaken
  <1>6. NextCapture(p) = 1 + Max(S)
    BY DEF NextCapture
  <1> HIDE DEF S
  <1> QED
    BY <1>1, <1>5, <1>6

\* An order is inserted with the next id, under a key that no row has.
LEMMA InsertOrderStep ==
  ASSUME OrdersInv, NEW c \in Client, InsertOrder(c)
  PROVE  OrdersInv'
  <1> DEFINE d == call[c].design
             r == call[c].revision
             lines == call[c].lines
             rows == [p \in Product |->
                        IF lines[p].reserved = 0 THEN [at |-> 0, reserved |-> 0]
                        ELSE [at |-> NextCapture(p), reserved |-> call[c].seen[p] + lines[p].reserved]]
             row == [id |-> inserted + 1, design |-> d, revision |-> r, lines |-> lines]
             x == [phase |-> "inserted", row |-> row, rows |-> rows]
  <1>1. /\ call[c].phase = "stocked"
        /\ \A b \in Inserting : <<call[b].row.design, call[b].row.revision>> # <<d, r>>
        /\ OrdersOf(d, r) = {}
        /\ inserted < MaxOrders
        /\ inserted' = inserted + 1
        /\ UNCHANGED <<designs, revisions, orders, stock, told>>
    BY DEF InsertOrder
  <1>2. Enter(c, x)
    BY DEF InsertOrder
  <1>3. call \in [Client -> Calls] /\ call[c] \in Calls
    BY DEF OrdersInv, OrdersTypeOK
  <1>4. /\ d \in Design /\ r \in Revision /\ lines \in Lines
        /\ call[c].seen \in [Product -> Nat]
        /\ FulfilsIn(designs, revisions, d, r, lines)
    BY <1>1, <1>3, CallFields DEF OrdersInv, CallsAreSound, SoundCall
  <1>5. inserted \in Nat /\ inserted + 1 \in OrderId /\ inserted' \in 0..MaxOrders
    BY <1>1, OrdersAssumption DEF OrdersInv, OrdersTypeOK, OrderId
  <1>6. rows \in [Product -> Snapshot] /\ \A p \in Product : rows[p].at <= inserted + 1
    <2>1. ASSUME NEW p \in Product
          PROVE  rows[p] \in Snapshot /\ rows[p].at <= inserted + 1
      <3>1. NextCapture(p) \in 1..(inserted + 1)
        BY CaptureIsNext
      <3>2. NextCapture(p) \in 0..MaxOrders /\ NextCapture(p) <= inserted + 1
        BY <1>1, <1>5, <3>1, OrdersAssumption
      <3>3. call[c].seen[p] \in Nat /\ lines[p].reserved \in Nat
        BY <1>4 DEF Lines
      <3>4. call[c].seen[p] + lines[p].reserved \in Nat
        BY <3>3
      <3>5. 0 \in 0..MaxOrders /\ 0 <= inserted + 1
        BY <1>5, OrdersAssumption
      <3> QED
        BY <3>2, <3>4, <3>5 DEF Snapshot
    <2> QED
      BY <2>1
  <1>7. row \in OrderRow
    BY <1>4, <1>5 DEF OrderRow
  <1>8. row.id = inserted + 1 /\ row.design = d /\ row.revision = r /\ row.lines = lines
    OBVIOUS
  <1> HIDE DEF row, rows, lines, d, r
  <1>9. x \in Calls
    BY <1>6, <1>7 DEF Calls
  <1>10. x.phase = "inserted" /\ x.row = row /\ x.rows = rows
    OBVIOUS
  <1> HIDE DEF x
  <1>11. call' \in [Client -> Calls] /\ call'[c] = x /\ \A b \in Client \ {c} : call'[b] = call[b]
    BY <1>2, <1>3, <1>9 DEF Enter
  <1>12. /\ Inserting' = Inserting \cup {c} /\ c \notin Inserting
         /\ \A b \in Inserting : b # c /\ call'[b] = call[b]
    BY <1>1, <1>10, <1>11 DEF Inserting
  <1>13. OrdersTypeOK'
    BY <1>1, <1>5, <1>11 DEF OrdersTypeOK, OrdersInv
  <1>14. DesignsInv'
    BY <1>1, DesignsUntouched
  <1>15. CallsAreSound'
    <2>1. SoundCall(designs, revisions, x)
      BY <1>4, <1>8, <1>10 DEF SoundCall, RowFulfils
    <2> QED
      BY <1>1, <1>11, <2>1 DEF CallsAreSound, OrdersInv
  <1>16. OrdersAreSound'
    BY <1>1 DEF OrdersAreSound, OrdersInv
  <1> DEFINE one == inserted + 1
  <1>17. one \in Nat /\ inserted' = one /\ \A n \in Nat : n <= inserted => n <= one /\ n # one
    BY <1>1, <1>5
  <1>18. /\ \A p \in Product : stock[p].at \in Nat
         /\ \A b \in Inserting : call[b].row.id \in Nat
         /\ \A b \in Inserting, p \in Product : call[b].rows[p].at \in Nat
         /\ \A o \in orders : o.id \in Nat
    <2>1. 0..MaxOrders \subseteq Nat /\ OrderId \subseteq Nat
      BY OrdersAssumption DEF OrderId
    <2>2. \A b \in Inserting : call[b].row \in OrderRow /\ call[b].rows \in [Product -> Snapshot]
      BY <1>3, CallFields DEF Inserting
    <2> QED
      BY <2>1, <2>2 DEF OrdersInv, OrdersTypeOK, OrderRow, Snapshot
  <1>19. row.id = one /\ \A p \in Product : rows[p].at <= one
    BY <1>6, <1>8
  <1> HIDE DEF one
  <1>20. StampsAreGiven'
    <2>1. \A p \in Product : stock'[p].at <= inserted'
      BY <1>1, <1>17, <1>18 DEF OrdersInv, StampsAreGiven
    <2>2. \A b \in Inserting', p \in Product : call'[b].rows[p].at <= inserted'
      BY <1>10, <1>11, <1>12, <1>17, <1>18, <1>19 DEF OrdersInv, StampsAreGiven
    <2>3. \A o \in orders' : o.id <= inserted'
      BY <1>1, <1>17, <1>18 DEF OrdersInv, StampsAreGiven
    <2>4. \A b \in Inserting' : call'[b].row.id <= inserted'
      BY <1>10, <1>11, <1>12, <1>17, <1>18, <1>19 DEF OrdersInv, StampsAreGiven
    <2> QED
      BY <2>1, <2>2, <2>3, <2>4 DEF StampsAreGiven
  <1>21. KeysAreUnique'
    <2>1. \A b \in Inserting : Apart(row, call[b].row) /\ Apart(call[b].row, row)
      BY <1>1, <1>8, <1>17, <1>18, <1>19 DEF Apart, OrdersInv, StampsAreGiven
    <2>2. \A o \in orders : Apart(row, o)
      BY <1>1, <1>8, <1>17, <1>18, <1>19 DEF Apart, OrdersOf, OrdersInv, StampsAreGiven
    <2>3. \A o, n \in orders' : o # n => Apart(o, n)
      BY <1>1 DEF OrdersInv, KeysAreUnique
    <2>4. \A b \in Inserting', o \in orders' : Apart(call'[b].row, o)
      BY <1>1, <1>10, <1>11, <1>12, <2>2 DEF OrdersInv, KeysAreUnique
    <2>5. \A b, e \in Inserting' : b # e => Apart(call'[b].row, call'[e].row)
      BY <1>10, <1>11, <1>12, <2>1 DEF OrdersInv, KeysAreUnique
    <2> QED
      BY <2>3, <2>4, <2>5 DEF KeysAreUnique
  <1> QED
    BY <1>13, <1>14, <1>15, <1>16, <1>20, <1>21 DEF OrdersInv

\* What is committed is the row that was inserted, and nothing with its key.
LEMMA CommitOrderStep ==
  ASSUME OrdersInv, NEW c \in Client, CommitOrder(c)
  PROVE  /\ OrdersInv'
         /\ UNCHANGED designs
         /\ \E o \in OrderRow :
              /\ \A n \in orders : Apart(o, n)
              /\ orders' = orders \cup {o}
              /\ told' = told \cup {<<<<o.design, o.revision>>, o.id>>}
  <1> DEFINE o == call[c].row
             rows == call[c].rows
  <1>1. /\ call[c].phase = "inserted"
        /\ orders' = orders \cup {o}
        /\ stock' = StockWith(rows)
        /\ told' = told \cup {<<<<o.design, o.revision>>, o.id>>}
        /\ Enter(c, Idle)
        /\ UNCHANGED <<designs, revisions, inserted>>
    BY DEF CommitOrder
  <1>2. /\ c \in Inserting /\ o \in OrderRow /\ rows \in [Product -> Snapshot]
        /\ RowFulfils(designs, revisions, o)
        /\ o.id <= inserted
        /\ \A p \in Product : rows[p].at <= inserted
    <2>1. call[c] \in Calls /\ c \in Inserting
      BY <1>1 DEF OrdersInv, OrdersTypeOK, Inserting
    <2> QED
      BY <1>1, <2>1, CallFields DEF OrdersInv, CallsAreSound, SoundCall, StampsAreGiven
  <1>3. /\ \A n \in orders : Apart(o, n) /\ Apart(n, o)
        /\ \A b \in Inserting \ {c} : Apart(call[b].row, o)
    <2>1. \A n \in orders : Apart(o, n)
      BY <1>2 DEF OrdersInv, KeysAreUnique
    <2> QED
      BY <1>2, <2>1 DEF Apart, OrdersInv, KeysAreUnique
  <1> HIDE DEF o, rows
  <1>4. /\ call' \in [Client -> Calls] /\ call'[c] = Idle
        /\ \A b \in Client \ {c} : call'[b] = call[b]
    BY <1>1, IdleIsSound DEF Enter, OrdersInv, OrdersTypeOK
  <1>5. /\ Inserting' = Inserting \ {c}
        /\ \A b \in Inserting' : call'[b] = call[b] /\ b \in Inserting
    BY <1>4, IdleIsSound DEF Inserting
  <1>6. /\ stock' \in [Product -> Snapshot]
        /\ \A p \in Product : stock'[p].at <= inserted
    <2>1. stock \in [Product -> Snapshot] /\ \A p \in Product : stock[p].at <= inserted
      BY DEF OrdersInv, OrdersTypeOK, StampsAreGiven
    <2>2. \A p \in Product : stock'[p] \in {rows[p], stock[p]}
      BY <1>1 DEF StockWith
    <2>3. stock' = [p \in Product |-> stock'[p]]
      BY <1>1 DEF StockWith
    <2> QED
      BY <1>2, <2>1, <2>2, <2>3
  <1>7. OrdersTypeOK'
    BY <1>1, <1>2, <1>4, <1>6 DEF OrdersTypeOK, OrdersInv
  <1>8. DesignsInv'
    BY <1>1, DesignsUntouched
  <1>9. CallsAreSound'
    BY <1>1, <1>4, IdleIsSound DEF CallsAreSound, OrdersInv
  <1>10. OrdersAreSound'
    BY <1>1, <1>2 DEF OrdersAreSound, OrdersInv
  <1>11. StampsAreGiven'
    BY <1>1, <1>2, <1>5, <1>6 DEF StampsAreGiven, OrdersInv
  <1>12. KeysAreUnique'
    BY <1>1, <1>3, <1>5 DEF KeysAreUnique, OrdersInv
  <1>13. OrdersInv'
    BY <1>7, <1>8, <1>9, <1>10, <1>11, <1>12 DEF OrdersInv
  <1> QED
    BY <1>1, <1>2, <1>3, <1>13

\* A call that loses the insert is answered with the order that won it.
LEMMA LoseInsertStep ==
  ASSUME OrdersInv, NEW c \in Client, LoseInsert(c)
  PROVE  /\ OrdersInv'
         /\ UNCHANGED <<designs, orders>>
         /\ \E d \in Design, r \in Revision : TellOrder(d, r)
  <1>1. call[c] \in Calls
    BY DEF OrdersInv, OrdersTypeOK
  <1>2. call[c].design \in Design /\ call[c].revision \in Revision
    BY <1>1, CallFields DEF LoseInsert
  <1> QED
    BY <1>2, GoesHome DEF LoseInsert

-----------------------------------------------------------------------------
(* The invariant *)

\* No design, no order and no call is sound.
LEMMA OrdersInitial == OrdersInit => OrdersInv
  <1> SUFFICES ASSUME OrdersInit  PROVE OrdersInv
    OBVIOUS
  <1> USE DEF OrdersInit
  <1>1. 0 \in 0..MaxOrders /\ 0 \in 0..MaxRevision /\ 0 \in Nat
    BY OrdersAssumption
  <1>2. /\ \A d \in Design : designs[d].status = "ABSENT" /\ designs[d].current = 0
                             /\ designs[d].request = NoRequest /\ revisions[d] = <<>>
        /\ \A c \in Client : call[c] = Idle
        /\ \A p \in Product : stock[p] = [at |-> 0, reserved |-> 0]
    OBVIOUS
  <1>3. DesignsTypeOK
    <2>1. designs \in [Design ->
       [status : {"ABSENT", "OPEN", "SAVED", "ARCHIVED"}, current : 0..MaxRevision,
        tarot : BOOLEAN, request : Request \cup {NoRequest}, fingerprint : Fingerprint \cup {NoRequest}]]
      BY <1>1
    <2> QED
      BY <2>1, <1>2 DEF DesignsTypeOK
  <1>4. DesignsInv
    BY <1>2, <1>3 DEF DesignsInv, AbsentIsEmpty, RequestsAreUnique
  <1>5. OrdersTypeOK
    <2>1. stock \in [Product -> Snapshot] /\ call \in [Client -> Calls]
      BY <1>1, IdleIsSound DEF Snapshot
    <2> QED
      BY <1>1, <1>3, <2>1 DEF DesignsTypeOK, OrdersTypeOK
  <1>6. Inserting = {}
    BY <1>2, IdleIsSound DEF Inserting
  <1>7. CallsAreSound /\ OrdersAreSound /\ StampsAreGiven /\ KeysAreUnique
    BY <1>1, <1>2, <1>6, IdleIsSound DEF CallsAreSound, OrdersAreSound, StampsAreGiven, KeysAreUnique
  <1> QED
    BY <1>4, <1>5, <1>7 DEF OrdersInv

\* Every step preserves the invariant.
LEMMA OrdersStep ==
  ASSUME OrdersInv, [OrdersNext]_ordersVars
  PROVE  OrdersInv'
  <1>1. CASE UNCHANGED ordersVars
    BY <1>1, GoesHome DEF ordersVars
  <1>2. ASSUME NEW d \in Design, CreateDesign(d) \/ UpdateDesign(d) \/ SaveDesign(d)
        PROVE  OrdersInv'
    BY <1>2, DesignStep
  <1>3. ASSUME NEW c \in Client,
               \/ FinishDelete(c)
               \/ ReadStock(c)
               \/ InsertOrder(c)
               \/ LoseInsert(c)
               \/ CommitOrder(c)
               \/ Abandon(c)
               \/ \E d \in Design :
                    \/ StartDelete(c, d)
                    \/ FinishFirstBead(c, d)
                    \/ \E r \in Revision : ReplayOrder(c, d, r) \/ StartOrder(c, d, r)
               \/ \E q \in Request, f \in Fingerprint : StartFirstBead(c, q, f)
        PROVE  OrdersInv'
    <2>1. CASE Abandon(c)
      BY <2>1, GoesHome DEF Abandon
    <2> QED
      BY <1>3, <2>1, DeleteStep, ReadStockStep, InsertOrderStep, LoseInsertStep, CommitOrderStep,
         FirstBeadStep, OrderRequestStep
  <1> QED
    BY <1>1, <1>2, <1>3 DEF OrdersNext

\* Designs, orders and calls satisfy OrdersInv, whatever the calls interleave.
THEOREM OrdersInvariant == OrdersSpec => []OrdersInv
  <1>1. OrdersInit => OrdersInv
    BY OrdersInitial
  <1>2. OrdersInv /\ [OrdersNext]_ordersVars => OrdersInv'
    BY OrdersStep
  <1> QED
    BY <1>1, <1>2, PTL DEF OrdersSpec

\* Type correctness of designs, revisions, orders, stock and calls: capture
\* times and order ids never exceed the number of orders inserted.
THEOREM OrdersTypeAlways == OrdersSpec => []OrdersTypeOK
  <1>1. OrdersInv => OrdersTypeOK
    BY DEF OrdersInv
  <1> QED
    BY <1>1, OrdersInvariant, PTL

\* Every committed order fulfils the bill of the cleared revision it names,
\* and only that of a tarot guided design waits for a restock, however long
\* ago the call validated the design (createOrderFromDesign).
THEOREM OrdersFulfilAlways == OrdersSpec => []OrdersFulfilTheirRevision
  <1>1. OrdersInv => OrdersFulfilTheirRevision
    BY DEF OrdersInv, OrdersAreSound, RowFulfils, FulfilsIn, Cleared, OrdersFulfilTheirRevision
  <1> QED
    BY <1>1, OrdersInvariant, PTL

-----------------------------------------------------------------------------
(* Idempotent creation *)

\* A caller is told what there is, if there is one thing to tell.
LEMMA TellsMade ==
  ASSUME NEW T, T \subseteq Made, \A m, n \in T : m = n, told' = told \cup T, Made' = Made
  PROVE  [Creation!CreationNext]_<<Made, told>>
  <1>1. CASE T = {}
    BY <1>1
  <1>2. CASE T # {}
    <2>1. PICK m \in T : T = {m}
      BY <1>2
    <2>2. Creation!Tell(m) /\ m \in Made
      BY <2>1 DEF Creation!Tell
    <2> QED
      BY <2>2 DEF Creation!CreationNext
  <1> QED
    BY <1>1, <1>2

\* What is made depends on the requests of the designs and on the orders.
LEMMA MadeStays ==
  ASSUME \A d \in Design : designs'[d].request = designs[d].request, orders' = orders
  PROVE  Made' = Made
  BY DEF Made

\* All answers to a first-bead request are the design it made.
LEMMA AnswerIsMade ==
  ASSUME OrdersInv, NEW q \in Request, NEW f
  PROVE  Answer(q, f) \subseteq Made /\ \A m, n \in Answer(q, f) : m = n
  BY OrdersAssumption DEF Answer, Made, MadeBy, OrdersInv, DesignsInv, RequestsAreUnique

\* All answers to an order request are the order of the revision.
LEMMA OrderIsMade ==
  ASSUME OrdersInv, NEW d \in Design, NEW r \in Revision, TellOrder(d, r),
         \A e \in Design : designs'[e].request = designs[e].request, orders' = orders
  PROVE  [Creation!CreationNext]_<<Made, told>>
  <1> DEFINE T == {<<<<d, r>>, o.id>> : o \in OrdersOf(d, r)}
  <1>1. T \subseteq Made
    BY DEF OrdersOf, Made
  <1>2. \A o, n \in OrdersOf(d, r) : o = n
    BY DEF OrdersOf, OrdersInv, KeysAreUnique, Apart
  <1>3. \A m, n \in T : m = n
    BY <1>2
  <1>4. told' = told \cup T
    BY DEF TellOrder
  <1> QED
    BY <1>1, <1>3, <1>4, MadeStays, TellsMade

\* A first-bead design is made once for its request.
LEMMA BeadIsMadeOnce ==
  ASSUME OrdersInv, NEW q \in Request, NEW d \in Design, MadeBy(q) = {},
         designs[d].request = NoRequest, designs'[d].request = q,
         \A e \in Design \ {d} : designs'[e] = designs[e],
         orders' = orders, told' = told \cup {<<q, d>>}
  PROVE  [Creation!CreationNext]_<<Made, told>>
  <1>1. \A m \in Made : m[1] # q /\ m[2] # d
    <2>1. ASSUME NEW e \in Design, designs[e].request # NoRequest
          PROVE  designs[e].request # q /\ e # d
      BY <2>1 DEF MadeBy
    <2>2. ASSUME NEW o \in orders
          PROVE  <<o.design, o.revision>> # q /\ o.id # d
      <3>1. o.design \in Design /\ o.revision \in Revision /\ o.id \in OrderId
        BY DEF OrdersInv, OrdersTypeOK, OrderRow
      <3> QED
        BY <3>1, OrdersAssumption DEF Revision, OrderId
    <2> QED
      BY <2>1, <2>2 DEF Made
  <1>2. Made' = Made \cup {<<q, d>>}
    BY OrdersAssumption DEF Made
  <1>3. Creation!Make(q, d)
    BY <1>1, <1>2 DEF Creation!Make
  <1> QED
    BY <1>3 DEF Creation!CreationNext

\* An order is made once for its revision.
LEMMA OrderIsMadeOnce ==
  ASSUME OrdersInv, NEW o \in OrderRow, \A n \in orders : Apart(o, n),
         orders' = orders \cup {o}, UNCHANGED designs,
         told' = told \cup {<<<<o.design, o.revision>>, o.id>>}
  PROVE  [Creation!CreationNext]_<<Made, told>>
  <1> DEFINE key == <<o.design, o.revision>>
  <1>1. o.design \in Design /\ o.revision \in Revision /\ o.id \in OrderId
    BY DEF OrderRow
  <1>2. \A m \in Made : m[1] # key /\ m[2] # o.id
    <2>1. ASSUME NEW e \in Design, designs[e].request # NoRequest
          PROVE  designs[e].request # key /\ e # o.id
      <3>1. designs[e].request \in Request
        BY <2>1 DEF OrdersInv, OrdersTypeOK
      <3>2. key \in Design \X (1..MaxRevision)
        BY <1>1 DEF Revision
      <3> HIDE DEF key
      <3> QED
        BY <3>1, <3>2, <1>1, OrdersAssumption DEF OrderId
    <2>2. \A n \in orders : <<n.design, n.revision>> # key /\ n.id # o.id
      BY DEF Apart
    <2> QED
      BY <2>1, <2>2 DEF Made
  <1>3. Made' = Made \cup {<<key, o.id>>}
    BY DEF Made
  <1>4. Creation!Make(key, o.id)
    BY <1>2, <1>3 DEF Creation!Make
  <1>5. key \in Request \cup (Design \X Revision) /\ o.id \in Design \cup OrderId
    BY <1>1
  <1> QED
    BY <1>4, <1>5 DEF Creation!CreationNext

\* Every step of designs and orders is a creation, an answer, or neither.
LEMMA CreationStep ==
  ASSUME OrdersInv, [OrdersNext]_ordersVars
  PROVE  [Creation!CreationNext]_<<Made, told>>
  <1>1. ASSUME UNCHANGED <<orders, told>>,
               \A e \in Design : designs'[e].request = designs[e].request
        PROVE  [Creation!CreationNext]_<<Made, told>>
    BY <1>1, MadeStays
  <1>2. CASE UNCHANGED ordersVars
    BY <1>1, <1>2 DEF ordersVars
  <1>3. ASSUME NEW d \in Design, CreateDesign(d) \/ UpdateDesign(d) \/ SaveDesign(d)
        PROVE  [Creation!CreationNext]_<<Made, told>>
    BY <1>1, <1>3, DesignStep
  <1>4. ASSUME NEW c \in Client, FinishDelete(c) \/ \E d \in Design : StartDelete(c, d)
        PROVE  [Creation!CreationNext]_<<Made, told>>
    BY <1>1, <1>4, DeleteStep
  <1>5. ASSUME NEW c \in Client, ReadStock(c) \/ InsertOrder(c) \/ Abandon(c)
        PROVE  [Creation!CreationNext]_<<Made, told>>
    BY <1>1, <1>5 DEF ReadStock, InsertOrder, Abandon
  <1>6. ASSUME NEW c \in Client, LoseInsert(c)
        PROVE  [Creation!CreationNext]_<<Made, told>>
    BY <1>6, LoseInsertStep, OrderIsMade
  <1>7. ASSUME NEW c \in Client, CommitOrder(c)
        PROVE  [Creation!CreationNext]_<<Made, told>>
    BY <1>7, CommitOrderStep, OrderIsMadeOnce
  <1>8. ASSUME NEW c \in Client,
               \/ \E d \in Design : FinishFirstBead(c, d)
               \/ \E q \in Request, f \in Fingerprint : StartFirstBead(c, q, f)
        PROVE  [Creation!CreationNext]_<<Made, told>>
    <2>1. PICK q \in Request :
              \/ /\ UNCHANGED designs
                 /\ told' = told \/ \E f : told' = told \cup Answer(q, f)
              \/ \E d \in Design :
                   /\ designs[d].request = NoRequest /\ designs'[d].request = q
                   /\ \A e \in Design \ {d} : designs'[e] = designs[e]
                   /\ MadeBy(q) = {}
                   /\ told' = told \cup {<<q, d>>}
      BY <1>8, FirstBeadStep
    <2>2. orders' = orders
      BY <1>8, FirstBeadStep
    <2>3. CASE UNCHANGED designs /\ told' = told
      BY <1>1, <2>2, <2>3
    <2>4. ASSUME UNCHANGED designs, NEW f, told' = told \cup Answer(q, f)
          PROVE  [Creation!CreationNext]_<<Made, told>>
      BY <2>2, <2>4, MadeStays, AnswerIsMade, TellsMade
    <2> QED
      BY <2>1, <2>2, <2>3, <2>4, BeadIsMadeOnce
  <1>9. ASSUME NEW c \in Client, NEW d \in Design, NEW r \in Revision,
               ReplayOrder(c, d, r) \/ StartOrder(c, d, r)
        PROVE  [Creation!CreationNext]_<<Made, told>>
    <2>1. CASE ReplayOrder(c, d, r)
      BY <2>1, OrderIsMade DEF ReplayOrder
    <2>2. CASE StartOrder(c, d, r)
      BY <1>1, <2>2 DEF StartOrder
    <2> QED
      BY <1>9, <2>1, <2>2
  <1> QED
    BY <1>2, <1>3, <1>4, <1>5, <1>6, <1>7, <1>8, <1>9 DEF OrdersNext

\* createOrderFromDesign and createDiyFirstBead implement idempotent creation:
\* an operation makes one result, and every caller is told that one.
THEOREM CreatesOnceAlways == OrdersSpec => CreatesOnce
  <1>1. OrdersInit => Creation!CreationInit
    BY DEF OrdersInit, Creation!CreationInit, Made
  <1>2. OrdersInv /\ [OrdersNext]_ordersVars => [Creation!CreationNext]_<<Made, told>>
    BY CreationStep
  <1> QED
    BY <1>1, <1>2, OrdersInvariant, PTL DEF OrdersSpec, CreatesOnce, Creation!CreationSpec

-----------------------------------------------------------------------------
(* Sums over orders *)

\* A set of subsets of S that has a set as soon as it has its proper subsets
\* has every subset of S.
LEMMA SubsetsByInduction ==
  ASSUME NEW S, IsFiniteSet(S), NEW Q,
         \A s \in SUBSET S : (\A t \in SUBSET s : t # s => t \in Q) => s \in Q
  PROVE  \A s \in SUBSET S : s \in Q
  <1> DEFINE Bad == {s \in SUBSET S : s \notin Q}
             Sizes == {Cardinality(s) : s \in Bad}
  <1>1. \A s \in SUBSET S : IsFiniteSet(s) /\ Cardinality(s) \in Nat
    BY FS_Subset, FS_CardinalityType
  <1>2. SUFFICES ASSUME Bad # {}  PROVE FALSE
    OBVIOUS
  <1>3. Sizes \in SUBSET Nat /\ Sizes # {}
    BY <1>1, <1>2
  <1>4. PICK n \in Sizes : \A m \in Sizes : n <= m
    <2> HIDE DEF Sizes
    <2> QED
      BY <1>3, LeastNatural
  <1>5. PICK s \in Bad : Cardinality(s) = n
    OBVIOUS
  <1>6. ASSUME NEW t \in SUBSET s, t # s  PROVE t \in Q
    <2>1. Cardinality(t) < Cardinality(s)
      BY <1>1, <1>5, <1>6, FS_Subset
    <2>2. Cardinality(t) \in Nat /\ Cardinality(s) \in Nat
      BY <1>1
    <2>3. t \in Bad => n <= Cardinality(t)
      BY <1>4
    <2> QED
      BY <1>5, <2>1, <2>2, <2>3
  <1> QED
    BY <1>5, <1>6

\* The recursion by which ReservedByOrders adds up a set of orders.
Pick(s) == CHOOSE o \in s : TRUE

SumOf(s, p, g) == IF s = {} THEN 0 ELSE Pick(s).lines[p].reserved + g[s \ {Pick(s)}]

SumTable(S, p) == CHOOSE g : g = [s \in SUBSET S |-> SumOf(s, p, g)]

\* ReservedByOrders for a given set of orders.
ReservedBy(S, p) == MapThenSumSet(LAMBDA o : o.lines[p].reserved, S)

\* The fold of the model is that recursion.
LEMMA ReservedIsSum ==
  ASSUME NEW S, NEW p
  PROVE  ReservedBy(S, p) = SumTable(S, p)[S]
  BY DEF MapThenSumSet, MapThenFoldSet, ReservedBy, SumTable, SumOf, Pick

\* The recursion has a solution, built from the smaller subsets to the larger.
LEMMA SumTableExists ==
  ASSUME NEW S, IsFiniteSet(S), NEW p
  PROVE  SumTable(S, p) = [s \in SUBSET S |-> SumOf(s, p, SumTable(S, p))]
  <1> DEFINE UpTo(n) == {s \in SUBSET S : Cardinality(s) <= n}
             P(n) == \E g : g = [s \in UpTo(n) |-> SumOf(s, p, g)]
             Bad == {n \in Nat : ~P(n)}
  <1>1. \A s \in SUBSET S : IsFiniteSet(s) /\ Cardinality(s) \in Nat
    BY FS_Subset, FS_CardinalityType
  <1>2. \A s \in SUBSET S : s # {} =>
          /\ s \ {Pick(s)} \in SUBSET S
          /\ Cardinality(s \ {Pick(s)}) = Cardinality(s) - 1
    <2> SUFFICES ASSUME NEW s \in SUBSET S, s # {}
                 PROVE  Cardinality(s \ {Pick(s)}) = Cardinality(s) - 1
      OBVIOUS
    <2>1. Pick(s) \in s
      BY DEF Pick
    <2> QED
      BY <1>1, <2>1, FS_RemoveElement
  <1>3. P(0)
    <2> DEFINE g == [s \in UpTo(0) |-> 0]
    <2>1. ASSUME NEW s \in UpTo(0)  PROVE SumOf(s, p, g) = 0
      <3>1. s = {}
        BY <1>1, FS_EmptySet
      <3> QED
        BY <3>1 DEF SumOf
    <2>2. g = [s \in UpTo(0) |-> SumOf(s, p, g)]
      BY <2>1
    <2> QED
      BY <2>2
  <1>4. ASSUME NEW n \in Nat, P(n)  PROVE P(n + 1)
    <2>1. PICK g : g = [s \in UpTo(n) |-> SumOf(s, p, g)]
      BY <1>4
    <2> DEFINE h == [s \in UpTo(n + 1) |->
                       IF s \in UpTo(n) THEN g[s] ELSE SumOf(s, p, g)]
    <2>2. ASSUME NEW s \in UpTo(n + 1)  PROVE h[s] = SumOf(s, p, h)
      <3>1. h[s] = SumOf(s, p, g)
        BY <2>1
      <3>2. s # {} => h[s \ {Pick(s)}] = g[s \ {Pick(s)}]
        <4> SUFFICES ASSUME s # {}  PROVE h[s \ {Pick(s)}] = g[s \ {Pick(s)}]
          OBVIOUS
        <4> DEFINE t == s \ {Pick(s)}
        <4>1. t \in SUBSET S /\ Cardinality(t) = Cardinality(s) - 1
          BY <1>2
        <4>2. Cardinality(s) <= n + 1 /\ Cardinality(s) \in Nat
          BY <1>1
        <4>3. Cardinality(t) <= n /\ Cardinality(t) <= n + 1
          BY <4>1, <4>2
        <4> HIDE DEF t
        <4>4. t \in UpTo(n) /\ t \in UpTo(n + 1)
          BY <4>1, <4>3
        <4>5. h[t] = g[t]
          BY <4>4
        <4> QED
          BY <4>5 DEF t
      <3> HIDE DEF h
      <3> QED
        BY <3>1, <3>2 DEF SumOf
    <2>3. h = [s \in UpTo(n + 1) |-> SumOf(s, p, h)]
      BY <2>2
    <2> QED
      BY <2>3
  <1>5. \A n \in Nat : P(n)
    <2>1. SUFFICES ASSUME Bad # {}  PROVE FALSE
      OBVIOUS
    <2>2. PICK n \in Bad : \A m \in Bad : n <= m
      <3>1. Bad \in SUBSET Nat
        OBVIOUS
      <3> HIDE DEF Bad
      <3> QED
        BY <2>1, <3>1, LeastNatural
    <2>3. n \in Nat /\ ~P(n)
      BY <2>2
    <2>4. n # 0
      BY <1>3, <2>3
    <2>5. n - 1 \in Nat /\ ~(n - 1 \in Bad) /\ (n - 1) + 1 = n
      <3> HIDE DEF Bad
      <3> QED
        BY <2>2, <2>3, <2>4
    <2>6. P(n - 1)
      BY <2>5
    <2> HIDE DEF P
    <2>7. P((n - 1) + 1)
      BY <1>4, <2>5, <2>6
    <2> QED
      BY <2>3, <2>5, <2>7
  <1>6. UpTo(Cardinality(S)) = SUBSET S
    <2>1. \A s \in SUBSET S : Cardinality(s) <= Cardinality(S)
      BY FS_Subset
    <2> QED
      BY <2>1
  <1>7. P(Cardinality(S))
    <2> HIDE DEF P
    <2> QED
      BY <1>1, <1>5
  <1>8. \E g : g = [s \in SUBSET S |-> SumOf(s, p, g)]
    BY <1>6, <1>7
  <1> QED
    BY <1>8 DEF SumTable

\* The entry of a subset, from that of one with an order less.
LEMMA SumTableEntry ==
  ASSUME NEW S, IsFiniteSet(S), NEW p, NEW s \in SUBSET S
  PROVE  SumTable(S, p)[s] = SumOf(s, p, SumTable(S, p))
  <1> DEFINE g == SumTable(S, p)
  <1>1. g = [t \in SUBSET S |-> SumOf(t, p, g)]
    BY SumTableExists
  <1> HIDE DEF g
  <1>2. g[s] = SumOf(s, p, g)
    BY <1>1
  <1> QED
    BY <1>2 DEF g

\* The sum over a subset is the same in every table that has it.
LEMMA SumIsTheSame ==
  ASSUME NEW S, IsFiniteSet(S), NEW T \in SUBSET S, NEW p
  PROVE  SumTable(S, p)[T] = ReservedBy(T, p)
  <1> DEFINE Q == {s \in SUBSET T : SumTable(S, p)[s] = SumTable(T, p)[s]}
  <1>1. IsFiniteSet(T)
    BY FS_Subset
  <1>2. ASSUME NEW s \in SUBSET T, \A t \in SUBSET s : t # s => t \in Q
        PROVE  s \in Q
    <2>1. /\ SumTable(S, p)[s] = SumOf(s, p, SumTable(S, p))
          /\ SumTable(T, p)[s] = SumOf(s, p, SumTable(T, p))
      BY <1>1, SumTableEntry
    <2>2. CASE s = {}
      BY <2>1, <2>2 DEF SumOf
    <2>3. CASE s # {}
      <3> DEFINE t == s \ {Pick(s)}
      <3>1. t \in SUBSET s /\ t # s
        BY <2>3 DEF Pick
      <3>2. SumTable(S, p)[t] = SumTable(T, p)[t]
        BY <1>2, <3>1
      <3> QED
        BY <2>1, <2>3, <3>2 DEF SumOf
    <2> QED
      BY <2>2, <2>3
  <1>3. \A s \in SUBSET T : s \in Q
    <2> HIDE DEF Q
    <2> QED
      BY <1>1, <1>2, SubsetsByInduction
  <1> QED
    BY <1>3, ReservedIsSum

\* One order of a set: the sum over the rest, and what it reserves.
LEMMA ReservedByPick ==
  ASSUME NEW S, IsFiniteSet(S), S # {}, NEW p
  PROVE  /\ Pick(S) \in S
         /\ ReservedBy(S, p) = Pick(S).lines[p].reserved + ReservedBy(S \ {Pick(S)}, p)
  <1>1. Pick(S) \in S
    BY DEF Pick
  <1>2. SumTable(S, p)[S] = SumOf(S, p, SumTable(S, p))
    BY SumTableEntry
  <1>3. SumTable(S, p)[S \ {Pick(S)}] = ReservedBy(S \ {Pick(S)}, p)
    BY SumIsTheSame
  <1> QED
    BY <1>1, <1>2, <1>3, ReservedIsSum DEF SumOf

\* Nothing is reserved by no order.
LEMMA ReservedByNone ==
  ASSUME NEW p
  PROVE  ReservedBy({}, p) = 0
  BY FS_EmptySet, SumTableEntry, ReservedIsSum DEF SumOf

\* The sum is a natural number, and each order counts once in it, in whatever
\* order they are added up.
LEMMA ReservedByEach ==
  ASSUME NEW S, IsFiniteSet(S), NEW p, \A o \in S : o.lines[p].reserved \in Nat
  PROVE  /\ ReservedBy(S, p) \in Nat
         /\ \A o \in S : ReservedBy(S, p) = o.lines[p].reserved + ReservedBy(S \ {o}, p)
  <1> DEFINE R(o) == o.lines[p].reserved
             Good(s) == /\ ReservedBy(s, p) \in Nat
                        /\ \A o \in s : ReservedBy(s, p) = R(o) + ReservedBy(s \ {o}, p)
             Q == {s \in SUBSET S : Good(s)}
  <1>1. \A s \in SUBSET S : IsFiniteSet(s)
    BY FS_Subset
  <1>2. ASSUME NEW s \in SUBSET S, \A t \in SUBSET s : t # s => t \in Q
        PROVE  s \in Q
    <2>1. CASE s = {}
      BY <2>1, ReservedByNone
    <2>2. CASE s # {}
      <3> DEFINE x == Pick(s)
                 t == s \ {x}
      <3>1. x \in s /\ ReservedBy(s, p) = R(x) + ReservedBy(t, p)
        BY <1>1, <2>2, ReservedByPick
      <3> HIDE DEF x
      <3>2. t \in SUBSET s /\ t # s
        BY <3>1
      <3>3. Good(t)
        BY <1>2, <3>2
      <3>4. ReservedBy(s, p) \in Nat
        BY <3>1, <3>3
      <3>5. ASSUME NEW o \in s, o # x
            PROVE  ReservedBy(s, p) = R(o) + ReservedBy(s \ {o}, p)
        <4> DEFINE u == s \ {o}
                   w == s \ {o, x}
        <4>1. t \ {o} = w /\ u \ {x} = w /\ o \in t /\ x \in u
          BY <3>1, <3>5
        <4>2. u \in SUBSET s /\ u # s /\ w \in SUBSET s /\ w # s
          BY <3>1, <3>5
        <4>3. Good(u) /\ Good(w)
          BY <1>2, <4>2
        <4>4. ReservedBy(t, p) = R(o) + ReservedBy(w, p)
          BY <3>3, <4>1
        <4>5. ReservedBy(u, p) = R(x) + ReservedBy(w, p)
          BY <4>1, <4>3
        <4>6. R(o) \in Nat /\ R(x) \in Nat /\ ReservedBy(w, p) \in Nat
          BY <3>1, <4>3
        <4> HIDE DEF R, t, u, w
        <4>7. ReservedBy(s, p) = R(o) + ReservedBy(u, p)
          BY <3>1, <4>4, <4>5, <4>6
        <4> QED
          BY <4>7 DEF u
      <3> HIDE DEF R
      <3> QED
        BY <3>1, <3>4, <3>5
    <2> QED
      BY <2>1, <2>2
  <1>3. \A s \in SUBSET S : s \in Q
    <2> HIDE DEF Q
    <2> QED
      BY <1>2, SubsetsByInduction
  <1> QED
    BY <1>3

-----------------------------------------------------------------------------
(* Reservations *)

\* What a call has read or inserted of the stock is no more than there is, and
\* than the committed orders and its own reserve.
CallBacked(os, x) ==
  /\ x.phase = "stocked" =>
       \A p \in Product :
         /\ x.seen[p] <= ReservedBy(os, p)
         /\ x.lines[p].reserved = 0 \/ x.seen[p] + x.lines[p].reserved <= Available[p]
  /\ x.phase = "inserted" =>
       \A p \in Product :
         /\ x.rows[p].reserved <= ReservedBy(os, p) + x.row.lines[p].reserved
         /\ x.rows[p].reserved <= Available[p]

StockBacked(os, st) ==
  \A p \in Product : st[p].reserved <= Available[p] /\ st[p].reserved <= ReservedBy(os, p)

BackedInv ==
  /\ IsFiniteSet(orders)
  /\ StockBacked(orders, stock)
  /\ \A c \in Client : CallBacked(orders, call[c])

\* The sum over committed orders, and over one more.
LEMMA ReservedByOneMore ==
  ASSUME NEW S \in SUBSET OrderRow, IsFiniteSet(S), NEW o \in OrderRow, o \notin S,
         NEW p \in Product
  PROVE  /\ ReservedBy(S, p) \in Nat /\ o.lines[p].reserved \in Nat
         /\ ReservedBy(S \cup {o}, p) = o.lines[p].reserved + ReservedBy(S, p)
  <1> DEFINE T == S \cup {o}
  <1>1. \A n \in OrderRow : n.lines[p].reserved \in Nat
    BY DEF OrderRow, Lines
  <1>2. IsFiniteSet(T) /\ T \ {o} = S /\ o \in T /\ T \subseteq OrderRow
    BY FS_AddElement
  <1> HIDE DEF T
  <1>3. ReservedBy(T, p) = o.lines[p].reserved + ReservedBy(S, p)
    BY <1>1, <1>2, ReservedByEach
  <1>4. ReservedBy(S, p) \in Nat
    BY <1>1, ReservedByEach
  <1> QED
    BY <1>1, <1>3, <1>4 DEF T

\* A step that commits no order.
LEMMA NothingReserved ==
  ASSUME OrdersInv, BackedInv, UNCHANGED <<orders, stock>>, NEW x, CallBacked(orders, x),
         UNCHANGED call \/ \E c \in Client : Enter(c, x)
  PROVE  BackedInv'
  <1>1. call \in [Client -> Calls]
    BY DEF OrdersInv, OrdersTypeOK
  <1>2. \A c \in Client : call'[c] = call[c] \/ call'[c] = x
    BY <1>1 DEF Enter
  <1> QED
    BY <1>2 DEF BackedInv

\* Phases other than these two hold no stock.
LEMMA OthersAreBacked ==
  ASSUME NEW os, NEW x, x.phase \notin {"stocked", "inserted"}
  PROVE  CallBacked(os, x)
  BY DEF CallBacked

\* What is read is backed by the orders committed so far, and a line takes no
\* more than remains.
LEMMA ReadStockIsBacked ==
  ASSUME OrdersInv, BackedInv, NEW c \in Client, ReadStock(c)
  PROVE  BackedInv'
  <1> DEFINE d == call[c].design
             r == call[c].revision
             need == Bill[d][r]
             lines == [p \in Product |-> Line(p, need[p])]
             seen == [p \in Product |-> stock[p].reserved]
             x == [phase |-> "stocked", design |-> d, revision |-> r, lines |-> lines, seen |-> seen]
  <1>1. UNCHANGED <<orders, stock>> /\ (Enter(c, Idle) \/ Enter(c, x))
    BY DEF ReadStock
  <1>2. need \in [Product -> Nat]
    <2>1. d \in Design /\ r \in Revision
      BY CallFields DEF ReadStock, OrdersInv, OrdersTypeOK
    <2> QED
      BY <2>1, OrdersAssumption DEF Revision
  <1> HIDE DEF need
  <1>3. \A p \in Product :
          \/ lines[p].reserved = 0
          \/ stock[p].reserved + lines[p].reserved <= Available[p]
    BY <1>2, LineEffect DEF OrdersInv, OrdersTypeOK, Snapshot
  <1>4. CallBacked(orders, x)
    <2> HIDE DEF lines
    <2> QED
      BY <1>3 DEF CallBacked, BackedInv, StockBacked
  <1> HIDE DEF x
  <1> QED
    BY <1>1, <1>4, OthersAreBacked, NothingReserved DEF Idle

\* The successor snapshot counts what was read, and what the order reserves.
LEMMA InsertOrderIsBacked ==
  ASSUME OrdersInv, BackedInv, NEW c \in Client, InsertOrder(c)
  PROVE  BackedInv'
  <1> DEFINE lines == call[c].lines
             seen == call[c].seen
             rows == [p \in Product |->
                        IF lines[p].reserved = 0 THEN [at |-> 0, reserved |-> 0]
                        ELSE [at |-> NextCapture(p), reserved |-> seen[p] + lines[p].reserved]]
             row == [id |-> inserted + 1, design |-> call[c].design,
                     revision |-> call[c].revision, lines |-> lines]
             x == [phase |-> "inserted", row |-> row, rows |-> rows]
  <1>1. call[c].phase = "stocked" /\ UNCHANGED <<orders, stock>> /\ Enter(c, x)
    BY DEF InsertOrder
  <1>2. lines \in Lines /\ seen \in [Product -> Nat]
    BY <1>1, CallFields DEF OrdersInv, OrdersTypeOK
  <1>3. ASSUME NEW p \in Product
        PROVE  /\ rows[p].reserved <= ReservedBy(orders, p) + lines[p].reserved
               /\ rows[p].reserved <= Available[p]
    <2>1. lines[p].reserved \in Nat /\ seen[p] \in Nat /\ Available[p] \in Nat
      BY <1>2, OrdersAssumption DEF Lines
    <2>2. /\ seen[p] <= ReservedBy(orders, p)
          /\ lines[p].reserved = 0 \/ seen[p] + lines[p].reserved <= Available[p]
      BY <1>1 DEF BackedInv, CallBacked
    <2>3. ReservedBy(orders, p) \in Nat
      <3>1. \A o \in orders : o.lines[p].reserved \in Nat
        BY DEF OrdersInv, OrdersTypeOK, OrderRow, Lines
      <3> QED
        BY <3>1, ReservedByEach DEF BackedInv
    <2>4. CASE lines[p].reserved = 0
      BY <2>1, <2>3, <2>4
    <2>5. CASE lines[p].reserved # 0
      <3>1. rows[p].reserved = seen[p] + lines[p].reserved
        BY <2>5
      <3> HIDE DEF rows, lines, seen
      <3> QED
        BY <2>1, <2>2, <2>3, <2>5, <3>1
    <2> QED
      BY <2>4, <2>5
  <1>4. CallBacked(orders, x)
    <2>1. x.phase = "inserted" /\ x.rows = rows /\ x.row.lines = lines
      OBVIOUS
    <2> HIDE DEF x, rows, lines
    <2> QED
      BY <1>3, <2>1 DEF CallBacked
  <1> HIDE DEF x
  <1> QED
    BY <1>1, <1>4, NothingReserved

\* The order is committed with its snapshots: what they count is backed now,
\* and what others have seen still is.
LEMMA CommitOrderIsBacked ==
  ASSUME OrdersInv, BackedInv, NEW c \in Client, CommitOrder(c)
  PROVE  BackedInv'
  <1> DEFINE o == call[c].row
             rows == call[c].rows
  <1>1. /\ call[c].phase = "inserted" /\ c \in Inserting
        /\ orders' = orders \cup {o}
        /\ stock' = StockWith(rows)
        /\ Enter(c, Idle)
    BY DEF CommitOrder, Inserting
  <1>2. /\ call \in [Client -> Calls] /\ orders \in SUBSET OrderRow /\ IsFiniteSet(orders)
        /\ stock \in [Product -> Snapshot]
        /\ o \in OrderRow /\ rows \in [Product -> Snapshot]
    BY <1>1, CallFields DEF OrdersInv, OrdersTypeOK, BackedInv
  <1>3. o \notin orders
    BY <1>1 DEF OrdersInv, KeysAreUnique, Apart
  <1>4. CallBacked(orders, call[c])
    BY DEF BackedInv
  <1>5. \A p \in Product : rows[p].reserved <= ReservedBy(orders, p) + o.lines[p].reserved
                           /\ rows[p].reserved <= Available[p]
    BY <1>1, <1>4 DEF CallBacked
  <1> HIDE DEF o, rows
  <1>6. IsFiniteSet(orders')
    BY <1>1, <1>2, FS_AddElement
  <1>7. ASSUME NEW p \in Product
        PROVE  /\ ReservedBy(orders, p) \in Nat /\ o.lines[p].reserved \in Nat
               /\ ReservedBy(orders', p) = ReservedBy(orders, p) + o.lines[p].reserved
               /\ ReservedBy(orders', p) \in Nat
               /\ ReservedBy(orders, p) <= ReservedBy(orders', p)
    <2>1. /\ ReservedBy(orders, p) \in Nat /\ o.lines[p].reserved \in Nat
          /\ ReservedBy(orders', p) = o.lines[p].reserved + ReservedBy(orders, p)
      BY <1>1, <1>2, <1>3, ReservedByOneMore
    <2> QED
      BY <2>1
  <1>8. StockBacked(orders', stock')
    <2> SUFFICES ASSUME NEW p \in Product
                 PROVE  stock'[p].reserved <= Available[p] /\ stock'[p].reserved <= ReservedBy(orders', p)
      BY DEF StockBacked
    <2>1. stock'[p] = rows[p] \/ stock'[p] = stock[p]
      BY <1>1 DEF StockWith
    <2>2. stock[p].reserved <= Available[p] /\ stock[p].reserved <= ReservedBy(orders, p)
      BY DEF BackedInv, StockBacked
    <2>3. stock[p].reserved \in Nat
      BY <1>2 DEF Snapshot
    <2>4. stock[p].reserved <= ReservedBy(orders', p)
      BY <1>7, <2>2, <2>3
    <2> QED
      BY <1>5, <1>7, <2>1, <2>2, <2>4
  <1>9. ASSUME NEW b \in Client
        PROVE  CallBacked(orders', call'[b])
    <2>1. call'[b] = Idle \/ call'[b] = call[b]
      BY <1>1, <1>2 DEF Enter
    <2>2. CallBacked(orders', Idle)
      BY OthersAreBacked DEF Idle
    <2>3. CallBacked(orders', call[b])
      <3> DEFINE x == call[b]
      <3>1. x \in Calls /\ CallBacked(orders, x)
        BY <1>2 DEF BackedInv
      <3> HIDE DEF x
      <3>2. ASSUME x.phase = "stocked", NEW p \in Product
            PROVE  x.seen[p] <= ReservedBy(orders', p)
        <4>1. x.seen[p] \in Nat /\ x.seen[p] <= ReservedBy(orders, p)
          BY <3>1, <3>2, CallFields DEF CallBacked
        <4> QED
          BY <1>7, <4>1
      <3>3. ASSUME x.phase = "inserted", NEW p \in Product
            PROVE  x.rows[p].reserved <= ReservedBy(orders', p) + x.row.lines[p].reserved
        <4>1. x.rows[p].reserved \in Nat /\ x.row.lines[p].reserved \in Nat
          BY <3>1, <3>3, CallFields DEF Snapshot, OrderRow, Lines
        <4>2. x.rows[p].reserved <= ReservedBy(orders, p) + x.row.lines[p].reserved
          BY <3>1, <3>3 DEF CallBacked
        <4> QED
          BY <1>7, <4>1, <4>2
      <3>4. CallBacked(orders', x)
        BY <3>1, <3>2, <3>3 DEF CallBacked
      <3> QED
        BY <3>4 DEF x
    <2> QED
      BY <2>1, <2>2, <2>3
  <1> QED
    BY <1>6, <1>8, <1>9 DEF BackedInv

\* No other step commits an order or takes stock.
LEMMA BackedStep ==
  ASSUME OrdersInv, BackedInv, [OrdersNext]_ordersVars
  PROVE  BackedInv'
  <1>1. CallBacked(orders, Idle)
    BY OthersAreBacked DEF Idle
  <1>2. CASE UNCHANGED ordersVars
    BY <1>1, <1>2, NothingReserved DEF ordersVars
  <1>3. ASSUME NEW d \in Design, CreateDesign(d) \/ UpdateDesign(d) \/ SaveDesign(d)
        PROVE  BackedInv'
    BY <1>1, <1>3, NothingReserved DEF CreateDesign, UpdateDesign, SaveDesign
  <1>4. ASSUME NEW c \in Client, FinishDelete(c) \/ LoseInsert(c) \/ Abandon(c)
        PROVE  BackedInv'
    BY <1>1, <1>4, NothingReserved DEF FinishDelete, LoseInsert, Abandon
  <1>5. ASSUME NEW c \in Client, NEW d \in Design, FinishFirstBead(c, d)
        PROVE  BackedInv'
    BY <1>1, <1>5, NothingReserved DEF FinishFirstBead
  <1>6. ASSUME NEW c \in Client, NEW d \in Design, StartDelete(c, d)
        PROVE  BackedInv'
    <2> DEFINE x == [phase |-> "deleting", design |-> d, revision |-> designs[d].current]
    <2>1. CallBacked(orders, x)
      BY OthersAreBacked
    <2> QED
      BY <1>6, <2>1, NothingReserved DEF StartDelete
  <1>7. ASSUME NEW c \in Client, NEW q \in Request, NEW f \in Fingerprint,
               StartFirstBead(c, q, f)
        PROVE  BackedInv'
    <2> DEFINE x == [phase |-> "creating", request |-> q, fingerprint |-> f]
    <2>1. CallBacked(orders, x)
      BY OthersAreBacked
    <2>2. UNCHANGED <<orders, stock>> /\ (UNCHANGED call \/ Enter(c, x))
      BY <1>7 DEF StartFirstBead
    <2> HIDE DEF x
    <2> QED
      BY <2>1, <2>2, NothingReserved
  <1>8. ASSUME NEW c \in Client, NEW d \in Design, NEW r \in Revision,
               ReplayOrder(c, d, r) \/ StartOrder(c, d, r)
        PROVE  BackedInv'
    <2> DEFINE x == [phase |-> "validated", design |-> d, revision |-> r]
    <2>1. CallBacked(orders, x)
      BY OthersAreBacked
    <2>2. UNCHANGED <<orders, stock>> /\ (UNCHANGED call \/ Enter(c, x))
      BY <1>8 DEF ReplayOrder, StartOrder
    <2> HIDE DEF x
    <2> QED
      BY <2>1, <2>2, NothingReserved
  <1> QED
    BY <1>2, <1>3, <1>4, <1>5, <1>6, <1>7, <1>8, ReadStockIsBacked, InsertOrderIsBacked,
       CommitOrderIsBacked DEF OrdersNext

\* The latest snapshot of a product never counts more than there is, nor more
\* than the committed orders reserve, whatever order transactions interleave,
\* fail, or lose their key (createOrderFromDesign).
THEOREM ReservationsAlways == OrdersSpec => []ReservationsAreBacked
  <1>1. OrdersInit => BackedInv
    <2> SUFFICES ASSUME OrdersInit  PROVE BackedInv
      OBVIOUS
    <2>1. StockBacked(orders, stock)
      BY ReservedByNone, OrdersAssumption DEF OrdersInit, StockBacked
    <2>2. \A c \in Client : CallBacked(orders, call[c])
      BY OthersAreBacked DEF OrdersInit, Idle
    <2> QED
      BY <2>1, <2>2, FS_EmptySet DEF OrdersInit, BackedInv
  <1>2. OrdersInv /\ BackedInv /\ [OrdersNext]_ordersVars => BackedInv'
    BY BackedStep
  <1>3. ASSUME OrdersInv, BackedInv  PROVE ReservationsAreBacked
    <2> SUFFICES ASSUME NEW p \in Product
                 PROVE  stock[p].reserved <= Min({Available[p], ReservedByOrders(p)})
      BY DEF ReservationsAreBacked
    <2>1. ReservedByOrders(p) = ReservedBy(orders, p)
      BY DEF ReservedByOrders, ReservedBy
    <2>2. ReservedBy(orders, p) \in Nat /\ Available[p] \in Nat
      <3>1. \A o \in orders : o.lines[p].reserved \in Nat
        BY <1>3 DEF OrdersInv, OrdersTypeOK, OrderRow, Lines
      <3> QED
        BY <1>3, <3>1, ReservedByEach, OrdersAssumption DEF BackedInv
    <2>3. Min({Available[p], ReservedBy(orders, p)}) \in {Available[p], ReservedBy(orders, p)}
      BY <2>2, MinOfTwo
    <2> QED
      BY <1>3, <2>1, <2>3 DEF BackedInv, StockBacked
  <1> QED
    BY <1>1, <1>2, <1>3, OrdersInvariant, PTL DEF OrdersSpec

=============================================================================
