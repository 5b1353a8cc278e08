---------------------------- MODULE DesignOrders ----------------------------
(***************************************************************************)
(* Designs, their revisions, and the orders and stock reservations made    *)
(* from them: DesignRepository, OrderRepository and the calls of the       *)
(* design service around them.                                             *)
(*                                                                         *)
(* A call that PostgreSQL runs as one conditional statement, or whose      *)
(* transaction begins with one and so holds the row, is one action.  The   *)
(* transactions that first read and later insert run at READ COMMITTED and *)
(* are split where other transactions may commit between their statements. *)
(* Requests that are refused change nothing and are left out.              *)
(***************************************************************************)
EXTENDS Integers, Sequences, FiniteSets, FiniteSetsExt

CONSTANTS
  Design,        \* design ids, taken or not
  Product,
  Client,        \* calls in flight at once
  Request,       \* creationRequestId of first-bead requests
  Fingerprint,   \* of the parameters of a first-bead request
  NoRequest,
  Bill,          \* the bill of materials of each revision of a design
  Available,     \* availableQuantity of each product
  MaxRevision,   \* bound on the revisions of a design
  MaxOrders      \* bound on the orders inserted

ASSUME OrdersAssumption ==
  /\ NoRequest \notin Request
  /\ MaxRevision \in Nat \ {0}
  /\ MaxOrders \in Nat
  /\ Bill \in [Design -> [1..MaxRevision -> [Product -> Nat]]]
  /\ Available \in [Product -> Nat]
  \* the keys, and the ids, of the two kinds of creation are apart
  /\ Request \cap (Design \X (1..MaxRevision)) = {}
  /\ Design \cap (1..MaxOrders) = {}

VARIABLES
  designs,     \* designs: status, currentRevision, mode, creation request
  revisions,   \* design_revisions: whether each one is cleared by compliance
  orders,      \* committed orders with their fulfilment lines
  stock,       \* the committed inventory snapshot that was captured last
  call,        \* what each call in flight remembers
  inserted,    \* how many orders were inserted: the next id
  told         \* which result each caller was told for its operation

ordersVars == <<designs, revisions, orders, stock, call, inserted, told>>

Revision == 1..MaxRevision

OrderId == 1..MaxOrders

\* A line's requestedQuantity is their sum.
Lines == [Product -> [reserved : Nat, backorder : Nat]]

OrderRow == [id : OrderId, design : Design, revision : Revision, lines : Lines]

Snapshot == [at : 0..MaxOrders, reserved : Nat]

Idle == [phase |-> "idle"]

Calls ==
  {Idle}
    \cup [phase : {"validated", "deleting"}, design : Design, revision : Revision]
    \cup [phase : {"stocked"}, design : Design, revision : Revision, lines : Lines,
          seen : [Product -> Nat]]
    \cup [phase : {"inserted"}, row : OrderRow, rows : [Product -> Snapshot]]
    \cup [phase : {"creating"}, request : Request, fingerprint : Fingerprint]

OrdersTypeOK ==
  /\ designs \in [Design ->
       [status : {"ABSENT", "OPEN", "SAVED", "ARCHIVED"}, current : 0..MaxRevision,
        tarot : BOOLEAN, request : Request \cup {NoRequest}, fingerprint : Fingerprint \cup {NoRequest}]]
  /\ revisions \in [Design -> Seq(BOOLEAN)]
  /\ \A d \in Design : Len(revisions[d]) = designs[d].current
  /\ orders \subseteq OrderRow
  /\ stock \in [Product -> Snapshot]
  /\ call \in [Client -> Calls]
  /\ inserted \in 0..MaxOrders

OrdersInit ==
  /\ designs = [d \in Design |->
       [status |-> "ABSENT", current |-> 0, tarot |-> FALSE,
        request |-> NoRequest, fingerprint |-> NoRequest]]
  /\ revisions = [d \in Design |-> <<>>]
  /\ orders = {}
  /\ stock = [p \in Product |-> [at |-> 0, reserved |-> 0]]
  /\ call = [c \in Client |-> Idle]
  /\ inserted = 0
  /\ told = {}

Live(d) == designs[d].status \in {"OPEN", "SAVED"}

Enter(c, state) == call' = [call EXCEPT ![c] = state]

-----------------------------------------------------------------------------
(* Designs *)

StoreNew(d, tarot, q, f) ==
  /\ designs[d].status = "ABSENT"
  /\ designs' = [designs EXCEPT ![d] =
       [status |-> "OPEN", current |-> 1, tarot |-> tarot, request |-> q, fingerprint |-> f]]
  /\ \E cleared \in BOOLEAN : revisions' = [revisions EXCEPT ![d] = <<cleared>>]

\* createDesign, tarot guided or not, for a generated design or a clone.
CreateDesign(d) ==
  /\ \E tarot \in BOOLEAN : StoreNew(d, tarot, NoRequest, NoRequest)
  /\ UNCHANGED <<orders, stock, call, inserted, told>>

\* Mutation: the update counts a revision that it does not store.
UpdateWithoutRevision(d) ==
  /\ Live(d)
  /\ designs[d].current < MaxRevision
  /\ designs' = [designs EXCEPT ![d].current = @ + 1]
  /\ UNCHANGED <<revisions, orders, stock, call, inserted, told>>

\* updateDesign: the condition on currentRevision and the new revision row.
UpdateDesign(d) ==
  /\ Live(d)
  /\ designs[d].current < MaxRevision
  /\ designs' = [designs EXCEPT ![d].current = @ + 1]
  /\ \E cleared \in BOOLEAN : revisions' = [revisions EXCEPT ![d] = Append(@, cleared)]
  /\ UNCHANGED <<orders, stock, call, inserted, told>>

SaveDesign(d) ==
  /\ Live(d)
  /\ designs' = [designs EXCEPT ![d].status = "SAVED"]
  /\ UNCHANGED <<revisions, orders, stock, call, inserted, told>>

\* delete compares the expected revision with the row it read ...
StartDelete(c, d) ==
  /\ call[c] = Idle
  /\ Live(d)
  /\ Enter(c, [phase |-> "deleting", design |-> d, revision |-> designs[d].current])
  /\ UNCHANGED <<designs, revisions, orders, stock, inserted, told>>

\* ... and softDeleteDesign deletes whatever revision is there by then.
FinishDelete(c) ==
  LET d == call[c].design IN
  /\ call[c].phase = "deleting"
  /\ designs' = IF Live(d) THEN [designs EXCEPT ![d].status = "ARCHIVED"] ELSE designs
  /\ Enter(c, Idle)
  /\ UNCHANGED <<revisions, orders, stock, inserted, told>>

\* The design made by a first-bead request, deleted or not.
MadeBy(q) == {d \in Design : designs[d].request = q}

\* A request that finds its key: the design, or CONFLICT for other parameters.
Answer(q, f) ==
  {<<q, d>> : d \in {d \in MadeBy(q) : designs[d].fingerprint = f}}

\* createDiyFirstBead looks for the original before it touches the catalogue.
StartFirstBead(c, q, f) ==
  /\ call[c] = Idle
  /\ IF MadeBy(q) # {}
     THEN told' = told \cup Answer(q, f) /\ UNCHANGED call
     ELSE Enter(c, [phase |-> "creating", request |-> q, fingerprint |-> f]) /\ UNCHANGED told
  /\ UNCHANGED <<designs, revisions, orders, stock, inserted>>

\* Mutation: no unique index, the check before the catalogue read decides.
CreateEachTime(c, d) ==
  /\ call[c].phase = "creating"
  /\ StoreNew(d, FALSE, call[c].request, call[c].fingerprint)
  /\ told' = told \cup {<<call[c].request, d>>}
  /\ Enter(c, Idle)
  /\ UNCHANGED <<orders, stock, inserted>>

\* createFirstBeadIdempotently: the unique index on (owner, request) decides
\* between concurrent creations, and the loser reads the winner.
FinishFirstBead(c, d) ==
  LET q == call[c].request
      f == call[c].fingerprint IN
  /\ call[c].phase = "creating"
  /\ IF MadeBy(q) # {}
     THEN told' = told \cup Answer(q, f) /\ UNCHANGED <<designs, revisions>>
     ELSE /\ StoreNew(d, FALSE, q, f)
          /\ told' = told \cup {<<q, d>>}
  /\ Enter(c, Idle)
  /\ UNCHANGED <<orders, stock, inserted>>

-----------------------------------------------------------------------------
(* createOrderFromDesign *)

OrdersOf(d, r) == {o \in orders : o.design = d /\ o.revision = r}

\* What the first reads of the transaction decide.
OrderReply(d, r) ==
  CASE ~Live(d) \/ r > Len(revisions[d]) -> "NOT_FOUND"
    [] Live(d) /\ r <= Len(revisions[d]) /\ OrdersOf(d, r) # {} -> "EXISTING"
    [] OTHER ->
         IF designs[d].current # r THEN "CONFLICT"
         ELSE IF revisions[d][r] THEN "NEW" ELSE "COMPLIANCE_BLOCKED"

TellOrder(d, r) == told' = told \cup {<<<<d, r>>, o.id>> : o \in OrdersOf(d, r)}

\* A retry is answered with the order that is there.
ReplayOrder(c, d, r) ==
  /\ call[c] = Idle
  /\ OrderReply(d, r) = "EXISTING"
  /\ TellOrder(d, r)
  /\ UNCHANGED <<designs, revisions, orders, stock, call, inserted>>

StartOrder(c, d, r) ==
  /\ call[c] = Idle
  /\ OrderReply(d, r) = "NEW"
  /\ Enter(c, [phase |-> "validated", design |-> d, revision |-> r])
  /\ UNCHANGED <<designs, revisions, orders, stock, inserted, told>>

Remaining(p) == Max({0, Available[p] - stock[p].reserved})

Line(p, needed) ==
  LET reserved == Min({Remaining(p), needed}) IN
  [reserved |-> reserved, backorder |-> needed - reserved]

\* Mutation: a shortage of any design is backordered.
BackorderAny(c) ==
  LET need == Bill[call[c].design][call[c].revision] IN
  /\ call[c].phase = "validated"
  /\ Enter(c, [phase |-> "stocked", design |-> call[c].design, revision |-> call[c].revision,
               lines |-> [p \in Product |-> Line(p, need[p])],
               seen |-> [p \in Product |-> stock[p].reserved]])
  /\ UNCHANGED <<designs, revisions, orders, stock, inserted, told>>

\* The latest inventory snapshots are read and the fulfilment lines made; a
\* shortage of a design that is not tarot guided is INVENTORY_CHANGED.
ReadStock(c) ==
  LET need == Bill[call[c].design][call[c].revision] IN
  /\ call[c].phase = "validated"
  /\ IF ~designs[call[c].design].tarot /\ \E p \in Product : Remaining(p) < need[p]
     THEN Enter(c, Idle)
     ELSE Enter(c, [phase |-> "stocked", design |-> call[c].design, revision |-> call[c].revision,
                    lines |-> [p \in Product |-> Line(p, need[p])],
                    seen |-> [p \in Product |-> stock[p].reserved]])
  /\ UNCHANGED <<designs, revisions, orders, stock, inserted, told>>

Inserting == {c \in Client : call[c].phase = "inserted"}

\* The capture time of a snapshot inserted now, after every earlier one.
NextCapture(p) == 1 + Max({stock[p].at} \cup {call[c].rows[p].at : c \in Inserting})

\* order.create, which waits for an uncommitted row with the same idempotency
\* key; then the successor snapshots.
InsertOrder(c) ==
  LET d == call[c].design
      r == call[c].revision IN
  /\ call[c].phase = "stocked"
  /\ \A b \in Inserting : <<call[b].row.design, call[b].row.revision>> # <<d, r>>
  /\ OrdersOf(d, r) = {}
  /\ inserted < MaxOrders
  /\ inserted' = inserted + 1
  /\ Enter(c,
       [phase |-> "inserted",
        row |-> [id |-> inserted + 1, design |-> d, revision |-> r, lines |-> call[c].lines],
        rows |-> [p \in Product |->
                    IF call[c].lines[p].reserved = 0 THEN [at |-> 0, reserved |-> 0]
                    ELSE [at |-> NextCapture(p),
                          reserved |-> call[c].seen[p] + call[c].lines[p].reserved]]])
  /\ UNCHANGED <<designs, revisions, orders, stock, told>>

\* A committed row with the key: P2002 rolls the transaction back, and the
\* handler answers with that row.
LoseInsert(c) ==
  /\ call[c].phase = "stocked"
  /\ OrdersOf(call[c].design, call[c].revision) # {}
  /\ TellOrder(call[c].design, call[c].revision)
  /\ Enter(c, Idle)
  /\ UNCHANGED <<designs, revisions, orders, stock, inserted>>

\* Of the committed snapshots the reads see the one captured last.
StockWith(rows) ==
  [p \in Product |-> IF rows[p].at > stock[p].at THEN rows[p] ELSE stock[p]]

CommitOrder(c) ==
  LET o == call[c].row IN
  /\ call[c].phase = "inserted"
  /\ orders' = orders \cup {o}
  /\ stock' = StockWith(call[c].rows)
  /\ told' = told \cup {<<<<o.design, o.revision>>, o.id>>}
  /\ Enter(c, Idle)
  /\ UNCHANGED <<designs, revisions, inserted>>

\* Mutation: the snapshots are written outside the order's transaction.
AbandonOrderOnly(c) ==
  /\ call[c] # Idle
  /\ stock' = IF c \in Inserting THEN StockWith(call[c].rows) ELSE stock
  /\ Enter(c, Idle)
  /\ UNCHANGED <<designs, revisions, orders, inserted, told>>

\* A call fails, or its connection is lost, before it commits.
Abandon(c) ==
  /\ call[c] # Idle
  /\ Enter(c, Idle)
  /\ UNCHANGED <<designs, revisions, orders, stock, inserted, told>>

-----------------------------------------------------------------------------

OrdersNext ==
  \/ \E d \in Design : CreateDesign(d) \/ UpdateDesign(d) \/ SaveDesign(d)
  \/ \E c \in Client :
       \/ FinishDelete(c)
       \/ ReadStock(c)
       \/ InsertOrder(c)
       \/ LoseInsert(c)
       \/ CommitOrder(c)
       \/ Abandon(c)
       \/ \E d \in Design :
            \/ StartDelete(c, d)
            \/ FinishFirstBead(c, d)
            \/ \E r \in Revision : ReplayOrder(c, d, r) \/ StartOrder(c, d, r)
       \/ \E q \in Request, f \in Fingerprint : StartFirstBead(c, q, f)

OrdersSpec == OrdersInit /\ [][OrdersNext]_ordersVars

-----------------------------------------------------------------------------
(* Properties *)

ReservedByOrders(p) == MapThenSumSet(LAMBDA o : o.lines[p].reserved, orders)

\* Every unit that the latest inventory snapshot counts as reserved exists and
\* is reserved by a committed order: an order that is rolled back, or refused
\* by the idempotency key after its stock was read, leaves no reservation.
ReservationsAreBacked ==
  \A p \in Product : stock[p].reserved <= Min({Available[p], ReservedByOrders(p)})

\* An order fulfils the bill of the revision it names, which compliance had
\* cleared, completely; only a tarot guided design waits for a restock.
OrdersFulfilTheirRevision ==
  \A o \in orders :
    /\ revisions[o.design][o.revision]
    /\ \A p \in Product :
         /\ o.lines[p].reserved + o.lines[p].backorder = Bill[o.design][o.revision][p]
         /\ o.lines[p].backorder > 0 => designs[o.design].tarot

\* Orders by revision and first-bead designs by request are created once, and
\* all callers are told the same one: concurrent and repeated requests of
\* createOrderFromDesign and createDiyFirstBead are one creation.
Made ==
  {<<designs[d].request, d>> : d \in {d \in Design : designs[d].request # NoRequest}}
    \cup {<<<<o.design, o.revision>>, o.id>> : o \in orders}

Creation == INSTANCE IdempotentCreation WITH
  Operation <- Request \cup (Design \X Revision),
  Result <- Design \cup OrderId,
  made <- Made

CreatesOnce == Creation!CreationSpec

\* The orders together reserve no more than there is: "remaining inventory
\* never becomes negative".  Two orders that read one snapshot break it.
StockIsNotOversold == \A p \in Product : ReservedByOrders(p) <= Available[p]

\* A delete request names the revision it was confirmed for, and a stale one is
\* a CONFLICT: what is deleted is that revision.
DeletesTheConfirmedRevision ==
  [][\A c \in Client :
       LET d == call[c].design IN
       (/\ call[c].phase = "deleting" /\ call'[c] = Idle
        /\ Live(d) /\ designs'[d].status = "ARCHIVED")
         => designs[d].current = call[c].revision]_ordersVars

\* A retry for an ordered revision is answered with the order.
RetryFindsTheOrder ==
  \A o \in orders : OrderReply(o.design, o.revision) = "EXISTING"

=============================================================================
