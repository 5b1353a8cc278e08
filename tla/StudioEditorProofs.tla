------------------------- MODULE StudioEditorProofs -------------------------
(***************************************************************************)
(* Theorems about StudioEditor, for any number of edits, requests and      *)
(* revisions.                                                              *)
(*                                                                         *)
(* StudioInv is inductive.  Its heart is that an edit is live, waiting or  *)
(* retryable, only as long as nothing made after it has been sent          *)
(* (ServedFirst, RequestSound): a request that lingers on the network can  *)
(* then be applied late, or never, but never after a later edit.           *)
(***************************************************************************)
EXTENDS StudioEditor, SequenceTheorems, WellFoundedInduction, TLAPS

Design == Seq(Edit \cup {Foreign})

Pages ==
  [confirmed : Design, pending : Seq(Edit), undo : Seq(Edit), redo : Seq(Edit),
   status : {"saved", "syncing", "failed", "conflict", "recovered"},
   recoverable : Seq(Edit), discarded : Seq(Edit), notice : {"none", "reload", "sync"}]

Records == {None} \cup [kind : {"edits"}, revision : Nat \ {0}, edits : Seq(Edit)]

LoadingPages == [status : {"loading"}, record : Records]

\* What the status says of the edits.
StatusHonest(page) ==
  /\ page.status = "conflict" => page.pending # <<>>
  /\ page.status = "failed" <=> page.recoverable # <<>>
  /\ page.status \in {"failed", "saved"} => page.pending = <<>>

PageSound(page) ==
  \/ page \in Pages /\ StatusHonest(page)
  \/ page \in LoadingPages

\* The edits that wait to be sent, and those that may be sent again.
Waiting(page) ==
  IF page.status # "loading" THEN page.pending
  ELSE IF page.record = None THEN <<>> ELSE page.record.edits

Retryable(page) == IF page.status # "loading" THEN page.recoverable ELSE <<>>

Live(page) == Ids(Waiting(page)) \cup Ids(Retryable(page))

Ascending(edits) ==
  \A i, j \in 1..Len(edits) : i <= j => edits[i].id <= edits[j].id

\* Live edits are in the order in which they were made.
PageOrdered(page, n) ==
  /\ Ascending(Waiting(page)) /\ Ascending(Retryable(page))
  /\ Live(page) \subseteq 1..n

\* What reached the server, or may, is no later than what is live.
ServedFirst(design, page, n) ==
  \A i \in 1..Len(design) :
    design[i].id <= n /\ \A id \in Live(page) : design[i].id <= id

Requests == [kind : {"update"}, number : Nat, edit : Edit, expected : Nat \ {0}]

RequestSound(r, design, page, n) ==
  /\ r \in Requests
  /\ r.expected <= Len(design) + 1
  /\ r.edit.id <= n
  /\ \A id \in Live(page) : r.edit.id <= id
  /\ \A i \in 1..Len(design) : i < r.expected => design[i].id <= r.edit.id

Answers ==
  {None} \cup [kind : {"ok"}, design : Design] \cup [kind : {"conflict"}]

\* An edit that was accepted is on the server.
AwaitSound(a, design) ==
  a # None =>
    /\ a \in [request : Requests, answer : Answers]
    /\ a.answer # None /\ a.answer.kind = "ok" =>
         /\ Len(a.answer.design) <= Len(design)
         /\ a.request.edit.id \in Ids(design)

ReadSound(x, kinds, design) ==
  x # None =>
    /\ x \in [kind : kinds, design : Design]
    /\ Len(x.design) <= Len(design)

Accounted(n, design, known, edits) ==
  \A id \in 1..n : id \in Ids(design) \/ id \in known \/ id \in Ids(edits)

StudioInv ==
  /\ server \in Design
  /\ PageSound(ui)
  /\ issued \in 0..MaxEdits /\ sent \in 0..MaxSends
  /\ PageOrdered(ui, issued)
  /\ ServedFirst(server, ui, issued)
  /\ ui.status # "loading" => Len(ui.confirmed) <= Len(server)
  /\ \A r \in wire : r.number <= sent /\ RequestSound(r, server, ui, issued)
  /\ AwaitSound(awaiting, server)
  /\ ReadSound(fetched, {"load", "sync"}, server)
  /\ ReadSound(late, {"save", "order"}, server)
  /\ EditsApplyInOrder
  /\ Accounted(issued, server, told, Waiting(ui))

-----------------------------------------------------------------------------
(* Sequences of edits *)

\* The ids of a sequence, by position.
LEMMA IdsByPosition ==
  ASSUME NEW S, NEW s \in Seq(S)
  PROVE  Ids(s) = {s[i].id : i \in 1..Len(s)}
  BY DEF Ids, ToSet

\* The step that the filter makes at position n, from what it kept before.
KeptBy(stack, ids, f, n) ==
  IF n = 0 THEN <<>>
  ELSE IF stack[n].id \in ids THEN f[n - 1]
  ELSE Append(f[n - 1], stack[n])

\* A filter of a sequence of edits, computed from left to right, exists.
LEMMA KeptExists ==
  ASSUME NEW stack, NEW ids, NEW m \in Nat
  PROVE  \E f : f = [n \in 0..m |-> KeptBy(stack, ids, f, n)]
  <1> DEFINE P(k) == \E f : f = [n \in 0..k |-> KeptBy(stack, ids, f, n)]
             Bad == {k \in Nat : ~P(k)}
  <1>1. P(0)
    <2> DEFINE f == [n \in 0..0 |-> <<>>]
    <2>1. f = [n \in 0..0 |-> KeptBy(stack, ids, f, n)]
      BY DEF KeptBy
    <2> QED
      BY <2>1
  <1>2. ASSUME NEW k \in Nat, P(k)  PROVE P(k + 1)
    <2>1. PICK f : f = [n \in 0..k |-> KeptBy(stack, ids, f, n)]
      BY <1>2
    <2> DEFINE g == [n \in 0..(k + 1) |->
                       IF n <= k THEN f[n] ELSE KeptBy(stack, ids, f, n)]
    <2>2. ASSUME NEW n \in 0..(k + 1)  PROVE g[n] = KeptBy(stack, ids, g, n)
      <3>1. g[n] = KeptBy(stack, ids, f, n)
        <4>1. CASE n <= k
          <5>1. f[n] = KeptBy(stack, ids, f, n)
            BY <2>1, <4>1
          <5> QED
            BY <5>1, <4>1
        <4>2. CASE ~(n <= k)
          BY <4>2
        <4> QED
          BY <4>1, <4>2
      <3>2. n # 0 => g[n - 1] = f[n - 1]
        OBVIOUS
      <3> QED
        BY <3>1, <3>2 DEF KeptBy
    <2> HIDE DEF g
    <2>3. g = [n \in 0..(k + 1) |-> KeptBy(stack, ids, g, n)]
      <3>1. DOMAIN g = 0..(k + 1) /\ g = [n \in DOMAIN g |-> g[n]]
        BY DEF g
      <3> QED
        BY <3>1, <2>2
    <2> QED
      BY <2>3
  <1>3. Bad = {}
    <2> SUFFICES ASSUME Bad # {}  PROVE FALSE
      OBVIOUS
    <2> HIDE DEF P
    <2>1. PICK k \in Bad : \A j \in Bad : ~ (<<j, k>> \in OpToRel(<, Nat))
      BY NatLessThanWellFounded, WFMin
    <2>2. k # 0 /\ k - 1 \in Nat
      BY <1>1
    <2>3. k - 1 \notin Bad
      <3>1. <<k - 1, k>> \in OpToRel(<, Nat)
        BY <2>2 DEF OpToRel
      <3> QED
        BY <2>1, <3>1
    <2>4. P(k - 1) /\ k = (k - 1) + 1
      BY <2>2, <2>3
    <2> QED
      BY <1>2, <2>2, <2>4
  <1> HIDE DEF P
  <1>4. P(m)
    BY <1>3
  <1> QED
    BY <1>4 DEF P

\* What the filter leaves of a stack of edits is a stack of edits.
LEMMA WithoutType ==
  ASSUME NEW stack \in Seq(Edit), NEW edits
  PROVE  Without(stack, edits) \in Seq(Edit)
  <1> DEFINE m == Len(stack)
             kept == CHOOSE f : f = [n \in 0..m |-> KeptBy(stack, Ids(edits), f, n)]
             Bad == {k \in 0..m : kept[k] \notin Seq(Edit)}
  <1>1. m \in Nat
    OBVIOUS
  <1>2. kept = [n \in 0..m |-> KeptBy(stack, Ids(edits), kept, n)]
    <2>1. \E f : f = [n \in 0..m |-> KeptBy(stack, Ids(edits), f, n)]
      BY <1>1, KeptExists
    <2> QED
      BY <2>1
  <1>3. Without(stack, edits) = kept[m]
    BY DEF Without, KeptBy
  <1> HIDE DEF kept
  <1>4. ASSUME NEW k \in 0..m
        PROVE  kept[k] = KeptBy(stack, Ids(edits), kept, k)
    BY <1>2
  <1>5. Bad = {}
    <2> SUFFICES ASSUME Bad # {}  PROVE FALSE
      OBVIOUS
    <2>1. PICK k \in Bad : \A j \in Bad : ~ (<<j, k>> \in OpToRel(<, Nat))
      <3>1. Bad \subseteq Nat
        BY <1>1
      <3> QED
        BY <3>1, NatLessThanWellFounded, WFMin
    <2>2. k \in 0..m /\ k \in Nat
      BY <1>1
    <2>3. k # 0
      <3> SUFFICES ASSUME k = 0  PROVE FALSE
        OBVIOUS
      <3>1. kept[k] = <<>>
        BY <1>4, <2>2 DEF KeptBy
      <3>2. <<>> \in Seq(Edit)
        BY EmptySeq
      <3> QED
        BY <3>1, <3>2, <2>1
    <2>4. k - 1 \notin Bad /\ k - 1 \in 0..m
      <3>1. k - 1 \in Nat /\ <<k - 1, k>> \in OpToRel(<, Nat)
        BY <2>2, <2>3 DEF OpToRel
      <3>2. k - 1 \notin Bad
        BY <2>1, <3>1
      <3> HIDE DEF Bad
      <3> QED
        BY <1>1, <2>2, <2>3, <3>2
    <2>5. kept[k - 1] \in Seq(Edit) /\ stack[k] \in Edit
      BY <2>2, <2>3, <2>4
    <2>6. kept[k] \in Seq(Edit)
      <3>1. kept[k] = IF stack[k].id \in Ids(edits) THEN kept[k - 1]
                      ELSE Append(kept[k - 1], stack[k])
        BY <1>4, <2>2, <2>3 DEF KeptBy
      <3> QED
        BY <2>5, <3>1
    <2> QED
      BY <2>6
  <1>6. m \in 0..m
    BY <1>1
  <1> QED
    BY <1>3, <1>5, <1>6

\* Ids of edits are positive and bounded.
LEMMA EditIds ==
  /\ \A e \in Edit : e.id \in 1..MaxEdits
  /\ \A e \in Edit \cup {Foreign} : e.id \in 0..MaxEdits
  BY StudioAssumption DEF Edit, Foreign

\* The ids of an empty queue.
LEMMA EmptyQueue ==
  <<>> \in Seq(Edit) /\ Ids(<<>>) = {} /\ Ascending(<<>>)
  <1>1. <<>> \in Seq(Edit) /\ Len(<<>>) = 0
    BY EmptySeq
  <1>2. Ids(<<>>) = {(<<>>)[i].id : i \in 1..0}
    BY <1>1, IdsByPosition
  <1>3. Ids(<<>>) = {}
    BY <1>2
  <1>4. Ascending(<<>>)
    BY <1>1 DEF Ascending
  <1> QED
    BY <1>1, <1>3, <1>4

\* An edit no earlier than those in the queue may be put behind them.
LEMMA AppendedQueue ==
  ASSUME NEW S, NEW s \in Seq(S), NEW e \in S
  PROVE  /\ Append(s, e) \in Seq(S)
         /\ Len(Append(s, e)) = Len(s) + 1
         /\ Ids(Append(s, e)) = Ids(s) \cup {e.id}
  <1>1. /\ Append(s, e) \in Seq(S)
        /\ Len(Append(s, e)) = Len(s) + 1
        /\ \A i \in 1..Len(s) : Append(s, e)[i] = s[i]
        /\ Append(s, e)[Len(s) + 1] = e
    BY AppendProperties
  <1>2. Len(s) \in Nat
    OBVIOUS
  <1>3. 1..(Len(s) + 1) = (1..Len(s)) \cup {Len(s) + 1}
    BY <1>2
  <1>4. Ids(Append(s, e)) = {Append(s, e)[i].id : i \in 1..(Len(s) + 1)}
    BY <1>1, IdsByPosition
  <1>5. Ids(s) = {s[i].id : i \in 1..Len(s)}
    BY IdsByPosition
  <1> QED
    BY <1>1, <1>3, <1>4, <1>5

\* The queue stays in order.
LEMMA AppendedInOrder ==
  ASSUME NEW s \in Seq(Edit), NEW e \in Edit, Ascending(s), \A id \in Ids(s) : id <= e.id
  PROVE  Ascending(Append(s, e))
  <1> DEFINE t == Append(s, e)
  <1>1. /\ Len(t) = Len(s) + 1
        /\ \A i \in 1..Len(s) : t[i] = s[i]
        /\ t[Len(s) + 1] = e
    BY AppendProperties
  <1>2. Len(s) \in Nat /\ \A i \in 1..Len(s) : s[i] \in Edit /\ s[i].id \in Ids(s)
    BY IdsByPosition
  <1> HIDE DEF t
  <1> SUFFICES ASSUME NEW i \in 1..Len(t), NEW j \in 1..Len(t), i <= j
               PROVE  t[i].id <= t[j].id
    BY DEF Ascending, t
  <1>3. CASE j <= Len(s)
    BY <1>1, <1>2, <1>3 DEF Ascending
  <1>4. CASE j = Len(s) + 1 /\ i <= Len(s)
    BY <1>1, <1>2, <1>4
  <1>5. CASE i = Len(s) + 1 /\ j = i
    BY <1>1, <1>5, EditIds
  <1> QED
    BY <1>1, <1>2, <1>3, <1>4, <1>5

\* The first edit of a queue in order is its earliest, and the rest stays in order.
LEMMA RestOfQueue ==
  ASSUME NEW s \in Seq(Edit), s # <<>>, Ascending(s)
  PROVE  /\ Head(s) \in Edit /\ Head(s).id \in Ids(s)
         /\ Tail(s) \in Seq(Edit) /\ Ascending(Tail(s))
         /\ Ids(s) = Ids(Tail(s)) \cup {Head(s).id}
         /\ \A id \in Ids(s) : Head(s).id <= id
  <1> DEFINE t == Tail(s)
  <1>1. /\ Len(s) \in Nat \ {0} /\ Head(s) = s[1] /\ Head(s) \in Edit
        /\ t \in Seq(Edit) /\ Len(t) = Len(s) - 1
        /\ \A i \in 1..Len(t) : t[i] = s[i + 1]
    BY EmptySeq, HeadTailProperties
  <1>2. Ids(s) = {s[i].id : i \in 1..Len(s)} /\ Ids(t) = {t[i].id : i \in 1..Len(t)}
    BY <1>1, IdsByPosition
  <1> HIDE DEF t
  <1>3. Ascending(t)
    BY <1>1, SMTT(30) DEF Ascending
  <1>4. \A id \in Ids(s) : Head(s).id <= id
    BY <1>1, <1>2 DEF Ascending
  <1>5. Head(s).id \in Ids(s)
    BY <1>1, <1>2
  <1>6. Ids(t) \subseteq Ids(s)
    BY <1>1, <1>2
  <1>7. \A i \in 1..Len(s) : s[i].id \in Ids(t) \cup {Head(s).id}
    <2> TAKE i \in 1..Len(s)
    <2>1. CASE i = 1
      BY <1>1, <2>1
    <2>2. CASE i # 1
      <3>1. i - 1 \in 1..Len(t) /\ t[i - 1] = s[i]
        BY <1>1, <2>2
      <3> QED
        BY <1>2, <3>1
    <2> QED
      BY <2>1, <2>2
  <1> QED
    BY <1>1, <1>2, <1>3, <1>4, <1>5, <1>6, <1>7 DEF t

\* The top of a stack is an edit, and what is below it is a stack.
LEMMA TopOfStack ==
  ASSUME NEW s \in Seq(Edit), s # <<>>
  PROVE  Last(s) \in Edit /\ Front(s) \in Seq(Edit)
  <1>1. Len(s) \in Nat \ {0}
    BY EmptySeq
  <1>2. \A i \in 1..(Len(s) - 1) : s[i] \in Edit
    BY <1>1
  <1>3. SubSeq(s, 1, Len(s) - 1) \in Seq(Edit)
    BY <1>1, <1>2, SubSeqProperties
  <1> QED
    BY <1>1, <1>3 DEF Last, Front

-----------------------------------------------------------------------------
(* The page *)

\* What the invariant says of an open page.
LEMMA OpenPage ==
  ASSUME PageSound(ui), Loaded
  PROVE  /\ ui \in Pages /\ StatusHonest(ui)
         /\ Waiting(ui) = ui.pending /\ Retryable(ui) = ui.recoverable
         /\ ui.pending # <<>> => ui.recoverable = <<>>
  BY DEF PageSound, LoadingPages, Loaded, Waiting, Retryable, StatusHonest

\* The record in sessionStorage holds the edits that wait.
LEMMA RecordIsWaiting ==
  ASSUME PageSound(ui)
  PROVE  /\ Record \in Records
         /\ Waiting(ui) \in Seq(Edit)
         /\ Record = None => Waiting(ui) = <<>>
         /\ Record # None => Waiting(ui) = Record.edits
  <1>1. CASE Loaded
    <2>1. ui \in Pages /\ Waiting(ui) = ui.pending
      BY <1>1, OpenPage
    <2>2. ui.pending \in Seq(Edit) /\ ui.confirmed \in Design /\ Len(ui.confirmed) + 1 \in Nat \ {0}
      BY <2>1 DEF Pages, Design
    <2>3. CASE ui.pending = <<>>
      BY <1>1, <2>1, <2>2, <2>3 DEF Record, Records
    <2>4. CASE ui.pending # <<>>
      <3>1. Record = [kind |-> "edits", revision |-> Len(ui.confirmed) + 1, edits |-> ui.pending]
        BY <1>1, <2>4 DEF Record, Revision
      <3>2. Record.kind = "edits" /\ None.kind = "none"
        BY <3>1 DEF None
      <3>3. Record # None
        BY <3>2
      <3>4. Record.edits = ui.pending
        BY <3>1
      <3>5. Record \in [kind : {"edits"}, revision : Nat \ {0}, edits : Seq(Edit)]
        BY <2>2, <3>1
      <3> QED
        BY <2>1, <2>2, <3>3, <3>4, <3>5 DEF Records
    <2> QED
      BY <2>3, <2>4
  <1>2. CASE ~Loaded
    <2>1. ui \in LoadingPages
      BY <1>2 DEF PageSound, Pages, Loaded
    <2>2. ui.status = "loading" /\ ui.record \in Records
      BY <2>1 DEF LoadingPages
    <2>3. Record = ui.record
      BY <1>2 DEF Record
    <2>4. ui.record # None => ui.record.edits \in Seq(Edit)
      BY <2>2 DEF Records
    <2> QED
      BY <2>2, <2>3, <2>4, EmptyQueue DEF Waiting
  <1> QED
    BY <1>1, <1>2

\* A page with no edits to send or to send again.
LEMMA QuietPage ==
  ASSUME NEW page \in Pages, page.pending = <<>>, page.recoverable = <<>>
  PROVE  /\ Waiting(page) = <<>> /\ Live(page) = {}
         /\ \A n : PageOrdered(page, n)
  <1>1. page.status # "loading"
    BY DEF Pages
  <1>2. Waiting(page) = <<>> /\ Retryable(page) = <<>>
    BY <1>1 DEF Waiting, Retryable
  <1> QED
    BY <1>2, EmptyQueue DEF Live, PageOrdered

\* A page that has edits to send and none to send again.
LEMMA BusyPage ==
  ASSUME NEW page \in Pages, page.recoverable = <<>>
  PROVE  /\ Waiting(page) = page.pending /\ Live(page) = Ids(page.pending)
         /\ \A n : PageOrdered(page, n) <=> (Ascending(page.pending) /\ Ids(page.pending) \subseteq 1..n)
  <1>1. page.status # "loading"
    BY DEF Pages
  <1>2. Waiting(page) = page.pending /\ Retryable(page) = <<>>
    BY <1>1 DEF Waiting, Retryable
  <1> QED
    BY <1>2, EmptyQueue DEF Live, PageOrdered

\* A page that has edits to send again and none to send.
LEMMA FailedPage ==
  ASSUME NEW page \in Pages, page.pending = <<>>
  PROVE  /\ Waiting(page) = <<>> /\ Live(page) = Ids(page.recoverable)
         /\ \A n : PageOrdered(page, n) <=> (Ascending(page.recoverable) /\ Ids(page.recoverable) \subseteq 1..n)
  <1>1. page.status # "loading"
    BY DEF Pages
  <1>2. Waiting(page) = <<>> /\ Retryable(page) = page.recoverable
    BY <1>1 DEF Waiting, Retryable
  <1> QED
    BY <1>2, EmptyQueue DEF Live, PageOrdered

\* Two pages with the same edits to send and to send again.
LEMMA SamePage ==
  ASSUME NEW page, NEW other, page.status # "loading", other.status # "loading",
         page.pending = other.pending, page.recoverable = other.recoverable
  PROVE  /\ Waiting(page) = Waiting(other) /\ Live(page) = Live(other)
         /\ \A n : PageOrdered(page, n) <=> PageOrdered(other, n)
  BY DEF Waiting, Retryable, Live, PageOrdered

\* A step of the page: the server is as it was, no request is added, and
\* edits that become live are new.
LEMMA PageStep ==
  ASSUME StudioInv,
         PageSound(ui'), PageOrdered(ui', issued'), issued' \in issued..MaxEdits,
         \A id \in Live(ui') : id \in Live(ui) \/ id > issued,
         ui'.status # "loading" => Len(ui'.confirmed) <= Len(server),
         server' = server, sent' = sent, wire' \subseteq wire,
         AwaitSound(awaiting', server),
         ReadSound(fetched', {"load", "sync"}, server),
         ReadSound(late', {"save", "order"}, server),
         Accounted(issued', server, told', Waiting(ui'))
  PROVE  StudioInv'
  <1>1. issued \in Nat /\ issued' \in Nat /\ issued' >= issued /\ issued' \in 0..MaxEdits
    BY StudioAssumption DEF StudioInv
  <1>2. server \in Design /\ Len(server) \in Nat /\ \A i \in 1..Len(server) : server[i].id \in Nat
    BY EditIds DEF StudioInv, Design
  <1>3. Live(ui') \subseteq Nat
    BY <1>1 DEF PageOrdered
  <1>4. ServedFirst(server, ui', issued')
    BY <1>1, <1>2, <1>3 DEF StudioInv, ServedFirst
  <1>5. ASSUME NEW r \in wire'
        PROVE  r.number <= sent /\ RequestSound(r, server, ui', issued')
    <2>1. r.number <= sent /\ RequestSound(r, server, ui, issued)
      BY DEF StudioInv
    <2>2. r.edit.id \in Nat
      BY <2>1, EditIds DEF RequestSound, Requests
    <2> QED
      BY <1>1, <1>3, <2>1, <2>2 DEF RequestSound
  <1>6. EditsApplyInOrder'
    BY DEF StudioInv, EditsApplyInOrder
  <1> QED
    BY <1>1, <1>4, <1>5, <1>6 DEF StudioInv

-----------------------------------------------------------------------------
(* Edits of the user *)

Operations == (-MaxEdits..MaxEdits) \ {0}

\* A page after an edit joined the queue, whatever that does to the stacks.
Joined(page, new, edit) ==
  /\ new \in Pages
  /\ new.pending = Append(page.pending, edit)
  /\ new.recoverable = <<>>
  /\ new.status = "syncing"
  /\ new.confirmed = page.confirmed

\* withPendingEdit, and the stacks assigned after it.
LEMMA JoinedPage ==
  ASSUME NEW page \in Pages, NEW edit \in Edit, NEW undo \in Seq(Edit), NEW redo \in Seq(Edit)
  PROVE  /\ Joined(page, [WithPendingEdit(page, edit) EXCEPT !.undo = undo, !.redo = redo], edit)
         /\ Joined(page, [WithPendingEdit(page, edit) EXCEPT !.redo = redo, !.undo = undo], edit)
         /\ WithPendingEdit(page, edit).undo = page.undo
         /\ WithPendingEdit(page, edit).redo = page.redo
  <1> DEFINE queue == Append(page.pending, edit)
             dropped == page.discarded \o page.recoverable
             none == <<>>
             next == WithPendingEdit(page, edit)
  <1>1. queue \in Seq(Edit) /\ dropped \in Seq(Edit) /\ none \in Seq(Edit)
    <2>1. /\ page.pending \in Seq(Edit) /\ page.discarded \in Seq(Edit)
          /\ page.recoverable \in Seq(Edit)
      BY DEF Pages
    <2> QED
      BY <2>1, AppendProperties, ConcatProperties, EmptyQueue
  <1>2. next = [page EXCEPT !.pending = queue, !.status = "syncing",
                            !.recoverable = none, !.discarded = dropped]
    BY DEF WithPendingEdit
  <1> HIDE DEF queue, dropped, none, next
  <1>3. /\ next \in Pages /\ next.pending = queue /\ next.status = "syncing"
        /\ next.recoverable = none /\ next.confirmed = page.confirmed
        /\ next.undo = page.undo /\ next.redo = page.redo
    BY <1>1, <1>2 DEF Pages
  <1>4. ASSUME NEW new, \/ new = [next EXCEPT !.undo = undo, !.redo = redo]
                        \/ new = [next EXCEPT !.redo = redo, !.undo = undo]
        PROVE  /\ new \in Pages /\ new.pending = queue /\ new.status = "syncing"
               /\ new.recoverable = none /\ new.confirmed = page.confirmed
    BY <1>3, <1>4, ZenonT(60) DEF Pages
  <1> QED
    BY <1>3, <1>4 DEF Joined, queue, none, next

\* A new edit, with an id of its own, joins the queue.
LEMMA NewEdit ==
  ASSUME StudioInv, CanEdit, NEW op \in Operations,
         Joined(ui, ui', [id |-> issued + 1, op |-> op]),
         issued' = issued + 1,
         told' = told \cup Ids(ui.recoverable),
         UNCHANGED <<server, sent, wire, awaiting, fetched, late>>
  PROVE  StudioInv'
  <1> DEFINE edit == [id |-> issued + 1, op |-> op]
             queue == Append(ui.pending, edit)
  <1>1. Loaded /\ issued \in Nat /\ issued + 1 \in 1..MaxEdits
    BY StudioAssumption DEF StudioInv, CanEdit
  <1>2. edit \in Edit /\ edit.id = issued + 1
    BY <1>1 DEF Edit, Operations
  <1>3. /\ ui \in Pages /\ StatusHonest(ui)
        /\ Waiting(ui) = ui.pending /\ Retryable(ui) = ui.recoverable
    BY <1>1, OpenPage DEF StudioInv
  <1>4. /\ ui.pending \in Seq(Edit) /\ ui.recoverable \in Seq(Edit) /\ ui.discarded \in Seq(Edit)
        /\ ui.confirmed \in Design /\ ui.notice \in {"none", "reload", "sync"}
    BY <1>3 DEF Pages
  <1>5. Ascending(ui.pending) /\ Live(ui) \subseteq 1..issued /\ Ids(ui.pending) \subseteq Live(ui)
    BY <1>3 DEF StudioInv, PageOrdered, Live
  <1> HIDE DEF edit
  <1>6. /\ queue \in Seq(Edit) /\ Ids(queue) = Ids(ui.pending) \cup {issued + 1}
        /\ queue # <<>>
    BY <1>2, <1>4, AppendedQueue, AppendProperties
  <1>7. Ascending(queue)
    <2>1. \A id \in Ids(ui.pending) : id <= edit.id
      BY <1>1, <1>2, <1>5
    <2> QED
      BY <1>2, <1>4, <1>5, <2>1, AppendedInOrder
  <1> HIDE DEF queue
  <1>10. /\ ui' \in Pages /\ StatusHonest(ui')
         /\ ui'.pending = queue /\ ui'.recoverable = <<>> /\ ui'.confirmed = ui.confirmed
    BY <1>6 DEF Joined, StatusHonest, queue, edit
  <1>11. PageSound(ui)'
    BY <1>10 DEF PageSound
  <1>12. Waiting(ui') = queue /\ Live(ui') = Ids(queue) /\ PageOrdered(ui', issued')
    <2>1. Ids(queue) \subseteq 1..(issued + 1)
      BY <1>1, <1>5, <1>6
    <2> QED
      BY <1>7, <1>10, <2>1, BusyPage
  <1>13. \A id \in Live(ui') : id \in Live(ui) \/ id > issued
    BY <1>1, <1>5, <1>6, <1>12
  <1>14. Len(ui'.confirmed) <= Len(server)
    BY <1>1, <1>10 DEF StudioInv, Loaded
  <1>15. Accounted(issued', server, told', Waiting(ui'))
    <2> SUFFICES ASSUME NEW id \in 1..(issued + 1)
                 PROVE  id \in Ids(server) \/ id \in told' \/ id \in Ids(queue)
      BY <1>12 DEF Accounted
    <2>1. CASE id = issued + 1
      BY <1>6, <2>1
    <2>2. CASE id # issued + 1
      <3>1. id \in 1..issued
        BY <1>1, <2>2
      <3>2. id \in Ids(server) \/ id \in told \/ id \in Ids(ui.pending)
        BY <1>3, <3>1 DEF StudioInv, Accounted
      <3> QED
        BY <1>6, <3>2
    <2> QED
      BY <2>1, <2>2
  <1>16. issued' \in issued..MaxEdits
    BY <1>1, StudioAssumption
  <1>17. /\ AwaitSound(awaiting', server)
         /\ ReadSound(fetched', {"load", "sync"}, server)
         /\ ReadSound(late', {"save", "order"}, server)
    BY DEF StudioInv
  <1> QED
    BY <1>11, <1>12, <1>13, <1>14, <1>15, <1>16, <1>17, PageStep

\* The operation of an edit, and its inverse, are operations.
LEMMA InverseEdit ==
  ASSUME NEW e \in Edit
  PROVE  e.op \in Operations /\ -e.op \in Operations
  BY StudioAssumption DEF Edit, Operations

\* A new edit is later than every other, and waits behind them.
LEMMA EnqueueStep ==
  ASSUME StudioInv, EnqueueEdit
  PROVE  StudioInv'
  <1> DEFINE edit == [id |-> issued + 1, op |-> issued + 1]
  <1>1. CanEdit /\ ui \in Pages /\ issued + 1 \in Operations /\ edit \in Edit
    <2>1. CanEdit /\ Loaded /\ issued \in Nat /\ issued + 1 \in 1..MaxEdits
      BY StudioAssumption DEF EnqueueEdit, CanEdit, StudioInv
    <2>2. issued + 1 \in Operations
      BY <2>1, StudioAssumption DEF Operations
    <2> QED
      BY <2>1, <2>2, OpenPage DEF StudioInv, Edit, Operations
  <1>2. ui.undo \in Seq(Edit) /\ Append(ui.undo, edit) \in Seq(Edit)
    <2>1. ui.undo \in Seq(Edit)
      BY <1>1 DEF Pages
    <2> QED
      BY <1>1, <2>1, AppendProperties
  <1>3. Joined(ui, ui', edit)
    <2>1. ui' = [WithPendingEdit(ui, edit) EXCEPT
                   !.undo = Append(WithPendingEdit(ui, edit).undo, edit), !.redo = <<>>]
      BY DEF EnqueueEdit, Show
    <2> HIDE DEF edit
    <2> QED
      BY <1>1, <1>2, <2>1, JoinedPage, EmptyQueue
  <1> QED
    BY <1>1, <1>3, NewEdit DEF EnqueueEdit

\* So is the edit that undoes the last one of the undo stack.
LEMMA UndoStep ==
  ASSUME StudioInv, ApplyUndo
  PROVE  StudioInv'
  <1> DEFINE op == Last(ui.undo).op
             edit == [id |-> issued + 1, op |-> -op]
             redone == [id |-> issued + 1, op |-> op]
  <1>1. CanEdit /\ Loaded /\ ui \in Pages /\ issued + 1 \in 1..MaxEdits /\ ui.undo # <<>>
    BY OpenPage, StudioAssumption DEF StudioInv, ApplyUndo, CanEdit
  <1>2. ui.undo \in Seq(Edit) /\ ui.redo \in Seq(Edit)
    BY <1>1 DEF Pages
  <1>3. op \in Operations /\ -op \in Operations /\ Front(ui.undo) \in Seq(Edit)
    BY <1>1, <1>2, TopOfStack, InverseEdit
  <1> HIDE DEF op
  <1>4. redone \in Edit
    BY <1>1, <1>3 DEF Edit, Operations
  <1>5. Joined(ui, ui', edit)
    <2>1. ui' = [WithPendingEdit(ui, edit) EXCEPT
                   !.undo = Front(WithPendingEdit(ui, edit).undo),
                   !.redo = Append(WithPendingEdit(ui, edit).redo, redone)]
      BY DEF ApplyUndo, Show, op
    <2>2. edit \in Edit
      BY <1>1, <1>3 DEF Edit, Operations
    <2> HIDE DEF edit, redone
    <2>3. Append(ui.redo, redone) \in Seq(Edit)
      BY <1>2, <1>4, AppendProperties
    <2> QED
      BY <1>1, <1>2, <1>3, <2>1, <2>2, <2>3, JoinedPage
  <1> QED
    BY <1>1, <1>3, <1>5, NewEdit DEF ApplyUndo

\* And the one that makes an undone edit again.
LEMMA RedoStep ==
  ASSUME StudioInv, ApplyRedo
  PROVE  StudioInv'
  <1> DEFINE op == Last(ui.redo).op
             edit == [id |-> issued + 1, op |-> op]
  <1>1. CanEdit /\ Loaded /\ ui \in Pages /\ issued + 1 \in 1..MaxEdits /\ ui.redo # <<>>
    BY OpenPage, StudioAssumption DEF StudioInv, ApplyRedo, CanEdit
  <1>2. ui.undo \in Seq(Edit) /\ ui.redo \in Seq(Edit)
    BY <1>1 DEF Pages
  <1>3. op \in Operations /\ Front(ui.redo) \in Seq(Edit)
    BY <1>1, <1>2, TopOfStack, InverseEdit
  <1> HIDE DEF op
  <1>4. edit \in Edit
    BY <1>1, <1>3 DEF Edit, Operations
  <1>5. Joined(ui, ui', edit)
    <2>1. ui' = [WithPendingEdit(ui, edit) EXCEPT
                   !.redo = Front(WithPendingEdit(ui, edit).redo),
                   !.undo = Append(WithPendingEdit(ui, edit).undo, edit)]
      BY DEF ApplyRedo, Show, op
    <2> HIDE DEF edit
    <2>2. Append(ui.undo, edit) \in Seq(Edit)
      BY <1>2, <1>4, AppendProperties
    <2> QED
      BY <1>1, <1>2, <1>3, <1>4, <2>1, <2>2, JoinedPage
  <1> QED
    BY <1>1, <1>3, <1>5, NewEdit DEF ApplyRedo

-----------------------------------------------------------------------------
(* Steps that keep the edits of the page *)

\* The page stays as it is, and the server, too.
LEMMA UnchangedPageStep ==
  ASSUME StudioInv, UNCHANGED <<server, ui, issued, sent, told>>, wire' \subseteq wire,
         AwaitSound(awaiting', server),
         ReadSound(fetched', {"load", "sync"}, server),
         ReadSound(late', {"save", "order"}, server)
  PROVE  StudioInv'
  <1>1. issued' \in issued..MaxEdits
    BY StudioAssumption DEF StudioInv
  <1>2. PageSound(ui') /\ PageOrdered(ui', issued') /\ Accounted(issued', server, told', Waiting(ui'))
    BY DEF StudioInv
  <1>3. ui'.status # "loading" => Len(ui'.confirmed) <= Len(server)
    BY DEF StudioInv
  <1> QED
    BY <1>1, <1>2, <1>3, PageStep

\* The page changes, but not the edits that are live.
LEMMA SameEditsStep ==
  ASSUME StudioInv, Loaded, ui' \in Pages, StatusHonest(ui'),
         ui'.pending = ui.pending, ui'.recoverable = ui.recoverable,
         Len(ui'.confirmed) <= Len(server),
         UNCHANGED <<server, issued, sent, told>>, wire' \subseteq wire,
         AwaitSound(awaiting', server),
         ReadSound(fetched', {"load", "sync"}, server),
         ReadSound(late', {"save", "order"}, server)
  PROVE  StudioInv'
  <1>1. issued' \in issued..MaxEdits
    BY StudioAssumption DEF StudioInv
  <1>2. ui.status # "loading" /\ ui'.status # "loading"
    BY DEF Loaded, Pages
  <1>3. /\ Waiting(ui') = Waiting(ui) /\ Live(ui') = Live(ui)
        /\ PageOrdered(ui', issued)
    BY <1>2, SamePage DEF StudioInv
  <1>4. PageSound(ui') /\ Accounted(issued', server, told', Waiting(ui'))
    BY <1>3 DEF StudioInv, PageSound
  <1> QED
    BY <1>1, <1>3, <1>4, PageStep

\* What the invariant says of what was read, on its own.
LEMMA ReadsAreSound ==
  ASSUME StudioInv
  PROVE  /\ AwaitSound(awaiting, server)
         /\ ReadSound(fetched, {"load", "sync"}, server)
         /\ ReadSound(late, {"save", "order"}, server)
         /\ AwaitSound(None, server)
         /\ \A kinds : ReadSound(None, kinds, server)
  BY DEF StudioInv, AwaitSound, ReadSound

\* The synchronizing effect ran and had nothing to send.
LEMMA SendNothingStep ==
  ASSUME StudioInv, SendNothing
  PROVE  StudioInv'
  BY UnchangedPageStep, ReadsAreSound DEF SendNothing

\* A lost request is one less to arrive late.
LEMMA LoseUpdateStep ==
  ASSUME StudioInv, NEW request, LoseUpdate(request)
  PROVE  StudioInv'
  BY UnchangedPageStep, ReadsAreSound DEF LoseUpdate

\* What is read is the design as it is now.
LEMMA FetchStep ==
  ASSUME StudioInv, Fetch
  PROVE  StudioInv'
  <1>1. server \in Design /\ Len(server) \in Nat
    BY DEF StudioInv, Design
  <1>2. ReadSound(fetched', {"load", "sync"}, server)
    BY <1>1 DEF Fetch, ReadSound
  <1> QED
    BY <1>2, UnchangedPageStep, ReadsAreSound DEF Fetch

\* A failed call changes the notice alone.
LEMMA CallFailsStep ==
  ASSUME StudioInv, CallFails
  PROVE  StudioInv'
  <1>1. Loaded /\ ui \in Pages /\ StatusHonest(ui)
    BY OpenPage DEF CallFails, StudioInv
  <1>2. ui' = [ui EXCEPT !.notice = "reload"]
    BY DEF CallFails, Show
  <1>3. /\ ui' \in Pages /\ ui'.pending = ui.pending /\ ui'.recoverable = ui.recoverable
        /\ ui'.confirmed = ui.confirmed /\ ui'.status = ui.status
    BY <1>1, <1>2 DEF Pages
  <1>4. Len(ui'.confirmed) <= Len(server) /\ StatusHonest(ui')
    BY <1>1, <1>3 DEF StudioInv, Loaded, StatusHonest
  <1> QED
    BY <1>1, <1>3, <1>4, SameEditsStep, ReadsAreSound DEF CallFails

\* Only edits that were reported are dropped with the recovery notice.
LEMMA DismissStep ==
  ASSUME StudioInv, DismissNotice
  PROVE  StudioInv'
  <1> DEFINE to == IF ui.pending = <<>> THEN "saved" ELSE ui.status
             none == <<>>
  <1>1. Loaded /\ ui \in Pages /\ StatusHonest(ui) /\ ui.status = "recovered"
    BY OpenPage DEF DismissNotice, StudioInv
  <1>2. ui' = [ui EXCEPT !.discarded = none, !.status = to]
    <2>1. ui.status = [ui EXCEPT !.discarded = none].status
      <3> HIDE DEF none
      <3> QED
        BY <1>1 DEF Pages
    <2> QED
      BY <2>1, Zenon DEF DismissNotice, Show
  <1>3. to \in {"saved", "recovered"} /\ (to = "saved" => ui.pending = <<>>) /\ none \in Seq(Edit)
    BY <1>1, EmptyQueue
  <1> HIDE DEF to, none
  <1>4. /\ ui' \in Pages /\ ui'.pending = ui.pending /\ ui'.recoverable = ui.recoverable
        /\ ui'.confirmed = ui.confirmed /\ ui'.status = to
    BY <1>1, <1>2, <1>3 DEF Pages
  <1>5. Len(ui'.confirmed) <= Len(server) /\ StatusHonest(ui')
    BY <1>1, <1>3, <1>4 DEF StudioInv, Loaded, StatusHonest
  <1> QED
    BY <1>1, <1>4, <1>5, SameEditsStep, ReadsAreSound DEF DismissNotice

\* What is saved or ordered is the design as it is now.
LEMMA ServeStep ==
  ASSUME StudioInv, NEW kind \in {"save", "order"}, ServeDesign(kind)
  PROVE  StudioInv'
  <1>1. Loaded /\ ui \in Pages /\ StatusHonest(ui)
    BY OpenPage DEF ServeDesign, EditsSettled, StudioInv
  <1>2. CASE ui.confirmed = server
    <2>1. late' = [kind |-> kind, design |-> server] /\ UNCHANGED ui
      BY <1>2 DEF ServeDesign
    <2>2. server \in Design /\ Len(server) \in Nat
      BY DEF StudioInv, Design
    <2>3. ReadSound(late', {"save", "order"}, server)
      BY <2>1, <2>2 DEF ReadSound
    <2> QED
      BY <2>1, <2>3, UnchangedPageStep, ReadsAreSound DEF ServeDesign
  <1>3. CASE ui.confirmed # server
    <2>1. ui' = [ui EXCEPT !.notice = "sync"] /\ late' = late
      BY <1>3 DEF ServeDesign, Show
    <2>2. /\ ui' \in Pages /\ ui'.pending = ui.pending /\ ui'.recoverable = ui.recoverable
          /\ ui'.confirmed = ui.confirmed /\ ui'.status = ui.status
      BY <1>1, <2>1 DEF Pages
    <2>3. Len(ui'.confirmed) <= Len(server) /\ StatusHonest(ui')
      BY <1>1, <2>2 DEF StudioInv, Loaded, StatusHonest
    <2> QED
      BY <1>1, <2>1, <2>2, <2>3, SameEditsStep, ReadsAreSound DEF ServeDesign
  <1> QED
    BY <1>2, <1>3

\* A late answer may only shorten what the page takes as confirmed, never
\* make it longer than what the server has.
LEMMA AdoptServedStep ==
  ASSUME StudioInv, AdoptServed
  PROVE  StudioInv'
  <1>1. CASE ui' = ui
    BY <1>1, UnchangedPageStep, ReadsAreSound DEF AdoptServed
  <1>2. CASE ui' # ui
    <2>1. ui' = [ui EXCEPT !.confirmed = late.design]
      BY <1>2 DEF AdoptServed, Show
    <2>2. late.design \in Design /\ Len(late.design) <= Len(server)
      BY ReadsAreSound DEF AdoptServed, ReadSound
    <2>3. CASE ~Loaded
      <3>1. ui \in LoadingPages
        BY <2>3 DEF StudioInv, PageSound, Pages, Loaded
      <3>2. ui' = ui
        BY <2>1, <3>1 DEF LoadingPages
      <3> QED
        BY <1>2, <3>2
    <2>4. CASE Loaded
      <3>1. ui \in Pages /\ StatusHonest(ui)
        BY <2>4, OpenPage DEF StudioInv
      <3>2. /\ ui' \in Pages /\ ui'.pending = ui.pending /\ ui'.recoverable = ui.recoverable
            /\ ui'.confirmed = late.design /\ ui'.status = ui.status
        BY <2>1, <2>2, <3>1 DEF Pages
      <3>3. StatusHonest(ui')
        BY <3>1, <3>2 DEF StatusHonest
      <3> QED
        BY <2>2, <2>4, <3>2, <3>3, SameEditsStep, ReadsAreSound DEF AdoptServed
    <2> QED
      BY <2>3, <2>4
  <1> QED
    BY <1>1, <1>2

-----------------------------------------------------------------------------
(* Steps that settle, drop or restore edits *)

\* A page that lost edits from its queue, all of them on the server or told.
LEMMA QueueStep ==
  ASSUME StudioInv, Loaded, ui' \in Pages, StatusHonest(ui'), ui'.recoverable = <<>>,
         Ascending(ui'.pending), Ids(ui'.pending) \subseteq Live(ui),
         Len(ui'.confirmed) <= Len(server),
         \A id \in Ids(ui.pending) : id \in Ids(server) \/ id \in told' \/ id \in Ids(ui'.pending),
         \A id \in told : id \in told' \/ id \in Ids(ui'.pending),
         UNCHANGED <<server, issued, sent>>, wire' \subseteq wire,
         AwaitSound(awaiting', server),
         ReadSound(fetched', {"load", "sync"}, server),
         ReadSound(late', {"save", "order"}, server)
  PROVE  StudioInv'
  <1>1. issued' \in issued..MaxEdits /\ issued' = issued
    BY StudioAssumption DEF StudioInv
  <1>2. Waiting(ui) = ui.pending /\ Live(ui) \subseteq 1..issued
    BY OpenPage DEF StudioInv, PageOrdered
  <1>3. /\ Waiting(ui') = ui'.pending /\ Live(ui') = Ids(ui'.pending)
        /\ PageOrdered(ui', issued)
    <2>1. Ids(ui'.pending) \subseteq 1..issued
      BY <1>2
    <2> QED
      BY <2>1, BusyPage
  <1>4. PageSound(ui')
    BY DEF PageSound
  <1>5. Accounted(issued', server, told', Waiting(ui'))
    BY <1>1, <1>2, <1>3 DEF StudioInv, Accounted
  <1> QED
    BY <1>1, <1>3, <1>4, <1>5, PageStep

\* The answer settles the first pending edit: if it was accepted, it is on the
\* server, and it may leave the queue.
LEMMA SettleStep ==
  ASSUME StudioInv, SettleEdit
  PROVE  StudioInv'
  <1> DEFINE answer == awaiting.answer
  <1>1. /\ awaiting # None /\ answer # None /\ awaiting' = None
        /\ UNCHANGED <<server, issued, sent, wire, fetched, late, told>>
    BY DEF SettleEdit
  <1>2. /\ answer \in Answers
        /\ answer.kind = "ok" => /\ Len(answer.design) <= Len(server)
                                 /\ awaiting.request.edit.id \in Ids(server)
    BY <1>1, ReadsAreSound DEF AwaitSound
  <1>3. CASE ~Settles
    <2>1. ui' = ui
      BY <1>3 DEF SettleEdit, Show
    <2> QED
      BY <1>1, <2>1, UnchangedPageStep, ReadsAreSound
  <1>4. ASSUME Settles
        PROVE  /\ Loaded /\ ui \in Pages /\ StatusHonest(ui)
               /\ ui.pending # <<>> /\ ui.recoverable = <<>>
               /\ ui.pending \in Seq(Edit) /\ Ascending(ui.pending)
               /\ Live(ui) = Ids(ui.pending)
    <2>1. /\ Loaded /\ ui \in Pages /\ StatusHonest(ui)
          /\ ui.pending # <<>> /\ ui.recoverable = <<>>
      BY <1>4, OpenPage DEF StudioInv, Settles
    <2> QED
      BY <2>1, BusyPage DEF StudioInv, Pages
  <1>5. CASE Settles /\ answer.kind = "conflict"
    <2>1. ui' = [ui EXCEPT !.status = "conflict"]
      BY <1>5 DEF SettleEdit, Show
    <2>2. /\ ui' \in Pages /\ ui'.pending = ui.pending /\ ui'.recoverable = ui.recoverable
          /\ ui'.confirmed = ui.confirmed /\ ui'.status = "conflict"
      BY <1>4, <1>5, <2>1 DEF Pages
    <2>3. Len(ui'.confirmed) <= Len(server) /\ StatusHonest(ui')
      BY <1>4, <1>5, <2>2 DEF StudioInv, Loaded, StatusHonest
    <2> QED
      BY <1>1, <1>4, <1>5, <2>2, <2>3, SameEditsStep, ReadsAreSound
  <1>6. CASE Settles /\ answer.kind # "conflict"
    <2> DEFINE rest == Tail(ui.pending)
               to == AfterSync(rest, ui.discarded)
    <2>1. /\ answer \in [kind : {"ok"}, design : Design] /\ answer.kind = "ok"
          /\ answer.design \in Design
      BY <1>1, <1>2, <1>6 DEF Answers
    <2>2. ui' = [ui EXCEPT !.confirmed = answer.design, !.pending = rest, !.status = to]
      BY <1>6 DEF SettleEdit, Show
    <2>3. /\ rest \in Seq(Edit) /\ Ascending(rest)
          /\ Ids(ui.pending) = Ids(rest) \cup {Head(ui.pending).id}
      BY <1>4, <1>6, RestOfQueue
    <2>4. to \in {"saved", "syncing", "recovered"} /\ (to = "saved" => rest = <<>>)
      BY DEF AfterSync
    <2>5. Head(ui.pending).id \in Ids(server)
      BY <1>2, <1>6, <2>1 DEF Settles
    <2> HIDE DEF rest, to, answer
    <2>6. /\ ui' \in Pages /\ ui'.pending = rest /\ ui'.recoverable = ui.recoverable
          /\ ui'.confirmed = answer.design /\ ui'.status = to
      BY <1>4, <1>6, <2>1, <2>2, <2>3, <2>4 DEF Pages
    <2>7. StatusHonest(ui')
      BY <1>4, <1>6, <2>4, <2>6 DEF StatusHonest
    <2> QED
      BY <1>1, <1>2, <1>4, <1>6, <2>1, <2>3, <2>5, <2>6, <2>7, QueueStep, ReadsAreSound
  <1> QED
    BY <1>3, <1>5, <1>6

\* A failed call moves the queue, in its order, to the edits that may be retried.
LEMMA FailStep ==
  ASSUME StudioInv, FailEdit
  PROVE  StudioInv'
  <1>1. /\ awaiting' = None
        /\ UNCHANGED <<server, issued, sent, wire, fetched, late>>
    BY DEF FailEdit
  <1>2. CASE ~Settles
    <2>1. ui' = ui /\ told' = told
      BY <1>2 DEF FailEdit, Show
    <2> QED
      BY <1>1, <2>1, UnchangedPageStep, ReadsAreSound
  <1>3. CASE Settles
    <2> DEFINE undo == Without(ui.undo, ui.pending)
               redo == Without(ui.redo, ui.pending)
               none == <<>>
    <2>1. /\ Loaded /\ ui \in Pages /\ StatusHonest(ui)
          /\ ui.pending # <<>> /\ ui.recoverable = <<>>
      BY <1>3, OpenPage DEF StudioInv, Settles
    <2>2. /\ ui.pending \in Seq(Edit) /\ undo \in Seq(Edit) /\ redo \in Seq(Edit)
          /\ none \in Seq(Edit)
      BY <2>1, WithoutType, EmptyQueue DEF Pages
    <2>3. /\ Waiting(ui) = ui.pending /\ Live(ui) = Ids(ui.pending)
          /\ Ascending(ui.pending) /\ Ids(ui.pending) \subseteq 1..issued
      BY <2>1, BusyPage DEF StudioInv
    <2>4. /\ ui' = [ui EXCEPT !.pending = none, !.status = "failed",
                              !.undo = undo, !.redo = redo, !.recoverable = ui.pending]
          /\ told' = told \cup Ids(ui.pending)
      BY <1>3, Zenon DEF FailEdit, Show
    <2> HIDE DEF undo, redo, none
    <2>5. /\ ui' \in Pages /\ ui'.pending = none /\ ui'.recoverable = ui.pending
          /\ ui'.confirmed = ui.confirmed /\ ui'.status = "failed"
      BY <2>1, <2>2, <2>4 DEF Pages
    <2>6. StatusHonest(ui') /\ PageSound(ui')
      BY <2>1, <2>5 DEF StatusHonest, PageSound, none
    <2>7. /\ Waiting(ui') = <<>> /\ Live(ui') = Live(ui)
          /\ PageOrdered(ui', issued)
      BY <2>3, <2>5, FailedPage DEF none
    <2>8. Accounted(issued', server, told', Waiting(ui'))
      BY <1>1, <2>3, <2>4 DEF StudioInv, Accounted
    <2>9. issued' \in issued..MaxEdits /\ issued' = issued
      BY <1>1, StudioAssumption DEF StudioInv
    <2>10. Len(ui'.confirmed) <= Len(server)
      BY <2>1, <2>5 DEF StudioInv, Loaded
    <2> QED
      BY <1>1, <2>6, <2>7, <2>8, <2>9, <2>10, PageStep, ReadsAreSound
  <1> QED
    BY <1>2, <1>3

\* A retry moves them back: nothing else was waiting meanwhile.
LEMMA RetryStep ==
  ASSUME StudioInv, RetryFailedEdits
  PROVE  StudioInv'
  <1> DEFINE undo == ui.undo \o ui.recoverable
             none == <<>>
  <1>1. /\ Loaded /\ ui \in Pages /\ StatusHonest(ui)
        /\ ui.status = "failed" /\ ui.recoverable # <<>>
        /\ told' = told \ Ids(ui.recoverable)
        /\ UNCHANGED <<server, issued, sent, wire, awaiting, fetched, late>>
    BY OpenPage DEF RetryFailedEdits, StudioInv
  <1>2. ui.pending = <<>> /\ ui.pending \in Seq(Edit) /\ ui.recoverable \in Seq(Edit)
    BY <1>1 DEF StatusHonest, Pages
  <1>3. /\ Ascending(ui.recoverable) /\ Live(ui) = Ids(ui.recoverable)
        /\ Ids(ui.pending) = {}
    BY <1>1, <1>2, FailedPage, EmptyQueue DEF StudioInv
  <1>4. undo \in Seq(Edit) /\ none \in Seq(Edit)
    <2>1. ui.undo \in Seq(Edit)
      BY <1>1 DEF Pages
    <2> QED
      BY <1>2, <2>1, ConcatProperties, EmptyQueue
  <1>5. ui' = [ui EXCEPT !.pending = ui.recoverable, !.undo = undo,
                         !.status = "syncing", !.recoverable = none]
    <2>1. ui.undo = [ui EXCEPT !.pending = ui.recoverable].undo
      BY <1>1 DEF Pages
    <2> QED
      BY <2>1, Zenon DEF RetryFailedEdits, Show
  <1> HIDE DEF undo, none
  <1>6. /\ ui' \in Pages /\ ui'.pending = ui.recoverable /\ ui'.recoverable = none
        /\ ui'.confirmed = ui.confirmed /\ ui'.status = "syncing"
    BY <1>1, <1>2, <1>4, <1>5 DEF Pages
  <1>7. StatusHonest(ui')
    BY <1>1, <1>6 DEF StatusHonest, none
  <1>8. Len(ui'.confirmed) <= Len(server)
    BY <1>1, <1>6 DEF StudioInv, Loaded
  <1> QED
    BY <1>1, <1>3, <1>6, <1>7, <1>8, QueueStep, ReadsAreSound DEF none

\* A reload keeps the record, and with it the edits that wait; those that could
\* be retried were reported when they failed.
LEMMA ReloadStep ==
  ASSUME StudioInv, ReloadPage
  PROVE  StudioInv'
  <1>1. /\ Loaded /\ ui' = [status |-> "loading", record |-> Record]
        /\ awaiting' = None /\ fetched' = None /\ late' = None
        /\ UNCHANGED <<server, issued, sent, wire, told>>
    BY DEF ReloadPage, Loading
  <1>2. /\ Record \in Records
        /\ Record = None => Waiting(ui) = <<>>
        /\ Record # None => Waiting(ui) = Record.edits
    BY RecordIsWaiting DEF StudioInv
  <1> DEFINE kept == Record
  <1> HIDE DEF kept
  <1>3. ui' \in LoadingPages /\ ui'.status = "loading" /\ ui'.record = kept
    BY <1>1, <1>2 DEF LoadingPages, kept
  <1>4. Waiting(ui') = Waiting(ui) /\ Retryable(ui') = <<>>
    BY <1>2, <1>3 DEF Waiting, Retryable, kept
  <1>5. Live(ui') \subseteq Live(ui) /\ PageOrdered(ui', issued)
    BY <1>4, EmptyQueue DEF StudioInv, PageOrdered, Live
  <1>6. PageSound(ui')
    BY <1>3 DEF PageSound
  <1>7. issued' \in issued..MaxEdits /\ issued' = issued
    BY <1>1, StudioAssumption DEF StudioInv
  <1>8. Accounted(issued', server, told', Waiting(ui'))
    BY <1>1, <1>4 DEF StudioInv
  <1> QED
    BY <1>1, <1>3, <1>5, <1>6, <1>7, <1>8, PageStep, ReadsAreSound

\* Pages that restoreRecoveredEdits shows, with the record's edits discarded or
\* queued again.
Discarding(design, edits) ==
  [Fresh(design) EXCEPT !.discarded = edits, !.status = "recovered"]

Requeueing(design, edits) ==
  [Fresh(design) EXCEPT !.pending = edits, !.undo = edits, !.status = "recovered"]

\* What a page is that is shown for the first time.
LEMMA FreshPage ==
  ASSUME NEW design \in Design, NEW edits \in Seq(Edit)
  PROVE  /\ Fresh(design) \in Pages
         /\ Fresh(design).pending = <<>> /\ Fresh(design).recoverable = <<>>
         /\ Fresh(design).confirmed = design /\ Fresh(design).status = "saved"
         /\ Discarding(design, edits) \in Pages
         /\ Discarding(design, edits).pending = <<>> /\ Discarding(design, edits).recoverable = <<>>
         /\ Discarding(design, edits).confirmed = design
         /\ Discarding(design, edits).status = "recovered"
         /\ Discarding(design, edits).discarded = edits
         /\ Requeueing(design, edits) \in Pages
         /\ Requeueing(design, edits).pending = edits /\ Requeueing(design, edits).recoverable = <<>>
         /\ Requeueing(design, edits).confirmed = design
         /\ Requeueing(design, edits).status = "recovered"
  <1> DEFINE none == <<>>
             first == Fresh(design)
  <1>1. none \in Seq(Edit)
    BY EmptyQueue
  <1>2. first = [confirmed |-> design, pending |-> none, undo |-> none, redo |-> none,
                 status |-> "saved", recoverable |-> none, discarded |-> none, notice |-> "none"]
    BY DEF Fresh
  <1> HIDE DEF none, first
  <1>3. /\ first \in Pages /\ first.pending = none /\ first.recoverable = none
        /\ first.confirmed = design /\ first.status = "saved"
    BY <1>1, <1>2 DEF Pages
  <1>4. LET page == [first EXCEPT !.discarded = edits, !.status = "recovered"] IN
        /\ page \in Pages /\ page.pending = none /\ page.recoverable = none
        /\ page.confirmed = design /\ page.status = "recovered"
        /\ page.discarded = edits
    BY <1>3 DEF Pages
  <1>5. LET page == [first EXCEPT !.pending = edits, !.undo = edits, !.status = "recovered"] IN
        /\ page \in Pages /\ page.pending = edits /\ page.recoverable = none
        /\ page.confirmed = design /\ page.status = "recovered"
    BY <1>1, <1>3 DEF Pages
  <1> QED
    BY <1>3, <1>4, <1>5 DEF none, first, Discarding, Requeueing

\* Loading the page keeps, or reports, the edits of the record.
LEMMA AdoptLoadedStep ==
  ASSUME StudioInv, AdoptLoadedDesign
  PROVE  StudioInv'
  <1> DEFINE design == fetched.design
  <1>1. /\ ui' = Restored(design, Record)
        /\ told' = told \cup Ids(Restored(design, Record).discarded)
        /\ fetched' = None
        /\ UNCHANGED <<server, issued, sent, wire, awaiting, late>>
    BY DEF AdoptLoadedDesign, Show
  <1>2. design \in Design /\ Len(design) <= Len(server)
    BY ReadsAreSound DEF AdoptLoadedDesign, ReadSound
  <1> HIDE DEF design
  <1>3. /\ Waiting(ui) \in Seq(Edit) /\ Ascending(Waiting(ui))
        /\ Ids(Waiting(ui)) \subseteq Live(ui) /\ Live(ui) \subseteq 1..issued
    BY RecordIsWaiting DEF StudioInv, PageOrdered, Live
  <1>4. /\ ui' \in Pages /\ StatusHonest(ui') /\ ui'.recoverable = <<>>
        /\ ui'.confirmed = design /\ Ascending(ui'.pending)
        /\ Ids(ui'.pending) \subseteq Ids(Waiting(ui))
        /\ \A id \in Ids(Waiting(ui)) : id \in told' \/ id \in Ids(ui'.pending)
    <2>1. CASE Record = None
      <3>1. Waiting(ui) = <<>> /\ ui' = Fresh(design)
        BY <1>1, <2>1, RecordIsWaiting DEF Restored, StudioInv
      <3>2. /\ ui' \in Pages /\ ui'.recoverable = <<>> /\ ui'.pending = <<>>
            /\ ui'.confirmed = design /\ ui'.status = "saved"
        BY <1>2, <1>3, <3>1, FreshPage
      <3> QED
        BY <3>1, <3>2, EmptyQueue DEF StatusHonest
    <2>2. CASE Record # None /\ Record.revision # Revision(design)
      <3> DEFINE edits == Record.edits
      <3>1. /\ Waiting(ui) = edits
            /\ ui' = Discarding(design, edits)
        BY <1>1, <2>2, RecordIsWaiting DEF Restored, Discarding, StudioInv
      <3> HIDE DEF edits
      <3>2. /\ ui' \in Pages /\ ui'.recoverable = <<>> /\ ui'.pending = <<>>
            /\ ui'.confirmed = design /\ ui'.status = "recovered"
            /\ ui'.discarded = edits
        <4>1. edits \in Seq(Edit)
          BY <1>3, <3>1
        <4> QED
          BY <1>2, <3>1, <4>1, FreshPage
      <3>3. \A id \in Ids(Waiting(ui)) : id \in told'
        BY <1>1, <3>1, <3>2
      <3> QED
        BY <3>2, <3>3, EmptyQueue DEF StatusHonest
    <2>3. CASE Record # None /\ Record.revision = Revision(design)
      <3> DEFINE edits == Record.edits
      <3>1. /\ Waiting(ui) = edits
            /\ ui' = Requeueing(design, edits)
        BY <1>1, <2>3, RecordIsWaiting DEF Restored, Requeueing, StudioInv
      <3> HIDE DEF edits
      <3>2. /\ ui' \in Pages /\ ui'.recoverable = <<>> /\ ui'.pending = edits
            /\ ui'.confirmed = design /\ ui'.status = "recovered"
        <4>1. edits \in Seq(Edit)
          BY <1>3, <3>1
        <4> QED
          BY <1>2, <3>1, <4>1, FreshPage
      <3> QED
        BY <1>3, <3>1, <3>2 DEF StatusHonest
    <2> QED
      BY <2>1, <2>2, <2>3
  <1>5. issued' \in issued..MaxEdits /\ issued' = issued
    BY <1>1, StudioAssumption DEF StudioInv
  <1>6. /\ Waiting(ui') = ui'.pending /\ Live(ui') \subseteq Live(ui)
        /\ PageOrdered(ui', issued)
    <2>1. Ids(ui'.pending) \subseteq 1..issued
      BY <1>3, <1>4
    <2> QED
      BY <1>3, <1>4, <2>1, BusyPage
  <1>7. PageSound(ui')
    BY <1>4 DEF PageSound
  <1>8. Accounted(issued', server, told', Waiting(ui'))
    BY <1>1, <1>4, <1>5, <1>6 DEF StudioInv, Accounted
  <1> QED
    BY <1>1, <1>2, <1>4, <1>5, <1>6, <1>7, <1>8, PageStep, ReadsAreSound

\* A resolved conflict drops the queue only if it reports it as discarded.
LEMMA SynchronizeStep ==
  ASSUME StudioInv, Synchronize
  PROVE  StudioInv'
  <1> DEFINE fresh == fetched.design
             heard == [ui EXCEPT !.notice = "none"]
             undo == Without(ui.undo, ui.pending)
             redo == Without(ui.redo, ui.pending)
             dropped == ui.discarded \o ui.pending
             settled == AfterSync(ui.pending, ui.discarded)
             quiet == IF ui.status = "failed" THEN "failed" ELSE "saved"
             none == <<>>
  <1>1. /\ Loaded /\ ui \in Pages /\ StatusHonest(ui)
        /\ ui.pending # <<>> => ui.recoverable = <<>>
        /\ UNCHANGED <<server, issued, sent, wire, awaiting, late>> /\ fetched' = None
    BY OpenPage DEF StudioInv, Synchronize
  <1>2. fresh \in Design /\ Len(fresh) <= Len(server)
    BY ReadsAreSound DEF Synchronize, ReadSound
  <1>3. /\ heard \in Pages /\ heard.confirmed = ui.confirmed /\ heard.pending = ui.pending
        /\ heard.recoverable = ui.recoverable /\ heard.status = ui.status
        /\ heard.undo = ui.undo /\ heard.redo = ui.redo /\ heard.discarded = ui.discarded
    BY <1>1 DEF Pages
  <1>4. /\ undo \in Seq(Edit) /\ redo \in Seq(Edit) /\ dropped \in Seq(Edit)
        /\ none \in Seq(Edit)
    <2>1. /\ ui.undo \in Seq(Edit) /\ ui.redo \in Seq(Edit) /\ ui.discarded \in Seq(Edit)
          /\ ui.pending \in Seq(Edit)
      BY <1>1 DEF Pages
    <2> QED
      BY <2>1, WithoutType, ConcatProperties, EmptyQueue
  <1>5. settled \in {"saved", "syncing", "recovered"} /\ (settled = "saved" => ui.pending = <<>>)
    BY DEF AfterSync
  <1>6. /\ quiet \in {"saved", "failed"}
        /\ quiet = "failed" <=> ui.status = "failed"
    OBVIOUS
  <1>7. CASE ui.status = "conflict" /\ Revision(fresh) = Revision(ui.confirmed)
    <2>1. /\ ui' = [heard EXCEPT !.confirmed = fresh, !.status = settled]
          /\ told' = told
      BY <1>7 DEF Synchronize, Show
    <2> HIDE DEF heard, settled, fresh
    <2>2. /\ ui' \in Pages /\ ui'.pending = ui.pending /\ ui'.recoverable = ui.recoverable
          /\ ui'.confirmed = fresh /\ ui'.status = settled
      BY <1>2, <1>3, <1>5, <2>1 DEF Pages
    <2>3. StatusHonest(ui')
      BY <1>1, <1>5, <1>7, <2>2 DEF StatusHonest
    <2> QED
      BY <1>1, <1>2, <2>1, <2>2, <2>3, SameEditsStep, ReadsAreSound
  <1>8. CASE ui.status = "conflict" /\ Revision(fresh) # Revision(ui.confirmed)
    <2>1. /\ ui' = [heard EXCEPT !.confirmed = fresh, !.pending = none, !.undo = undo,
                                 !.redo = redo, !.status = "recovered", !.discarded = dropped]
          /\ told' = told \cup Ids(ui.pending)
      <3> DEFINE h == [heard EXCEPT !.confirmed = fresh, !.pending = none]
                 hu == [h EXCEPT !.undo = undo]
                 hr == [hu EXCEPT !.redo = redo, !.status = "recovered"]
      <3>1. h.undo = ui.undo /\ h.redo = ui.redo /\ h.discarded = ui.discarded /\ h \in Pages
        <4> HIDE DEF heard, fresh, none
        <4> QED
          BY <1>2, <1>3, <1>4 DEF Pages
      <3>2. hu.redo = ui.redo /\ hu.discarded = ui.discarded /\ hu \in Pages
        <4> HIDE DEF h, undo
        <4> QED
          BY <1>4, <3>1 DEF Pages
      <3>3. hr.discarded = ui.discarded
        <4> HIDE DEF hu, redo
        <4> QED
          BY <1>4, <3>2 DEF Pages
      <3> QED
        BY <1>8, <3>1, <3>2, <3>3, Zenon DEF Synchronize, Show
    <2> HIDE DEF heard, fresh, undo, redo, dropped, none
    <2>2. /\ ui' \in Pages /\ ui'.pending = none /\ ui'.recoverable = ui.recoverable
          /\ ui'.confirmed = fresh /\ ui'.status = "recovered"
      BY <1>2, <1>3, <1>4, <2>1 DEF Pages
    <2>3. StatusHonest(ui') /\ ui'.recoverable = <<>>
      BY <1>1, <1>8, <2>2 DEF StatusHonest, none
    <2> QED
      BY <1>1, <1>2, <2>1, <2>2, <2>3, QueueStep, ReadsAreSound, EmptyQueue DEF none
  <1>9. CASE ui.status # "conflict" /\ ui.pending = <<>>
    <2>1. /\ ui' = [heard EXCEPT !.confirmed = fresh, !.status = quiet]
          /\ told' = told
      <3>1. [heard EXCEPT !.confirmed = fresh].status = ui.status
        <4> HIDE DEF heard, fresh
        <4> QED
          BY <1>2, <1>3 DEF Pages
      <3> QED
        BY <1>9, <3>1, Zenon DEF Synchronize, Show
    <2> HIDE DEF heard, fresh, quiet
    <2>2. /\ ui' \in Pages /\ ui'.pending = ui.pending /\ ui'.recoverable = ui.recoverable
          /\ ui'.confirmed = fresh /\ ui'.status = quiet
      BY <1>2, <1>3, <1>6, <2>1 DEF Pages
    <2>3. StatusHonest(ui')
      BY <1>1, <1>6, <1>9, <2>2 DEF StatusHonest
    <2> QED
      BY <1>1, <1>2, <2>1, <2>2, <2>3, SameEditsStep, ReadsAreSound
  <1>10. CASE ui.status # "conflict" /\ ui.pending # <<>>
    <2>1. ui' = heard /\ told' = told
      BY <1>10 DEF Synchronize, Show
    <2>2. StatusHonest(ui') /\ Len(ui'.confirmed) <= Len(server)
      BY <1>1, <1>3, <2>1 DEF StatusHonest, StudioInv, Loaded
    <2> QED
      BY <1>1, <1>3, <2>1, <2>2, SameEditsStep, ReadsAreSound
  <1> QED
    BY <1>7, <1>8, <1>9, <1>10

-----------------------------------------------------------------------------
(* Requests and the server *)

\* The first waiting edit is sent: everything sent before is no later than it.
LEMMA SendStep ==
  ASSUME StudioInv, SendEdit
  PROVE  StudioInv'
  <1> DEFINE edit == Head(ui.pending)
             request == [kind |-> "update", number |-> sent + 1, edit |-> edit,
                         expected |-> Revision(ui.confirmed)]
  <1>1. /\ Loaded /\ ui.pending # <<>> /\ sent < MaxSends /\ sent' = sent + 1
        /\ wire' = wire \cup {request}
        /\ awaiting' = [request |-> request, answer |-> None]
        /\ UNCHANGED <<server, ui, issued, fetched, late, told>>
    BY DEF SendEdit, MaySend
  <1>2. /\ ui \in Pages /\ ui.recoverable = <<>> /\ sent \in Nat /\ issued \in Nat
        /\ sent + 1 \in 0..MaxSends
    BY <1>1, OpenPage, StudioAssumption DEF StudioInv
  <1>3. /\ ui.pending \in Seq(Edit) /\ ui.confirmed \in Design
        /\ Ascending(ui.pending) /\ Live(ui) = Ids(ui.pending)
    BY <1>2, BusyPage DEF StudioInv, Pages
  <1>4. /\ edit \in Edit /\ edit.id \in Live(ui) /\ edit.id <= issued
        /\ \A id \in Live(ui) : edit.id <= id
    <2>1. edit \in Edit /\ edit.id \in Live(ui) /\ \A id \in Live(ui) : edit.id <= id
      BY <1>1, <1>3, RestOfQueue
    <2>2. edit.id \in 1..issued
      BY <2>1 DEF StudioInv, PageOrdered
    <2> QED
      BY <1>2, <2>1, <2>2
  <1> DEFINE expected == Revision(ui.confirmed)
  <1>5. expected \in Nat \ {0} /\ expected <= Len(server) + 1
    <2>1. Len(ui.confirmed) \in Nat /\ Len(server) \in Nat /\ Len(ui.confirmed) <= Len(server)
      BY <1>1, <1>3 DEF StudioInv, Loaded, Design
    <2> QED
      BY <2>1 DEF Revision
  <1>6. \A i \in 1..Len(server) : server[i].id <= edit.id
    BY <1>4 DEF StudioInv, ServedFirst
  <1> HIDE DEF edit, expected
  <1>7. /\ request \in Requests /\ request.number = sent + 1
        /\ request.edit = edit /\ request.expected = expected
    BY <1>2, <1>4, <1>5 DEF Requests, expected
  <1> HIDE DEF request
  <1>8. RequestSound(request, server, ui, issued)
    BY <1>4, <1>5, <1>6, <1>7 DEF RequestSound
  <1>9. \A r \in wire' : r.number <= sent' /\ RequestSound(r, server, ui, issued)
    <2> TAKE r \in wire'
    <2>1. CASE r = request
      BY <1>1, <1>2, <1>7, <1>8, <2>1
    <2>2. CASE r \in wire
      <3>1. RequestSound(r, server, ui, issued) /\ r.number <= sent
        BY <2>2 DEF StudioInv
      <3>2. r.number \in Nat
        BY <3>1 DEF RequestSound, Requests
      <3> QED
        BY <1>1, <1>2, <3>1, <3>2
    <2> QED
      BY <1>1, <2>1, <2>2
  <1>10. AwaitSound(awaiting', server)
    <2>1. /\ awaiting'.answer = None
          /\ awaiting' \in [request : Requests, answer : Answers]
      BY <1>1, <1>7 DEF Answers
    <2> QED
      BY <2>1 DEF AwaitSound
  <1>11. EditsApplyInOrder'
    BY <1>1 DEF StudioInv, EditsApplyInOrder
  <1> QED
    BY <1>1, <1>2, <1>9, <1>10, <1>11 DEF StudioInv

\* What was awaited or read stays sound while the design grows.
LEMMA ReadsStay ==
  ASSUME NEW design \in Design, NEW grown \in Design, Len(design) <= Len(grown),
         Ids(design) \subseteq Ids(grown)
  PROVE  /\ \A a : AwaitSound(a, design) => AwaitSound(a, grown)
         /\ \A x, kinds : ReadSound(x, kinds, design) => ReadSound(x, kinds, grown)
  <1>1. Len(design) \in Nat /\ Len(grown) \in Nat
    BY DEF Design
  <1>2. ASSUME NEW a, AwaitSound(a, design)
        PROVE  AwaitSound(a, grown)
    <2> SUFFICES ASSUME a # None
                 PROVE  /\ a \in [request : Requests, answer : Answers]
                        /\ a.answer # None /\ a.answer.kind = "ok" =>
                             /\ Len(a.answer.design) <= Len(grown)
                             /\ a.request.edit.id \in Ids(grown)
      BY DEF AwaitSound
    <2>1. /\ a \in [request : Requests, answer : Answers]
          /\ a.answer # None /\ a.answer.kind = "ok" =>
               /\ Len(a.answer.design) <= Len(design)
               /\ a.request.edit.id \in Ids(design)
      BY <1>2 DEF AwaitSound
    <2>2. a.answer # None /\ a.answer.kind = "ok" => a.answer.design \in Design
      BY <2>1 DEF Answers
    <2>3. a.answer # None /\ a.answer.kind = "ok" => Len(a.answer.design) \in Nat
      BY <2>2 DEF Design
    <2> QED
      BY <1>1, <2>1, <2>3
  <1>3. ASSUME NEW x, NEW kinds, ReadSound(x, kinds, design)
        PROVE  ReadSound(x, kinds, grown)
    <2>1. x # None => x \in [kind : kinds, design : Design] /\ Len(x.design) <= Len(design)
      BY <1>3 DEF ReadSound
    <2>2. x # None => Len(x.design) \in Nat
      BY <2>1 DEF Design
    <2> QED
      BY <1>1, <2>1, <2>2 DEF ReadSound
  <1> QED
    BY <1>2, <1>3

\* The server stores one more edit that is no earlier than those it has, and
\* no later than those that are live.
LEMMA ServerStep ==
  ASSUME StudioInv, NEW e \in Edit \cup {Foreign}, server' = Append(server, e),
         e.id <= issued, \A id \in Live(ui) : e.id <= id,
         e = Foreign \/ \A i \in 1..Len(server) : server[i].id <= e.id,
         UNCHANGED <<ui, issued, sent, fetched, late, told>>, wire' \subseteq wire,
         AwaitSound(awaiting', server')
  PROVE  StudioInv'
  <1>1. /\ server \in Design /\ server' \in Design /\ Len(server') = Len(server) + 1
        /\ Ids(server') = Ids(server) \cup {e.id}
        /\ \A i \in 1..Len(server) : server'[i] = server[i]
        /\ server'[Len(server) + 1] = e
    <2>1. server \in Seq(Edit \cup {Foreign})
      BY DEF StudioInv, Design
    <2>2. \A i \in 1..Len(server) : server'[i] = server[i]
      BY <2>1, AppendProperties
    <2> QED
      BY <2>1, <2>2, AppendedQueue, AppendProperties DEF Design
  <1>2. Len(server) \in Nat
    BY <1>1 DEF Design
  <1>3. \A i \in 1..Len(server') : i \in 1..Len(server) \/ i = Len(server) + 1
    BY <1>1, <1>2
  <1>4. ServedFirst(server', ui, issued)
    BY <1>1, <1>3 DEF StudioInv, ServedFirst
  <1>5. ui.status # "loading" => Len(ui.confirmed) <= Len(server')
    <2> SUFFICES ASSUME ui.status # "loading"  PROVE Len(ui.confirmed) <= Len(server')
      OBVIOUS
    <2>1. ui \in Pages /\ Len(ui.confirmed) <= Len(server)
      BY OpenPage DEF StudioInv, Loaded
    <2>2. Len(ui.confirmed) \in Nat
      BY <2>1 DEF Pages, Design
    <2> QED
      BY <1>1, <1>2, <2>1, <2>2
  <1>6. ASSUME NEW r \in wire'
        PROVE  r.number <= sent /\ RequestSound(r, server', ui, issued)
    <2>1. r.number <= sent /\ RequestSound(r, server, ui, issued)
      BY DEF StudioInv
    <2>2. r.expected \in Nat /\ r.expected <= Len(server) + 1
      BY <2>1 DEF RequestSound, Requests
    <2>3. \A i \in 1..Len(server') : i < r.expected => server'[i].id <= r.edit.id
      BY <1>1, <1>2, <1>3, <2>1, <2>2 DEF RequestSound
    <2>4. r.expected <= Len(server') + 1
      BY <1>1, <1>2, <2>2
    <2> QED
      BY <2>1, <2>3, <2>4 DEF RequestSound
  <1>7. EditsApplyInOrder'
    <2> SUFFICES ASSUME NEW i \in DOMAIN server', NEW j \in DOMAIN server', i < j,
                        server'[i] # Foreign, server'[j] # Foreign
                 PROVE  server'[i].id <= server'[j].id
      BY DEF EditsApplyInOrder
    <2>1. i \in 1..Len(server') /\ j \in 1..Len(server')
      BY <1>1 DEF Design
    <2>2. CASE j \in 1..Len(server)
      <3>1. i \in 1..Len(server) /\ DOMAIN server = 1..Len(server)
        BY <1>1, <1>2, <2>1, <2>2 DEF Design
      <3> QED
        BY <1>1, <2>2, <3>1 DEF StudioInv, EditsApplyInOrder
    <2>3. CASE j = Len(server) + 1
      <3>1. i \in 1..Len(server)
        BY <1>1, <1>2, <2>1, <2>3
      <3> QED
        BY <1>1, <2>3, <3>1
    <2> QED
      BY <1>3, <2>1, <2>2, <2>3
  <1>8. Accounted(issued, server', told, Waiting(ui))
    BY <1>1 DEF StudioInv, Accounted
  <1>9. /\ ReadSound(fetched', {"load", "sync"}, server')
        /\ ReadSound(late', {"save", "order"}, server')
    <2>1. Len(server) <= Len(server') /\ Ids(server) \subseteq Ids(server')
      BY <1>1, <1>2
    <2> QED
      BY <1>1, <2>1, ReadsStay, ReadsAreSound
  <1> QED
    BY <1>1, <1>4, <1>5, <1>6, <1>7, <1>8, <1>9 DEF StudioInv

\* The other device's edit is earlier than every edit of this one.
LEMMA UpdateElsewhereStep ==
  ASSUME StudioInv, UpdateElsewhere
  PROVE  StudioInv'
  <1>1. /\ server' = Append(server, Foreign)
        /\ UNCHANGED <<ui, issued, sent, wire, awaiting, fetched, late, told>>
    BY DEF UpdateElsewhere
  <1>2. Foreign.id = 0 /\ issued \in Nat /\ Live(ui) \subseteq 1..issued
    BY StudioAssumption DEF Foreign, StudioInv, PageOrdered
  <1>3. Foreign.id <= issued /\ \A id \in Live(ui) : Foreign.id <= id
    BY <1>2
  <1>4. AwaitSound(awaiting', server')
    <2>1. server \in Seq(Edit \cup {Foreign})
      BY DEF StudioInv, Design
    <2>2. /\ server' \in Design /\ Len(server') = Len(server) + 1
          /\ Ids(server) \subseteq Ids(server') /\ Len(server) \in Nat
      BY <1>1, <2>1, AppendedQueue DEF Design
    <2>3. Len(server) <= Len(server')
      BY <2>2
    <2> QED
      BY <1>1, <2>1, <2>2, <2>3, ReadsStay, ReadsAreSound DEF Design
  <1> QED
    BY <1>1, <1>3, <1>4, ServerStep

\* The conditional update: what is stored is no earlier than what is there,
\* because the request was sent when all of that was.
LEMMA UpdateStep ==
  ASSUME StudioInv, NEW request, Update(request)
  PROVE  StudioInv'
  <1>1. /\ request \in wire /\ wire' = wire \ {request}
        /\ UNCHANGED <<ui, issued, sent, fetched, late, told>>
    BY DEF Update
  <1>2. RequestSound(request, server, ui, issued) /\ server \in Design /\ Len(server) \in Nat
    BY <1>1 DEF StudioInv, Design
  <1>3. request \in Requests /\ request.edit \in Edit
    BY <1>2 DEF RequestSound, Requests
  <1>4. CASE request.expected = Revision(server)
    <2> DEFINE e == request.edit
               answer == [kind |-> "ok", design |-> server']
    <2>1. /\ server' = Append(server, e)
          /\ awaiting' = IF awaiting # None /\ awaiting.request = request
                         THEN [awaiting EXCEPT !.answer = answer] ELSE awaiting
      BY <1>4 DEF Update, Answered
    <2>2. \A i \in 1..Len(server) : server[i].id <= e.id
      BY <1>2, <1>4 DEF RequestSound, Revision
    <2>3. /\ server' \in Design /\ Len(server) <= Len(server')
          /\ Ids(server') = Ids(server) \cup {e.id}
      <3>1. server \in Seq(Edit \cup {Foreign}) /\ e \in Edit \cup {Foreign}
        BY <1>2, <1>3 DEF Design
      <3>2. /\ server' \in Seq(Edit \cup {Foreign}) /\ Len(server') = Len(server) + 1
            /\ Ids(server') = Ids(server) \cup {e.id}
        BY <2>1, <3>1, AppendedQueue
      <3> QED
        BY <1>2, <3>2 DEF Design
    <2>4. AwaitSound(awaiting', server')
      <3>1. AwaitSound(awaiting, server')
        BY <1>2, <2>3, ReadsStay, ReadsAreSound
      <3>2. CASE awaiting # None /\ awaiting.request = request
        <4>1. awaiting \in [request : Requests, answer : Answers]
          BY <3>2, ReadsAreSound DEF AwaitSound
        <4>2. answer \in Answers /\ answer.design = server'
          BY <2>3 DEF Answers
        <4> HIDE DEF answer
        <4>3. /\ awaiting' \in [request : Requests, answer : Answers]
              /\ awaiting'.request = request /\ awaiting'.answer = answer
          BY <2>1, <3>2, <4>1, <4>2
        <4>4. Len(server') <= Len(server')
          BY <2>3 DEF Design
        <4> QED
          BY <2>3, <4>2, <4>3, <4>4 DEF AwaitSound
      <3>3. CASE ~(awaiting # None /\ awaiting.request = request)
        BY <2>1, <3>1, <3>3
      <3> QED
        BY <3>2, <3>3
    <2>5. e.id <= issued /\ \A id \in Live(ui) : e.id <= id
      BY <1>2 DEF RequestSound
    <2>6. wire' \subseteq wire /\ e \in Edit \cup {Foreign}
      BY <1>1, <1>3
    <2> HIDE DEF e, answer
    <2> QED
      BY <1>1, <2>1, <2>2, <2>4, <2>5, <2>6, ServerStep
  <1>5. CASE request.expected # Revision(server)
    <2> DEFINE answer == [kind |-> "conflict"]
    <2>1. /\ server' = server
          /\ awaiting' = IF awaiting # None /\ awaiting.request = request
                         THEN [awaiting EXCEPT !.answer = answer] ELSE awaiting
      BY <1>5 DEF Update, Answered
    <2>2. AwaitSound(awaiting', server)
      <3>1. CASE awaiting # None /\ awaiting.request = request
        <4>1. awaiting \in [request : Requests, answer : Answers]
          BY <3>1, ReadsAreSound DEF AwaitSound
        <4>2. answer \in Answers /\ answer.kind = "conflict"
          BY DEF Answers
        <4> HIDE DEF answer
        <4>3. awaiting' \in [request : Requests, answer : Answers] /\ awaiting'.answer = answer
          BY <2>1, <3>1, <4>1, <4>2
        <4> QED
          BY <4>2, <4>3 DEF AwaitSound
      <3>2. CASE ~(awaiting # None /\ awaiting.request = request)
        BY <2>1, <3>2, ReadsAreSound
      <3> QED
        BY <3>1, <3>2
    <2> QED
      BY <1>1, <2>1, <2>2, UnchangedPageStep, ReadsAreSound
  <1> QED
    BY <1>4, <1>5
-----------------------------------------------------------------------------
(* The theorems *)

\* An empty design, and a page that shows it.
LEMMA InitStep == StudioInit => StudioInv
  <1> SUFFICES ASSUME StudioInit  PROVE StudioInv
    OBVIOUS
  <1> DEFINE none == <<>>
  <1>1. none \in Seq(Edit) /\ none \in Design /\ Ids(none) = {} /\ Len(none) = 0
    BY EmptyQueue DEF Design
  <1>2. /\ server = none /\ issued = 0 /\ sent = 0 /\ wire = {}
        /\ awaiting = None /\ fetched = None /\ late = None /\ told = {}
        /\ ui = [confirmed |-> none, pending |-> none, undo |-> none, redo |-> none,
                 status |-> "saved", recoverable |-> none, discarded |-> none,
                 notice |-> "none"]
    BY DEF StudioInit, Fresh
  <1>3. ui.recoverable = <<>> /\ ui.pending = <<>>
    BY <1>2
  <1> HIDE DEF none
  <1>4. /\ ui \in Pages /\ ui.status = "saved" /\ ui.confirmed = none
        /\ ui.pending = none /\ ui.recoverable = none
    BY <1>1, <1>2 DEF Pages
  <1>5. PageSound(ui)
    BY <1>3, <1>4 DEF PageSound, StatusHonest
  <1>6. Waiting(ui) = none /\ Retryable(ui) = none /\ Live(ui) = {}
    BY <1>1, <1>4 DEF Waiting, Retryable, Live
  <1>7. PageOrdered(ui, issued)
    BY <1>1, <1>6 DEF PageOrdered, Ascending
  <1>8. ServedFirst(server, ui, issued) /\ EditsApplyInOrder
    BY <1>1, <1>2 DEF ServedFirst, EditsApplyInOrder, Design
  <1>9. Accounted(issued, server, told, Waiting(ui))
    BY <1>2 DEF Accounted
  <1>10. /\ AwaitSound(awaiting, server)
         /\ ReadSound(fetched, {"load", "sync"}, server)
         /\ ReadSound(late, {"save", "order"}, server)
    BY <1>2 DEF AwaitSound, ReadSound
  <1> QED
    BY <1>1, <1>2, <1>4, <1>5, <1>7, <1>8, <1>9, <1>10, StudioAssumption DEF StudioInv

\* Every step of the page, of its calls and of the other device keeps it.
LEMMA NextStep == StudioInv /\ [StudioNext]_studioVars => StudioInv'
  <1> SUFFICES ASSUME StudioInv, [StudioNext]_studioVars
               PROVE  StudioInv'
    OBVIOUS
  <1>1. CASE EnqueueEdit
    BY <1>1, EnqueueStep
  <1>2. CASE ApplyUndo
    BY <1>2, UndoStep
  <1>3. CASE ApplyRedo
    BY <1>3, RedoStep
  <1>4. CASE SendEdit
    BY <1>4, SendStep
  <1>5. CASE SendNothing
    BY <1>5, SendNothingStep
  <1>6. CASE SettleEdit
    BY <1>6, SettleStep
  <1>7. CASE FailEdit
    BY <1>7, FailStep
  <1>8. ASSUME NEW request \in wire, Update(request)
        PROVE  StudioInv'
    BY <1>8, UpdateStep
  <1>9. ASSUME NEW request \in wire, LoseUpdate(request)
        PROVE  StudioInv'
    BY <1>9, LoseUpdateStep
  <1>10. CASE RetryFailedEdits
    BY <1>10, RetryStep
  <1>11. CASE DismissNotice
    BY <1>11, DismissStep
  <1>12. CASE UpdateElsewhere
    BY <1>12, UpdateElsewhereStep
  <1>13. CASE CallFails
    BY <1>13, CallFailsStep
  <1>14. CASE ReloadPage
    BY <1>14, ReloadStep
  <1>15. CASE Fetch
    BY <1>15, FetchStep
  <1>16. CASE AdoptLoadedDesign
    BY <1>16, AdoptLoadedStep
  <1>17. CASE Synchronize
    BY <1>17, SynchronizeStep
  <1>18. ASSUME NEW kind \in {"save", "order"}, ServeDesign(kind)
         PROVE  StudioInv'
    BY <1>18, ServeStep
  <1>19. CASE AdoptServed
    BY <1>19, AdoptServedStep
  <1>20. CASE UNCHANGED studioVars
    BY <1>20, UnchangedPageStep, ReadsAreSound DEF studioVars
  <1> QED
    BY <1>1, <1>2, <1>3, <1>4, <1>5, <1>6, <1>7, <1>8, <1>9, <1>10, <1>11, <1>12,
       <1>13, <1>14, <1>15, <1>16, <1>17, <1>18, <1>19, <1>20 DEF StudioNext

\* StudioInv holds in every reachable state of the editor.
THEOREM StudioInvariant == StudioSpec => []StudioInv
  BY InitStep, NextStep, PTL DEF StudioSpec

\* StudioInv has the types, and what the status line promises.
LEMMA InvTypes == StudioInv => StudioTypeOK
  <1> SUFFICES ASSUME StudioInv  PROVE StudioTypeOK
    OBVIOUS
  <1>1. server \in Seq(Edit \cup {Foreign}) /\ issued \in 0..MaxEdits /\ sent \in 0..MaxSends
    BY DEF StudioInv, Design
  <1>2. ASSUME NEW request \in wire
        PROVE  request.number <= sent /\ request.edit \in Edit
    BY DEF StudioInv, RequestSound, Requests
  <1>3. ASSUME Loaded
        PROVE  /\ ui.confirmed \in Seq(Edit \cup {Foreign})
               /\ \A stack \in {ui.pending, ui.undo, ui.redo, ui.recoverable, ui.discarded} :
                    stack \in Seq(Edit)
               /\ ui.status \in {"saved", "syncing", "failed", "conflict", "recovered"}
               /\ ui.notice \in {"none", "reload", "sync"}
               /\ ui.status = "conflict" => ui.pending # <<>>
               /\ ui.status = "failed" => ui.pending = <<>> /\ ui.recoverable # <<>>
               /\ ui.status = "saved" => ui.pending = <<>> /\ ui.recoverable = <<>>
    <2>1. ui \in Pages /\ StatusHonest(ui)
      BY <1>3, OpenPage DEF StudioInv
    <2>2. /\ ui.confirmed \in Seq(Edit \cup {Foreign})
          /\ ui.pending \in Seq(Edit) /\ ui.undo \in Seq(Edit) /\ ui.redo \in Seq(Edit)
          /\ ui.recoverable \in Seq(Edit) /\ ui.discarded \in Seq(Edit)
          /\ ui.status \in {"saved", "syncing", "failed", "conflict", "recovered"}
          /\ ui.notice \in {"none", "reload", "sync"}
      BY <2>1 DEF Pages, Design
    <2> QED
      BY <2>1, <2>2 DEF StatusHonest
  <1> QED
    BY <1>1, <1>2, <1>3 DEF StudioTypeOK

\* What waits is what the record in the browser holds.
LEMMA InvAccounts == StudioInv => EditsAreAccountedFor
  <1> SUFFICES ASSUME StudioInv, NEW id \in 1..issued
               PROVE  \/ id \in Ids(server) \/ id \in told
                      \/ Record # None /\ id \in Ids(Record.edits)
    BY DEF EditsAreAccountedFor
  <1>1. id \in Ids(server) \/ id \in told \/ id \in Ids(Waiting(ui))
    BY DEF StudioInv, Accounted
  <1>2. CASE Record = None
    BY <1>1, <1>2, RecordIsWaiting, EmptyQueue DEF StudioInv
  <1>3. CASE Record # None
    BY <1>1, <1>3, RecordIsWaiting DEF StudioInv
  <1> QED
    BY <1>2, <1>3

\* A page that is open shows a status its edits bear out.
THEOREM StudioTypeAlways == StudioSpec => []StudioTypeOK
  BY StudioInvariant, InvTypes, PTL

\* Whatever fails, conflicts or is reloaded, no edit disappears untold.
THEOREM EditsAccountedAlways == StudioSpec => []EditsAreAccountedFor
  BY StudioInvariant, InvAccounts, PTL

\* Edits reach the server in the order in which the user made them.
THEOREM EditsInOrderAlways == StudioSpec => []EditsApplyInOrder
  <1>1. StudioInv => EditsApplyInOrder
    BY DEF StudioInv
  <1> QED
    BY <1>1, StudioInvariant, PTL

=============================================================================
