---------------------------- MODULE StudioEditor ----------------------------
(***************************************************************************)
(* The design studio's optimistic editor: edits are shown at once, queued, *)
(* and sent one at a time against the revision last confirmed; they are    *)
(* rolled back, retried, discarded on a conflict, and recovered after the  *)
(* page is reloaded.  Around it are the server's revision check, another   *)
(* device of the same owner, and a network that loses and delays calls.    *)
(*                                                                         *)
(* A design is the sequence of the edits it came from, and its revision is *)
(* one more than their number.  An edit applies operation op, a number of  *)
(* its own; undoing it applies -op.  A call the server refuses for another *)
(* reason than the revision is one that is lost and then fails.            *)
(***************************************************************************)
EXTENDS Integers, Sequences, FiniteSets, FiniteSetsExt, SequencesExt

CONSTANTS
  MaxEdits,      \* bound on the edits, undos and redos of the user
  MaxRevision,   \* bound on the revisions of the design
  MaxSends       \* bound on the update requests sent

ASSUME StudioAssumption ==
  MaxEdits \in Nat \ {0} /\ MaxRevision \in Nat \ {0} /\ MaxSends \in Nat \ {0}

VARIABLES
  server,    \* the design in the database
  ui,        \* OptimisticDesignState, and what the page shows above it
  issued,    \* how many edits the user made: the last requestId
  sent,      \* how many update requests were sent
  wire,      \* update requests that may still reach the server
  awaiting,  \* the request that syncInFlightRef stands for
  fetched,   \* a design read from the server for a reload or a synchronization
  late,      \* the design in the answer of a save or an order
  due,       \* the synchronizing effect has to run: the state changed
  told       \* edits the user was told are not on the server

studioVars == <<server, ui, issued, sent, wire, awaiting, fetched, late, due, told>>

Edit == [id : 1..MaxEdits, op : (-MaxEdits..MaxEdits) \ {0}]

\* What another device of the owner contributed.
Foreign == [id |-> 0, op |-> 0]

Revision(design) == Len(design) + 1

None == [kind |-> "none"]

\* createOptimisticState
Fresh(design) ==
  [confirmed |-> design, pending |-> <<>>, undo |-> <<>>, redo |-> <<>>,
   status |-> "saved", recoverable |-> <<>>, discarded |-> <<>>, notice |-> "none"]

\* A page that is loading has only what sessionStorage kept.
Loading(record) == [status |-> "loading", record |-> record]

Loaded == ui.status # "loading"

\* serializeRecoveryRecord, which an effect stores after every change.
Record ==
  IF ~ Loaded THEN ui.record
  ELSE IF ui.pending = <<>> THEN None
  ELSE [kind |-> "edits", revision |-> Revision(ui.confirmed), edits |-> ui.pending]

StudioInit ==
  /\ server = <<>>
  /\ ui = Fresh(<<>>)
  /\ issued = 0 /\ sent = 0
  /\ wire = {}
  /\ awaiting = None /\ fetched = None /\ late = None
  /\ due = FALSE
  /\ told = {}

\* setOptimistic: React runs the effect only if the state is another one.
Show(state) ==
  /\ ui' = state
  /\ due' = (due \/ state # ui)

Ids(edits) == {e.id : e \in ToSet(edits)}

\* The filter of settleEdit and resolveConflict.
Without(stack, edits) ==
  LET kept[n \in 0..Len(stack)] ==
        IF n = 0 THEN <<>>
        ELSE IF stack[n].id \in Ids(edits) THEN kept[n - 1]
        ELSE Append(kept[n - 1], stack[n])
  IN  kept[Len(stack)]

-----------------------------------------------------------------------------
(* The user edits *)

\* Mutation: the edits of a failed synchronization stay retryable.
KeepRecoverable(state, edit) ==
  [state EXCEPT !.pending = Append(@, edit), !.status = "syncing"]

\* withPendingEdit
WithPendingEdit(state, edit) ==
  [state EXCEPT !.pending = Append(@, edit), !.status = "syncing",
                !.recoverable = <<>>, !.discarded = @ \o state.recoverable]

CanEdit == Loaded /\ ui.status # "conflict" /\ issued < MaxEdits

EnqueueEdit ==
  /\ CanEdit
  /\ LET edit == [id |-> issued + 1, op |-> issued + 1]
     IN  Show([WithPendingEdit(ui, edit) EXCEPT !.undo = Append(@, edit), !.redo = <<>>])
  /\ issued' = issued + 1
  /\ told' = told \cup Ids(ui.recoverable)
  /\ UNCHANGED <<server, sent, wire, awaiting, fetched, late>>

\* applyUndo: the inverse operations, as an edit of their own.
ApplyUndo ==
  /\ CanEdit /\ ui.undo # <<>>
  /\ LET id == issued + 1
         op == Last(ui.undo).op
     IN  Show([WithPendingEdit(ui, [id |-> id, op |-> -op]) EXCEPT
                 !.undo = Front(@), !.redo = Append(@, [id |-> id, op |-> op])])
  /\ issued' = issued + 1
  /\ told' = told \cup Ids(ui.recoverable)
  /\ UNCHANGED <<server, sent, wire, awaiting, fetched, late>>

\* applyRedo
ApplyRedo ==
  /\ CanEdit /\ ui.redo # <<>>
  /\ LET edit == [id |-> issued + 1, op |-> Last(ui.redo).op]
     IN  Show([WithPendingEdit(ui, edit) EXCEPT
                 !.redo = Front(@), !.undo = Append(@, edit)])
  /\ issued' = issued + 1
  /\ told' = told \cup Ids(ui.recoverable)
  /\ UNCHANGED <<server, sent, wire, awaiting, fetched, late>>

-----------------------------------------------------------------------------
(* Synchronization *)

\* nextEditToSync
MaySend == Loaded /\ ui.status \in {"syncing", "recovered"} /\ ui.pending # <<>>

\* The effect sends the first pending edit, unless a request is in flight.
SendEdit ==
  /\ due /\ MaySend /\ awaiting = None
  /\ due' = FALSE
  /\ sent < MaxSends
  /\ LET request == [kind |-> "update", number |-> sent + 1, edit |-> Head(ui.pending),
                     expected |-> Revision(ui.confirmed)]
     IN  /\ wire' = wire \cup {request}
         /\ awaiting' = [request |-> request, answer |-> None]
  /\ sent' = sent + 1
  /\ UNCHANGED <<server, ui, issued, fetched, late, told>>

SendNothing ==
  /\ due /\ ~ (MaySend /\ awaiting = None)
  /\ due' = FALSE
  /\ UNCHANGED <<server, ui, issued, sent, wire, awaiting, fetched, late, told>>

Answered(request, answer) ==
  awaiting' = IF awaiting # None /\ awaiting.request = request
              THEN [awaiting EXCEPT !.answer = answer] ELSE awaiting

\* Mutation: an update is applied whatever revision it expects.
UpdateAnyRevision(request) ==
  /\ request \in wire
  /\ wire' = wire \ {request}
  /\ Len(server) + 1 < MaxRevision
  /\ server' = Append(server, request.edit)
  /\ Answered(request, [kind |-> "ok", design |-> server'])
  /\ UNCHANGED <<ui, issued, sent, fetched, late, due, told>>

\* updateDesign: conditional on the expected revision.
Update(request) ==
  /\ request \in wire
  /\ wire' = wire \ {request}
  /\ IF request.expected = Revision(server)
     THEN /\ Revision(server) < MaxRevision
          /\ server' = Append(server, request.edit)
          /\ Answered(request, [kind |-> "ok", design |-> server'])
     ELSE /\ server' = server
          /\ Answered(request, [kind |-> "conflict"])
  /\ UNCHANGED <<ui, issued, sent, fetched, late, due, told>>

LoseUpdate(request) ==
  /\ request \in wire
  /\ wire' = wire \ {request}
  /\ UNCHANGED <<server, ui, issued, sent, awaiting, fetched, late, due, told>>

\* The request that is in flight belongs to the first pending edit.
Settles ==
  Loaded /\ ui.pending # <<>> /\ Head(ui.pending).id = awaiting.request.edit.id

AfterSync(pending, discarded) ==
  IF pending # <<>> THEN "syncing" ELSE IF discarded # <<>> THEN "recovered" ELSE "saved"

\* settleEdit with the server's answer.
SettleEdit ==
  /\ awaiting # None /\ awaiting.answer # None
  /\ awaiting' = None
  /\ Show(IF ~ Settles THEN ui
          ELSE IF awaiting.answer.kind = "conflict" THEN [ui EXCEPT !.status = "conflict"]
          ELSE [ui EXCEPT !.confirmed = awaiting.answer.design, !.pending = Tail(@),
                          !.status = AfterSync(Tail(ui.pending), ui.discarded)])
  /\ UNCHANGED <<server, issued, sent, wire, fetched, late, told>>

\* settleEdit when the call failed: the edit and the queue behind it are rolled
\* back.  The request may have been served or may still be.
FailEdit ==
  /\ awaiting # None
  /\ awaiting' = None
  /\ Show(IF ~ Settles THEN ui
          ELSE [ui EXCEPT !.pending = <<>>, !.status = "failed",
                          !.undo = Without(@, ui.pending), !.redo = Without(@, ui.pending),
                          !.recoverable = ui.pending])
  /\ told' = IF Settles THEN told \cup Ids(ui.pending) ELSE told
  /\ UNCHANGED <<server, issued, sent, wire, fetched, late>>

RetryFailedEdits ==
  /\ Loaded /\ ui.status = "failed" /\ ui.recoverable # <<>>
  /\ Show([ui EXCEPT !.pending = ui.recoverable, !.undo = @ \o ui.recoverable,
                     !.status = "syncing", !.recoverable = <<>>])
  /\ told' = told \ Ids(ui.recoverable)
  /\ UNCHANGED <<server, issued, sent, wire, awaiting, fetched, late>>

\* dismissRecoveryNotice
DismissNotice ==
  /\ Loaded /\ ui.status = "recovered"
  /\ Show([ui EXCEPT !.discarded = <<>>,
                     !.status = IF ui.pending = <<>> THEN "saved" ELSE @])
  /\ UNCHANGED <<server, issued, sent, wire, awaiting, fetched, late, told>>

-----------------------------------------------------------------------------
(* Reading the server again *)

\* Another device of the owner updates the design.
UpdateElsewhere ==
  /\ Foreign \notin ToSet(server)
  /\ Revision(server) < MaxRevision
  /\ server' = Append(server, Foreign)
  /\ UNCHANGED <<ui, issued, sent, wire, awaiting, fetched, late, due, told>>

\* A suggestion, an export or a save failed on the network: the page offers
\* to load the design again.
CallFails ==
  /\ Loaded
  /\ Show([ui EXCEPT !.notice = "reload"])
  /\ UNCHANGED <<server, issued, sent, wire, awaiting, fetched, late, told>>

\* The page is reloaded: its memory is gone, requests it sent are not.
ReloadPage ==
  /\ Loaded
  /\ ui' = Loading(Record)
  /\ due' = FALSE
  /\ awaiting' = None /\ fetched' = None /\ late' = None
  /\ UNCHANGED <<server, issued, sent, wire, told>>

\* The server answers a read for loading the page or for a synchronization.
Fetch ==
  /\ fetched = None
  /\ \/ /\ Loaded => ui.notice = "reload"
        /\ fetched' = [kind |-> "load", design |-> server]
     \/ /\ Loaded /\ (ui.status = "conflict" \/ ui.notice = "sync")
        /\ fetched' = [kind |-> "sync", design |-> server]
  /\ UNCHANGED <<server, ui, issued, sent, wire, awaiting, late, due, told>>

\* restoreRecoveredEdits on the design that was loaded.
Restored(design, record) ==
  IF record = None THEN Fresh(design)
  ELSE IF record.revision # Revision(design)
       THEN [Fresh(design) EXCEPT !.discarded = record.edits, !.status = "recovered"]
  ELSE [Fresh(design) EXCEPT !.pending = record.edits, !.undo = record.edits,
                             !.status = "recovered"]

\* Mutation: the edits of another revision are dropped without a notice.
DropSilently ==
  /\ fetched # None /\ fetched.kind = "load"
  /\ Show(IF Record # None /\ Record.revision # Revision(fetched.design)
          THEN Fresh(fetched.design) ELSE Restored(fetched.design, Record))
  /\ fetched' = None
  /\ UNCHANGED <<server, issued, sent, wire, awaiting, late, told>>

\* adoptLoadedDesign
AdoptLoadedDesign ==
  /\ fetched # None /\ fetched.kind = "load"
  /\ LET state == Restored(fetched.design, Record)
     IN  /\ Show(state)
         /\ told' = told \cup Ids(state.discarded)
  /\ fetched' = None
  /\ UNCHANGED <<server, issued, sent, wire, awaiting, late>>

\* synchronizeWithServer, with resolveConflict.
Synchronize ==
  /\ Loaded /\ fetched # None /\ fetched.kind = "sync"
  /\ LET fresh == fetched.design
         heard == [ui EXCEPT !.notice = "none"]
         same == Revision(fresh) = Revision(ui.confirmed)
     IN  /\ Show(IF ui.status = "conflict"
                 THEN IF same
                      THEN [heard EXCEPT !.confirmed = fresh,
                                         !.status = AfterSync(ui.pending, ui.discarded)]
                      ELSE [heard EXCEPT !.confirmed = fresh, !.pending = <<>>,
                              !.undo = Without(@, ui.pending), !.redo = Without(@, ui.pending),
                              !.status = "recovered", !.discarded = @ \o ui.pending]
                 ELSE IF ui.pending = <<>>
                 THEN [heard EXCEPT !.confirmed = fresh,
                                    !.status = IF @ = "failed" THEN @ ELSE "saved"]
                 ELSE heard)
         /\ told' = IF ui.status = "conflict" /\ ~ same
                    THEN told \cup Ids(ui.pending) ELSE told
  /\ fetched' = None
  /\ UNCHANGED <<server, issued, sent, wire, awaiting, late>>

-----------------------------------------------------------------------------
(* Saving and ordering *)

EditsSettled == Loaded /\ ui.pending = <<>> /\ ui.status # "conflict"

\* save and createOrder, as far as the server: both need its current revision.
\* A refusal offers a synchronization.
ServeDesign(kind) ==
  /\ EditsSettled /\ late = None
  /\ IF ui.confirmed = server
     THEN late' = [kind |-> kind, design |-> server] /\ UNCHANGED <<ui, due>>
     ELSE late' = late /\ Show([ui EXCEPT !.notice = "sync"])
  /\ UNCHANGED <<server, issued, sent, wire, awaiting, fetched, told>>

\* Their answer: an order's replaces what is confirmed, a save's only if no
\* edit is waiting.
AdoptServed ==
  /\ late # None
  /\ Show(IF late.kind = "save" /\ ~ EditsSettled THEN ui
          ELSE [ui EXCEPT !.confirmed = late.design])
  /\ late' = None
  /\ UNCHANGED <<server, issued, sent, wire, awaiting, fetched, told>>

StudioNext ==
  \/ EnqueueEdit \/ ApplyUndo \/ ApplyRedo
  \/ SendEdit \/ SendNothing \/ SettleEdit \/ FailEdit
  \/ \E request \in wire : Update(request) \/ LoseUpdate(request)
  \/ RetryFailedEdits \/ DismissNotice
  \/ UpdateElsewhere \/ CallFails \/ ReloadPage \/ Fetch
  \/ AdoptLoadedDesign \/ Synchronize
  \/ \E kind \in {"save", "order"} : ServeDesign(kind)
  \/ AdoptServed

\* The page's own steps and the end of its calls: the user and the other
\* device owe nothing.
StudioFairness ==
  /\ WF_studioVars(SendEdit) /\ WF_studioVars(SendNothing)
  /\ WF_studioVars(SettleEdit) /\ WF_studioVars(FailEdit)
  /\ WF_studioVars(AdoptLoadedDesign)

StudioSpec == StudioInit /\ [][StudioNext]_studioVars

FairStudioSpec == StudioSpec /\ StudioFairness

-----------------------------------------------------------------------------

\* Types, and what the status line promises: a conflict has pending edits, a
\* failure has edits to retry and none pending, and "saved" has neither.
StudioTypeOK ==
  /\ server \in Seq(Edit \cup {Foreign})
  /\ Loaded =>
       /\ ui.confirmed \in Seq(Edit \cup {Foreign})
       /\ \A stack \in {ui.pending, ui.undo, ui.redo, ui.recoverable, ui.discarded} :
            stack \in Seq(Edit)
       /\ ui.status \in {"saved", "syncing", "failed", "conflict", "recovered"}
       /\ ui.notice \in {"none", "reload", "sync"}
       /\ ui.status = "conflict" => ui.pending # <<>>
       /\ ui.status = "failed" => ui.pending = <<>> /\ ui.recoverable # <<>>
       /\ ui.status = "saved" => ui.pending = <<>> /\ ui.recoverable = <<>>
  /\ issued \in 0..MaxEdits /\ sent \in 0..MaxSends
  /\ \A request \in wire : request.number <= sent /\ request.edit \in Edit

\* No edit disappears behind the user's back: each one is on the server, is
\* waiting (across page reloads, too), or was reported as failed or discarded.
EditsAreAccountedFor ==
  \A id \in 1..issued :
    \/ id \in Ids(server)
    \/ id \in told
    \/ Record # None /\ id \in Ids(Record.edits)

\* The edits that reach the server do so in the order the user made them,
\* whatever was retried, delayed or recovered.
EditsApplyInOrder ==
  \A i, j \in DOMAIN server :
    i < j /\ server[i] # Foreign /\ server[j] # Foreign => server[i].id <= server[j].id

\* The banner of a resolved conflict: the discarded edits are unsynchronized
\* and "will not be written to the server".
DiscardedEditsStayOff ==
  Loaded /\ ui.status = "recovered" /\ ui.pending = <<>> =>
    Ids(ui.discarded) \cap Ids(server) = {}

\* No edit is applied twice.
EditsApplyOnce == \A i, j \in DOMAIN server : server[i] = server[j] => i = j

\* What the page takes as confirmed never gets older while it is open.
ConfirmedIsMonotonic ==
  [][Loaded /\ ui'.status # "loading" =>
       Revision(ui'.confirmed) >= Revision(ui.confirmed)]_studioVars

\* A waiting edit does not wait for ever: it is sent and settles, without
\* another action of the user.
WaitingEditsSettle == MaySend ~> (~ MaySend \/ sent = MaxSends)

=============================================================================
