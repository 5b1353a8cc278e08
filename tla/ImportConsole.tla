---------------------------- MODULE ImportConsole ----------------------------
(***************************************************************************)
(* The session page of the import console: the lifecycle controller that   *)
(* reads, polls and re-reads the session, the workflow state that keeps    *)
(* the operator's unsaved forms beside what was read, and the loaders that *)
(* send them against a revision.  Around the page are the server, another  *)
(* operator, and a network that delays, fails and reorders answers.        *)
(*                                                                         *)
(* One group is modelled.  It has two parts with a revision each: "group", *)
(* edited by the product form, and "draft", its crystal draft, edited by   *)
(* the curation form.  The content of a form is a number, 0 when empty.    *)
(***************************************************************************)
EXTENDS Integers, Sequences, FiniteSets, FiniteSetsExt, SequencesExt

CONSTANTS
  Works,         \* what the operator may do: edit some parts, finish some uploads
  MaxTyped,      \* bound on what the operator types
  MaxRevision,   \* bound on the revisions of a part
  MaxFailures,   \* bound on the reads and submissions that fail
  MaxReads       \* bound on the re-reads of the loaders under way at once

ASSUME ConsoleAssumption ==
  /\ Works \subseteq [parts : SUBSET {"group", "draft"}, uploads : Nat]
  /\ {MaxTyped, MaxFailures} \subseteq Nat
  /\ {MaxRevision, MaxReads} \subseteq Nat \ {0}

VARIABLES
  session,     \* the session in the database
  shown,       \* what the workflow state took from it
  form,        \* draftForms["group"], curationForms["draft"]
  stale,       \* staleGroupIds and staleCrystalDraftIds
  blocked,     \* blockedByConflict
  request,     \* what a loader is submitting, part by part
  reads,       \* the re-reads the loaders have under way
  lifecycle,   \* the variables of the session lifecycle
  typed,       \* how much the operator typed
  failures,    \* how many calls failed
  known,       \* history: the uploads of the newest session that was ever shown
  overtaken    \* history: a mutation under way was overtaken by an older session

page == <<form, stale, blocked>>
history == <<known, overtaken>>
consoleVars ==
  <<session, shown, form, stale, blocked, request, reads, lifecycle, typed, failures, history>>

\* What another operator writes.
Foreign == MaxTyped + 1

None == [step |-> "none"]
Waiting == [step |-> "waiting"]
Served(view) == [step |-> "served", view |-> view]
Lost == [step |-> "lost"]

\* The parts that are worked on in this behaviour.
Part == DOMAIN form

\* A part is the sequence of what was written to it; each write has a revision.
Revision(p) == Len(session.part[p])

\* The session as a read finds it.
View ==
  [revision |-> [p \in Part |-> Revision(p)],
   content |-> [p \in Part |-> Last(session.part[p]).content],
   uploads |-> session.uploads, advancing |-> session.advancing]

ConsoleInit ==
  /\ \E work \in Works :
       /\ session = [part |-> [p \in work.parts |-> <<[content |-> 0, mine |-> FALSE]>>],
                    uploads |-> 0, left |-> work.uploads, advancing |-> TRUE]
       /\ shown = [revision |-> [p \in work.parts |-> 0], uploads |-> -1,
                   advancing |-> FALSE]
       /\ form = [p \in work.parts |-> [typed |-> 0, saved |-> 0, base |-> 0]]
       /\ request = [p \in work.parts |-> None]
  /\ stale = {}
  /\ blocked = FALSE
  /\ reads = [i \in 1..MaxReads |-> None]
  /\ lifecycle = [running |-> TRUE, reading |-> Waiting, timer |-> FALSE,
                  pending |-> FALSE, gaveUp |-> FALSE]
  /\ typed = 0 /\ failures = 0 /\ known = -1 /\ overtaken = FALSE

Loaded == shown.uploads >= 0

Dirty(f) == f.typed # f.saved

\* Mutation: a newer revision never makes unsaved work stale.
OlderStale(forms, revision) ==
  {p \in Part : Dirty(forms[p]) /\ forms[p].base > revision[p]}

\* detectStaleGroupIds, detectStaleCrystalDraftIds: only unsaved work counts.
StaleParts(forms, revision) ==
  {p \in Part : Dirty(forms[p]) /\ forms[p].base # revision[p]}

\* seededDraftForms, seededCurationForms: a form without unsaved work follows.
Seeded(view) ==
  [p \in Part |->
     IF Dirty(form[p]) THEN form[p]
     ELSE [typed |-> view.content[p], saved |-> view.content[p], base |-> view.revision[p]]]

\* A group mutation is on its way to the server or back.
Mutating ==
  /\ "group" \in Part
  /\ request["group"].step \in {"sent", "applied"} /\ request["group"].kind = "mutate"

\* syncSession: the session that is shown last wins, however old it is.
SyncSession(view) ==
  /\ shown' = [revision |-> view.revision, uploads |-> view.uploads,
               advancing |-> view.advancing]
  /\ form' = Seeded(view)
  /\ stale' = StaleParts(form', view.revision)
  /\ known' = Max({known, view.uploads})
  /\ overtaken' = (\/ overtaken
                   \/ Mutating /\ view.revision["group"] < request["group"].revision)
  /\ UNCHANGED blocked

-----------------------------------------------------------------------------
(* The session lifecycle: one read of its own at a time.                   *)

\* What run leaves of the lifecycle when it begins a read.
Reading(l) == [l EXCEPT !.reading = Waiting]

\* drainPendingRefresh
Drained(l) == IF l.pending THEN Reading([l EXCEPT !.pending = FALSE]) ELSE l

\* The server answers a read of the lifecycle with what the session is now.
ServeSession ==
  /\ lifecycle.reading = Waiting
  /\ lifecycle' = [lifecycle EXCEPT !.reading = Served(View)]
  /\ UNCHANGED <<session, shown, page, request, reads, typed, failures, history>>

\* run: the answer is shown, the next poll is scheduled if the session moves
\* by itself, and a refresh that waited is begun.
SessionRead ==
  /\ lifecycle.reading.step = "served"
  /\ LET view == lifecycle.reading.view IN
     /\ SyncSession(view)
     /\ lifecycle' = Drained([lifecycle EXCEPT
                                !.reading = None, !.gaveUp = FALSE,
                                !.timer = view.advancing \/ lifecycle.timer])
  /\ UNCHANGED <<session, request, reads, typed, failures>>

\* run: a failed read is tried again later, unless it will never succeed.
SessionFailed ==
  /\ lifecycle.reading # None
  /\ failures < MaxFailures
  /\ failures' = failures + 1
  /\ \E retryable \in BOOLEAN :
       lifecycle' = Drained([lifecycle EXCEPT
                               !.reading = None, !.gaveUp = ~ retryable,
                               !.timer = retryable \/ lifecycle.timer])
  /\ UNCHANGED <<session, shown, page, request, reads, typed, history>>

\* The timer of schedule.  It finds a read under way if a refresh came first.
PollDue ==
  /\ lifecycle.timer
  /\ LET rung == [lifecycle EXCEPT !.timer = FALSE] IN
     lifecycle' = IF lifecycle.reading = None THEN Reading(rung) ELSE rung
  /\ UNCHANGED <<session, shown, page, request, reads, typed, failures, history>>

\* Mutation: a refresh that finds a read under way is dropped.
DroppedRefresh == IF lifecycle.reading # None THEN lifecycle ELSE Reading(lifecycle)

\* refresh
Refreshed ==
  IF lifecycle.reading # None THEN [lifecycle EXCEPT !.pending = TRUE]
  ELSE Reading(lifecycle)

\* The upload queue finished a run of uploads: the session is read again.
FinishUpload ==
  /\ Loaded /\ lifecycle.running
  /\ session.left > 0
  /\ session' = [session EXCEPT !.uploads = @ + 1, !.left = @ - 1, !.advancing = TRUE]
  /\ lifecycle' = Refreshed
  /\ UNCHANGED <<shown, page, request, reads, typed, failures, history>>

\* The page is left: the lifecycle stops and every loader is cancelled, so no
\* answer on its way is looked at, and the behaviour ends.
Leave ==
  /\ lifecycle.running
  /\ lifecycle' = [running |-> FALSE, reading |-> None, timer |-> FALSE,
                   pending |-> FALSE, gaveUp |-> FALSE]
  /\ reads' = [i \in 1..MaxReads |-> None]
  /\ request' = [p \in Part |-> None]
  /\ UNCHANGED <<session, shown, page, typed, failures, history>>

-----------------------------------------------------------------------------
(* What the operator does on the card of the group.                        *)

\* canOperate of the card
CanOperate ==
  Loaded /\ lifecycle.running /\ ~ blocked /\ "group" \notin stale

\* EDIT_PRODUCT_DRAFT, EDIT_CURATION_DRAFT: typing rebases the form.
Edit(p) ==
  /\ CanOperate /\ typed < MaxTyped
  /\ typed' = typed + 1
  /\ form' = [form EXCEPT ![p].typed = typed', ![p].base = shown.revision[p]]
  /\ stale' = stale \ {p}
  /\ UNCHANGED <<session, shown, blocked, request, reads, lifecycle, failures, history>>

\* RESET_PRODUCT_DRAFT, RESET_CURATION_DRAFT
Reset(p) ==
  /\ CanOperate /\ Dirty(form[p])
  /\ form' = [form EXCEPT ![p] = [typed |-> 0, saved |-> 0, base |-> shown.revision[p]]]
  /\ stale' = stale \ {p}
  /\ UNCHANGED <<session, shown, blocked, request, reads, lifecycle, typed, failures, history>>

\* groupSubmissionBlocker, curationSubmissionBlocker
MaySubmit(p) ==
  CanOperate /\ request[p] = None /\ p \notin stale

\* saveProductDraft, saveCuration: the revision is the one last shown.
Save(p) ==
  /\ MaySubmit(p) /\ Dirty(form[p])
  /\ request' = [request EXCEPT ![p] =
       [step |-> "sent", kind |-> "save", content |-> form[p].typed,
        revision |-> shown.revision[p], base |-> form[p].base]]
  /\ UNCHANGED <<session, shown, page, reads, lifecycle, typed, failures, history>>

\* submit of the group loader, selectExistingCrystal
MutateGroup ==
  /\ "group" \in Part /\ MaySubmit("group")
  /\ request' = [request EXCEPT !["group"] =
       [step |-> "sent", kind |-> "mutate", revision |-> shown.revision["group"]]]
  /\ UNCHANGED <<session, shown, page, reads, lifecycle, typed, failures, history>>

\* CONFLICT_ACKNOWLEDGED: the panels offer it while blockedByConflict.
AcknowledgeConflict ==
  /\ blocked /\ lifecycle.running
  /\ form' = [p \in Part |-> [form[p] EXCEPT !.base = shown.revision[p]]]
  /\ stale' = {}
  /\ blocked' = FALSE
  /\ UNCHANGED <<session, shown, request, reads, lifecycle, typed, failures, history>>

-----------------------------------------------------------------------------
(* The submissions of the loaders and their re-reads.                      *)

Sent(p) == request[p].step = "sent"

\* The server writes a submission made against the current revision.
ServeSubmission(p) ==
  /\ Sent(p)
  /\ LET r == request[p]
         current == r.revision = Revision(p)
         content == IF r.kind = "save" THEN r.content ELSE Last(session.part[p]).content IN
     /\ current => Revision(p) < MaxRevision
     /\ session' = IF current
                  THEN [session EXCEPT !.part[p] =
                          Append(@, [content |-> content, mine |-> TRUE])]
                  ELSE session
     /\ request' = [request EXCEPT ![p] =
          IF current THEN [r EXCEPT !.step = "applied"] ELSE [step |-> "conflict"]]
  /\ UNCHANGED <<shown, page, reads, lifecycle, typed, failures, history>>

\* The call fails, before the server saw it or after.
LoseSubmission(p) ==
  /\ request[p].step \in {"sent", "applied"}
  /\ failures < MaxFailures
  /\ failures' = failures + 1
  /\ request' = [request EXCEPT ![p] = Lost]
  /\ UNCHANGED <<session, shown, page, reads, lifecycle, typed, history>>

\* Another operator saves the part.
WriteElsewhere(p) ==
  /\ lifecycle.running
  /\ Revision(p) < MaxRevision
  /\ session' = [session EXCEPT !.part[p] =
                  Append(@, [content |-> Foreign, mine |-> FALSE])]
  /\ UNCHANGED <<shown, page, request, reads, lifecycle, typed, failures, history>>

\* The worker brings the session to rest.
ComeToRest ==
  /\ lifecycle.running
  /\ session.advancing
  /\ session' = [session EXCEPT !.advancing = FALSE]
  /\ UNCHANGED <<shown, page, request, reads, lifecycle, typed, failures, history>>

\* refresh of a loader
Reread ==
  \E i \in 1..MaxReads :
    /\ reads[i] = None
    /\ reads' = [reads EXCEPT ![i] = Waiting]

Answered(p) == request' = [request EXCEPT ![p] = None]

\* PRODUCT_DRAFT_SAVED: the form becomes the one that was sent.
ProductDraftSaved ==
  /\ "group" \in Part
  /\ LET r == request["group"] IN
     /\ r.step = "applied" /\ r.kind = "save"
     /\ shown' = [shown EXCEPT !.revision["group"] = r.revision + 1]
     /\ form' = [form EXCEPT !["group"] =
                   [typed |-> r.content, saved |-> r.content, base |-> r.revision + 1]]
     /\ stale' = StaleParts(form', shown'.revision)
  /\ Answered("group")
  /\ UNCHANGED <<session, blocked, reads, lifecycle, typed, failures, history>>

\* CURATION_SAVE_APPLIED: the form as it is now counts as saved.
CurationSaveApplied ==
  /\ "draft" \in Part
  /\ LET r == request["draft"] IN
     /\ r.step = "applied"
     /\ shown' = [shown EXCEPT !.revision["draft"] = r.revision + 1]
     /\ form' = [form EXCEPT !["draft"] =
                   [typed |-> @.typed, saved |-> @.typed, base |-> r.revision + 1]]
     /\ stale' = (stale \ {"draft"}) \cup (StaleParts(form', shown'.revision) \cap {"draft"})
  /\ Answered("draft")
  /\ UNCHANGED <<session, blocked, reads, lifecycle, typed, failures, history>>

\* GROUP_MUTATION_APPLIED, then the re-read
GroupMutationApplied ==
  /\ "group" \in Part
  /\ LET r == request["group"] IN
     /\ r.step = "applied" /\ r.kind = "mutate"
     /\ shown' = [shown EXCEPT !.revision["group"] = r.revision + 1]
     /\ stale' = stale \ {"group"}
  /\ Answered("group")
  /\ Reread
  /\ UNCHANGED <<session, form, blocked, lifecycle, typed, failures, history>>

\* GROUP_MUTATION_CONFLICT, CURATION_SAVE_CONFLICT, then the re-read
MutationConflict(p) ==
  /\ request[p].step = "conflict"
  /\ blocked' = TRUE
  /\ Answered(p)
  /\ Reread
  /\ UNCHANGED <<session, shown, form, stale, lifecycle, typed, failures, history>>

\* GROUP_MUTATION_FAILED, CURATION_SAVE_FAILED
MutationFailed(p) ==
  /\ request[p] = Lost
  /\ Answered(p)
  /\ UNCHANGED <<session, shown, page, reads, lifecycle, typed, failures, history>>

ServeReread(i) ==
  /\ reads[i] = Waiting
  /\ reads' = [reads EXCEPT ![i] = Served(View)]
  /\ UNCHANGED <<session, shown, page, request, lifecycle, typed, failures, history>>

\* SESSION_REFRESHED by a loader; its answers come in any order.
SessionReread(i) ==
  /\ reads[i].step = "served"
  /\ SyncSession(reads[i].view)
  /\ reads' = [reads EXCEPT ![i] = None]
  /\ UNCHANGED <<session, request, lifecycle, typed, failures>>

\* SESSION_FAILED by a loader: a notice, and no other attempt.
RereadFailed(i) ==
  /\ reads[i] # None
  /\ failures < MaxFailures
  /\ failures' = failures + 1
  /\ reads' = [reads EXCEPT ![i] = None]
  /\ UNCHANGED <<session, shown, page, request, lifecycle, typed, history>>

ConsoleNext ==
  \/ ServeSession \/ SessionRead \/ SessionFailed \/ PollDue
  \/ FinishUpload \/ Leave \/ AcknowledgeConflict \/ MutateGroup \/ ComeToRest
  \/ ProductDraftSaved \/ CurationSaveApplied \/ GroupMutationApplied
  \/ \E p \in Part : \/ Edit(p) \/ Reset(p) \/ Save(p) \/ ServeSubmission(p)
                     \/ LoseSubmission(p) \/ WriteElsewhere(p)
                     \/ MutationConflict(p) \/ MutationFailed(p)
  \/ \E i \in 1..MaxReads : ServeReread(i) \/ SessionReread(i) \/ RereadFailed(i)

ConsoleSpec == ConsoleInit /\ [][ConsoleNext]_consoleVars

\* A read is answered or fails, and the browser's timer rings.
FairConsoleSpec ==
  /\ ConsoleSpec
  /\ WF_consoleVars(ServeSession) /\ WF_consoleVars(SessionRead)
  /\ WF_consoleVars(PollDue)

-----------------------------------------------------------------------------
Sync == {None, Waiting} \cup
  [step : {"served"},
   view : [revision : [Part -> 1..MaxRevision], content : [Part -> 0..Foreign],
           uploads : 0..session.uploads, advancing : BOOLEAN]]

Submission ==
  {None, Lost, [step |-> "conflict"]} \cup
  [step : {"sent", "applied"}, kind : {"save"}, content : 0..MaxTyped,
   revision : 1..MaxRevision, base : 1..MaxRevision] \cup
  [step : {"sent", "applied"}, kind : {"mutate"}, revision : 1..MaxRevision]

\* The page is well formed; a form marked stale has unsaved work in it, so a
\* mark never outlives the work it is about (detectStaleGroupIds).
ConsoleTypeOK ==
  /\ \A p \in Part : Revision(p) \in 1..MaxRevision
  /\ shown.revision \in [Part -> 0..MaxRevision]
  /\ form \in [Part -> [typed : 0..Foreign, saved : 0..Foreign, base : 0..MaxRevision]]
  /\ stale \subseteq {p \in Part : Dirty(form[p])}
  /\ request \in [Part -> Submission]
  /\ reads \in [1..MaxReads -> Sync] /\ lifecycle.reading \in Sync
  /\ ~ lifecycle.running =>
       lifecycle.reading = None /\ ~ lifecycle.timer /\ ~ lifecycle.pending

\* A save that the server accepts overwrites nothing that somebody else wrote
\* after the revision its form is based on: the stale marks of the page and the
\* revision check of the server leave no gap between them, in whatever order
\* polls, re-reads and answers come (workflow-state.ts, draft-loader.ts).  Of the
\* product form this is so until a session older than a group mutation under way
\* is shown.
SavesCoverSeenWork ==
  [][\A p \in Part :
       (/\ Sent(p) /\ request[p].kind = "save" /\ session'.part[p] # session.part[p]
        /\ Last(session'.part[p]).mine
        /\ p = "group" => ~ overtaken) =>
       \A i \in (request[p].base + 1)..Revision(p) : session.part[p][i].mine]_consoleVars

\* The same of the product form whatever is shown meanwhile: the revision a form
\* is based on is the one the operator confirms against (the comment on
\* rebaseProductDrafts), and the answer to a group mutation moves what is shown
\* past it without moving the form.
ProductSavesCoverSeenWork ==
  [][\A p \in Part :
       (/\ Sent(p) /\ request[p].kind = "save" /\ session'.part[p] # session.part[p]
        /\ Last(session'.part[p]).mine) =>
       \A i \in (request[p].base + 1)..Revision(p) : session.part[p][i].mine]_consoleVars

\* However polls, failures and other reads fall, the page ends on a session
\* that was read after an upload finished, unless the page is left or the read
\* failed for good (the comment on pendingRefresh in session-lifecycle.ts).
UploadsEndOnTheSession ==
  \A n \in UNION {1..work.uploads : work \in Works} :
    session.uploads = n ~>
      (known >= n \/ lifecycle.gaveUp \/ ~ lifecycle.running)

\* The page ends on a session that is as new as the last upload.
UploadsStayShown ==
  \A n \in UNION {1..work.uploads : work \in Works} :
    session.uploads = n ~>
      (shown.uploads >= n \/ lifecycle.gaveUp \/ ~ lifecycle.running)

\* What the operator typed leaves a form only by a reset: unsaved work wins over
\* whatever is read or answered (the comment on seededDraftForms).
UnsavedWorkWins ==
  [][\A p \in Part :
       form'[p].typed # form[p].typed /\ Dirty(form[p]) => Edit(p) \/ Reset(p)]_consoleVars

\* The page offers a confirmation for every stale mark that locks the card: the
\* notice asks the operator to confirm and try again (STALE_GROUP_NOTICE_MESSAGE).
StaleWorkCanBeConfirmed ==
  "group" \in stale /\ lifecycle.running => blocked

=============================================================================
